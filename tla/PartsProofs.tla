----------------------------- MODULE PartsProofs -----------------------------
(***************************************************************************)
(* Proofs about the parts of the kernel modules that MCParts runs: the     *)
(* order of the tracker's locks, the linked list of free records, the      *)
(* listing of /proc/rmap, the capture of a trace, and the tree of records. *)
(***************************************************************************)
EXTENDS IrqLock, FreeList, RmapSeq, CallStack, LpTree,
        FiniteSetTheorems, SequenceTheorems, WellFoundedInduction, TLAPS

-----------------------------------------------------------------------------
(* Queues.                                                                   *)

\* One ticket each, for the contexts of a set.
QueueFor(q, S) == q \in Seq(Context) /\ IsInjective(q) /\ ToSet(q) = S

\* Drawing a ticket.
LEMMA DrawQueue ==
  ASSUME NEW q, NEW S, QueueFor(q, S), NEW x \in Context \ S
  PROVE  /\ QueueFor(Append(q, x), S \cup {x})
         /\ Head(Append(q, x)) = IF q = <<>> THEN x ELSE Head(q)
<1> DEFINE r == Append(q, x)
<1>1. q \in Seq(Context) /\ Len(q) \in Nat /\ DOMAIN q = 1..Len(q)
  BY DEF QueueFor
<1>2. /\ r \in Seq(Context) /\ DOMAIN r = 1..(Len(q) + 1)
      /\ \A i \in 1..Len(q) : r[i] = q[i]
      /\ r[Len(q) + 1] = x
  BY <1>1
<1> HIDE DEF r
<1>3. x \notin ToSet(q) /\ ToSet(q) = S
  BY DEF QueueFor
<1>4. ToSet(r) = S \cup {x}
  BY <1>1, <1>2, <1>3 DEF ToSet
<1>5. IsInjective(r)
  <2>1. SUFFICES ASSUME NEW a \in DOMAIN r, NEW b \in DOMAIN r, r[a] = r[b] PROVE a = b
    BY DEF IsInjective
  <2>2. CASE a \in 1..Len(q) /\ b \in 1..Len(q)
    BY <1>1, <1>2, <2>1, <2>2 DEF QueueFor, IsInjective
  <2>3. CASE a = Len(q) + 1 \/ b = Len(q) + 1
    BY <1>1, <1>2, <1>3, <2>1, <2>3 DEF ToSet
  <2> QED  BY <1>1, <1>2, <2>2, <2>3
<1>6. Head(r) = IF q = <<>> THEN x ELSE Head(q)
  <2>1. CASE q = <<>>
    BY <2>1 DEF r
  <2>2. CASE q # <<>>
    BY <1>1, <1>2, <2>2
  <2> QED  BY <2>1, <2>2
<1> QED  BY <1>2, <1>4, <1>5, <1>6 DEF QueueFor, r

\* Giving the lock back.
LEMMA LeaveQueue ==
  ASSUME NEW q, NEW S, QueueFor(q, S), q # <<>>
  PROVE  /\ QueueFor(Tail(q), S \ {Head(q)})
         /\ Head(q) \in S
<1> DEFINE r == Tail(q)
<1>1. q \in Seq(Context) /\ Len(q) \in Nat \ {0} /\ DOMAIN q = 1..Len(q) /\ Head(q) = q[1]
  BY DEF QueueFor
<1>2. /\ r \in Seq(Context) /\ DOMAIN r = 1..(Len(q) - 1)
      /\ \A i \in 1..(Len(q) - 1) : r[i] = q[i + 1]
  BY <1>1
<1> HIDE DEF r
<1>3. \A a, b \in 1..Len(q) : q[a] = q[b] => a = b
  BY <1>1 DEF QueueFor, IsInjective
<1>4. IsInjective(r)
  BY <1>1, <1>2, <1>3 DEF IsInjective
<1>5. \A i \in 1..(Len(q) - 1) : r[i] # Head(q)
  BY <1>1, <1>2, <1>3
<1>6. \A y : y \in ToSet(q) => y = Head(q) \/ y \in ToSet(r)
  <2>1. SUFFICES ASSUME NEW i \in 1..Len(q) PROVE q[i] = Head(q) \/ q[i] \in ToSet(r)
    BY <1>1 DEF ToSet
  <2>2. CASE i = 1
    BY <1>1, <2>2
  <2>3. CASE i # 1
    <3>1. i - 1 \in 1..(Len(q) - 1) /\ r[i - 1] = q[i]
      BY <1>1, <1>2, <2>3
    <3> QED  BY <1>2, <3>1 DEF ToSet
  <2> QED  BY <2>2, <2>3
<1>7. ToSet(r) \subseteq ToSet(q)
  BY <1>1, <1>2 DEF ToSet
<1>8. Head(q) \notin ToSet(r) /\ Head(q) \in ToSet(q)
  BY <1>1, <1>2, <1>5 DEF ToSet
<1>9. ToSet(r) = ToSet(q) \ {Head(q)}
  BY <1>6, <1>7, <1>8
<1> QED  BY <1>2, <1>4, <1>8, <1>9 DEF QueueFor, r

-----------------------------------------------------------------------------
(* The steps of a context.                                                   *)

Places == {"idle"} \cup WithLpLock \cup WithPoolLock
At(places) == {y \in Context : place[y] \in places}

LEMMA QueuesFor ==
  ASSUME LockInv
  PROVE  QueueFor(lp_lock, At(WithLpLock)) /\ QueueFor(lp_pool_lock, At(WithPoolLock))
<1>1. \A q \in Seq(Context) : ToSet(q) \subseteq Context
  BY DEF ToSet
<1> QED  BY <1>1 DEF LockInv, QueueOf, QueueFor, At

\* A step that moves a context and takes the queues along.
LEMMA MoveKeeps ==
  ASSUME LockInv, NEW x \in Context, Runs(x), MayBegin(x),
         NEW to \in Places, place' = [place EXCEPT ![x] = to],
         QueueFor(lp_lock', At(WithLpLock)'), QueueFor(lp_pool_lock', At(WithPoolLock)'),
         to \in {"print_log_page", "loop", "alloc_lp"} => Head(lp_lock') = x,
         \A y \in Context \ {x} :
           place[y] \in {"print_log_page", "loop", "alloc_lp"}
             => Head(lp_lock') = Head(lp_lock)
  PROVE  LockInv'
<1>1. place \in [Context -> Places]
  BY DEF LockInv, Places
<1>2. /\ place' \in [Context -> Places] /\ place'[x] = to
      /\ \A y \in Context \ {x} : place'[y] = place[y]
  BY <1>1
<1>3. QueueOf(lp_lock, WithLpLock)' /\ QueueOf(lp_pool_lock, WithPoolLock)'
  BY DEF QueueFor, QueueOf, At
<1>4. \A y \in Context : place'[y] \in {"print_log_page", "loop", "alloc_lp"} => Head(lp_lock') = y
  BY <1>2 DEF LockInv
<1>5. ASSUME NEW y \in Context, place'[y] # "idle" PROVE MayBegin(y)'
  <2>0. y \in Cpu \X Level /\ x \in Cpu \X Level /\ x = <<x[1], x[2]>> /\ y = <<y[1], y[2]>>
    BY DEF Context
  <2>1. SUFFICES ASSUME y[2] = "irq"
                 PROVE  place'[<<y[1], "task">>] \in {"idle"} \cup InQuery
    BY DEF MayBegin
  <2>2. <<y[1], "task">> \in Context /\ y[1] \in Cpu
    BY <2>0 DEF Context, Level
  <2>3. CASE x = <<y[1], "task">>
    <3>1. x # y /\ x[1] = y[1] /\ x[2] = "task"
      BY <2>1, <2>3
    <3>2. y = <<x[1], "irq">>
      BY <2>0, <2>1, <3>1
    <3> QED  BY <1>2, <1>5, <3>1, <3>2 DEF Runs
  <2>4. CASE x # <<y[1], "task">>
    <3>1. place'[<<y[1], "task">>] = place[<<y[1], "task">>]
      BY <1>2, <2>2, <2>4
    <3>2. MayBegin(y)
      BY <1>2, <1>5 DEF LockInv
    <3> QED  BY <2>1, <3>1, <3>2 DEF MayBegin
  <2> QED  BY <2>3, <2>4
<1> QED  BY <1>2, <1>3, <1>4, <1>5 DEF LockInv, Places

\* Where a move leaves the contexts of a set of places.
LEMMA MovedAt ==
  ASSUME LockInv, NEW x \in Context, NEW to, place' = [place EXCEPT ![x] = to], NEW places
  PROVE  /\ to \in places => At(places)' = At(places) \cup {x}
         /\ to \notin places => At(places)' = At(places) \ {x}
         /\ x \in At(places) <=> place[x] \in places
  BY DEF LockInv, At

\* Drawing a ticket for a lock the context has none for, and going where it waits.
LEMMA DrawKeeps ==
  ASSUME LockInv, NEW x \in Context, NEW to \in Places,
         place' = [place EXCEPT ![x] = to], NEW q, NEW places,
         QueueFor(q, At(places)), place[x] \notin places, to \in places
  PROVE  /\ QueueFor(Append(q, x), At(places)')
         /\ \A y \in Context : y \in At(places) => Head(Append(q, x)) = Head(q)
<1>1. x \in Context \ At(places) /\ At(places)' = At(places) \cup {x}
  BY MovedAt
<1>2. At(places) # {} => q # <<>>
  BY DEF QueueFor, ToSet
<1> QED  BY <1>1, <1>2, DrawQueue

\* Giving a lock back, and going where the context has no ticket for it.
LEMMA LeaveKeeps ==
  ASSUME LockInv, NEW x \in Context, NEW to \in Places,
         place' = [place EXCEPT ![x] = to], NEW q, NEW places,
         QueueFor(q, At(places)), q # <<>>, Head(q) = x, to \notin places
  PROVE  QueueFor(Tail(q), At(places)')
<1>1. At(places)' = At(places) \ {x}
  BY MovedAt
<1> QED  BY <1>1, LeaveQueue

\* Leaving a queue as it is.
LEMMA StayKeeps ==
  ASSUME LockInv, NEW x \in Context, NEW to \in Places,
         place' = [place EXCEPT ![x] = to], NEW q, NEW places,
         QueueFor(q, At(places)), place[x] \in places <=> to \in places
  PROVE  QueueFor(q, At(places)')
<1>1. CASE to \in places
  <2>1. At(places)' = At(places) \cup {x} /\ x \in At(places)
    BY <1>1, MovedAt
  <2>2. At(places)' = At(places)
    BY <2>1
  <2> QED  BY <2>2
<1>2. CASE to \notin places
  <2>1. At(places)' = At(places) \ {x} /\ x \notin At(places)
    BY <1>2, MovedAt
  <2>2. At(places)' = At(places)
    BY <2>1
  <2> QED  BY <2>2
<1> QED  BY <1>1, <1>2

LEMMA LockStep ==
  ASSUME LockInv, [LockNext]_lockVars
  PROVE  LockInv'
<1> USE DEF Places, WithLpLock, WithPoolLock, InQuery
<1>1. CASE UNCHANGED lockVars
  BY <1>1 DEF LockInv, QueueOf, MayBegin, lockVars
<1>2. ASSUME NEW x \in Context, Step(x) PROVE LockInv'
  <2> DEFINE lp == At(WithLpLock)
             pool == At(WithPoolLock)
             past == {"print_log_page", "loop", "alloc_lp"}
  <2>1. QueueFor(lp_lock, lp) /\ QueueFor(lp_pool_lock, pool)
    BY QueuesFor
  <2>2. \A y \in Context : place[y] \in past => Head(lp_lock) = y /\ lp_lock # <<>> /\ y \in lp
    BY <2>1 DEF LockInv, QueueFor, ToSet, At
  <2>3. place[x] # "idle" => MayBegin(x)
    BY DEF LockInv
  <2> HIDE DEF lp, pool
  <2>4. ASSUME NEW from, NEW to \in Places, Go(x, from, to), MayBegin(x), from \notin past,
               from \notin WithLpLock, to \in WithLpLock \ past, Draw(lp_lock, x),
               UNCHANGED lp_pool_lock, from \in WithPoolLock <=> to \in WithPoolLock
        PROVE  LockInv'
    <3>1. /\ QueueFor(lp_lock', At(WithLpLock)')
          /\ \A y \in Context : y \in lp => Head(lp_lock') = Head(lp_lock)
      BY <2>1, <2>4, DrawKeeps DEF Go, Draw, lp
    <3>2. QueueFor(lp_pool_lock', At(WithPoolLock)')
      BY <2>1, <2>4, StayKeeps DEF Go, pool
    <3> QED  BY <2>2, <2>4, <3>1, <3>2, MoveKeeps DEF Go
  <2>5. ASSUME NEW from, NEW to \in Places, Go(x, from, to), MayBegin(x),
               from \in WithLpLock, to \notin WithLpLock, lp_lock # <<>>, Head(lp_lock) = x,
               Leave(lp_lock), UNCHANGED lp_pool_lock,
               from \in WithPoolLock <=> to \in WithPoolLock
        PROVE  LockInv'
    <3>1. QueueFor(lp_lock', At(WithLpLock)')
      BY <2>1, <2>5, LeaveKeeps DEF Go, Leave, lp
    <3>2. QueueFor(lp_pool_lock', At(WithPoolLock)')
      BY <2>1, <2>5, StayKeeps DEF Go, pool
    <3> QED  BY <2>2, <2>5, <3>1, <3>2, MoveKeeps DEF Go
  <2>6. ASSUME NEW from, NEW to \in Places, Go(x, from, to), MayBegin(x),
               from \in WithLpLock <=> to \in WithLpLock,
               to \in past => Head(lp_lock) = x,
               from \in WithPoolLock <=> to \in WithPoolLock,
               UNCHANGED <<lp_lock, lp_pool_lock>>
        PROVE  LockInv'
    <3>1. QueueFor(lp_lock', At(WithLpLock)') /\ QueueFor(lp_pool_lock', At(WithPoolLock)')
      BY <2>1, <2>6, StayKeeps DEF Go, lp, pool
    <3> QED  BY <2>6, <3>1, MoveKeeps DEF Go
  <2>7. ASSUME NEW from, NEW to \in Places, Go(x, from, to), MayBegin(x),
               from \in WithLpLock <=> to \in WithLpLock, to \in past => Head(lp_lock) = x,
               from \notin WithPoolLock, to \in WithPoolLock, Draw(lp_pool_lock, x),
               UNCHANGED lp_lock
        PROVE  LockInv'
    <3>1. QueueFor(lp_lock', At(WithLpLock)')
      BY <2>1, <2>7, StayKeeps DEF Go, lp
    <3>2. QueueFor(lp_pool_lock', At(WithPoolLock)')
      BY <2>1, <2>7, DrawKeeps DEF Go, Draw, pool
    <3> QED  BY <2>7, <3>1, <3>2, MoveKeeps DEF Go
  <2>8. ASSUME NEW from, NEW to \in Places, Go(x, from, to), MayBegin(x),
               from \in WithLpLock <=> to \in WithLpLock, to \in past => Head(lp_lock) = x,
               to \notin WithPoolLock, Turn(lp_pool_lock, x), Leave(lp_pool_lock),
               UNCHANGED lp_lock
        PROVE  LockInv'
    <3>1. QueueFor(lp_lock', At(WithLpLock)')
      BY <2>1, <2>8, StayKeeps DEF Go, lp
    <3>2. QueueFor(lp_pool_lock', At(WithPoolLock)')
      BY <2>1, <2>8, LeaveKeeps DEF Go, Turn, Leave, pool
    <3> QED  BY <2>8, <3>1, <3>2, MoveKeeps DEF Go
  <2> HIDE DEF past
  <2>9. CASE print_page(x)
    <3>1. CASE Begin(x, "print_page") /\ Draw(lp_lock, x)
      BY <2>4, <2>9, <3>1 DEF print_page, Begin, past
    <3>2. CASE Turn(lp_lock, x) /\ Go(x, "print_page", "print_log_page") /\ UNCHANGED lp_lock
      BY <2>3, <2>6, <2>9, <3>2 DEF print_page, Turn, Go, past
    <3>3. CASE Go(x, "print_log_page", "idle") /\ Leave(lp_lock)
      BY <2>2, <2>3, <2>5, <2>9, <3>3 DEF print_page, Go, past
    <3> QED  BY <2>9, <3>1, <3>2, <3>3 DEF print_page
  <2>10. CASE EntryHandler(x)
    <3>1. CASE Begin(x, "__alloc_lp") /\ Draw(lp_pool_lock, x)
      BY <2>7, <2>10, <3>1 DEF EntryHandler, Begin, past
    <3>2. CASE Turn(lp_pool_lock, x) /\ Go(x, "__alloc_lp", "idle") /\ Leave(lp_pool_lock)
      BY <2>3, <2>8, <2>10, <3>2 DEF EntryHandler, Go, past
    <3> QED  BY <2>10, <3>1, <3>2 DEF EntryHandler
  <2>11. CASE RetHandler(x)
    <3>1. CASE Begin(x, "log_page_insert") /\ Draw(lp_lock, x)
      BY <2>4, <2>11, <3>1 DEF RetHandler, Begin, past
    <3>2. CASE Turn(lp_lock, x) /\ Go(x, "log_page_insert", "idle") /\ Leave(lp_lock)
      BY <2>3, <2>5, <2>11, <3>2 DEF RetHandler, Turn, Go, past
    <3> QED  BY <2>11, <3>1, <3>2 DEF RetHandler
  <2>12. CASE do_log_page_free(x)
    <3>1. CASE Begin(x, "do_log_page_free") /\ Draw(lp_lock, x) /\ UNCHANGED lp_pool_lock
      BY <2>4, <3>1 DEF Begin, past
    <3>2. CASE /\ Turn(lp_lock, x) /\ Go(x, "do_log_page_free", "loop")
               /\ UNCHANGED <<lp_lock, lp_pool_lock>>
      BY <2>3, <2>6, <3>2 DEF Turn, Go, past
    <3>3. CASE Go(x, "loop", "alloc_lp") /\ Draw(lp_pool_lock, x) /\ UNCHANGED lp_lock
      BY <2>2, <2>3, <2>7, <3>3 DEF Go, past
    <3>4. CASE /\ Turn(lp_pool_lock, x) /\ Go(x, "alloc_lp", "loop")
               /\ Leave(lp_pool_lock) /\ UNCHANGED lp_lock
      BY <2>2, <2>3, <2>8, <3>4 DEF Go, past
    <3>5. CASE Go(x, "loop", "idle") /\ Leave(lp_lock) /\ UNCHANGED lp_pool_lock
      BY <2>2, <2>3, <2>5, <3>5 DEF Go, past
    <3> QED  BY <2>12, <3>1, <3>2, <3>3, <3>4, <3>5 DEF do_log_page_free
  <2> QED  BY <1>2, <2>9, <2>10, <2>11, <2>12 DEF Step
<1> QED  BY <1>1, <1>2 DEF LockNext

\* Every ticket is where its context waits for the lock or holds it, and the holder
\* of lp_lock is ahead in its queue, in every behaviour of the tracker's contexts.
THEOREM LockInvCorrect == LockSpec => []LockInv
<1>1. LockInit => LockInv
  <2>1. SUFFICES ASSUME LockInit PROVE LockInv
    OBVIOUS
  <2>2. IsInjective(<<>>) /\ ToSet(<<>>) = {} /\ <<>> \in Seq(Context)
    BY DEF IsInjective, ToSet
  <2> QED  BY <2>1, <2>2 DEF LockInit, LockInv, QueueOf, MayBegin, WithLpLock, WithPoolLock, InQuery
<1> QED  BY <1>1, LockStep, PTL DEF LockSpec

-----------------------------------------------------------------------------
(* Nobody waits in a circle.                                                 *)

\* Whom a context that runs waits for.
LEMMA AheadIs ==
  ASSUME LockInv, NEW x \in Context, Runs(x)
  PROVE  \/ Ahead(x) = x
         \/ x \in ToSet(lp_pool_lock) /\ Ahead(x) = Head(lp_pool_lock)
         \/ x \in ToSet(lp_lock) \ ToSet(lp_pool_lock) /\ Ahead(x) = Head(lp_lock)
<1> DEFINE Waits(q) == x \in ToSet(q) /\ Head(q) # x
           queue == CHOOSE q \in {lp_lock, lp_pool_lock} : Waits(q)
<1>1. CASE \A q \in {lp_lock, lp_pool_lock} : ~Waits(q)
  BY <1>1 DEF Ahead
<1>2. CASE \E q \in {lp_lock, lp_pool_lock} : Waits(q)
  <2>1. queue \in {lp_lock, lp_pool_lock} /\ Waits(queue)
    BY <1>2
  <2>2. Ahead(x) = Head(queue)
    BY <1>2 DEF Ahead
  <2> HIDE DEF queue
  <2>3. ASSUME x \in ToSet(lp_lock), x \in ToSet(lp_pool_lock) PROVE Head(lp_lock) = x
    BY <2>3 DEF LockInv, QueueOf, WithLpLock, WithPoolLock, InQuery
  <2> QED  BY <2>1, <2>2, <2>3
<1> QED  BY <1>1, <1>2

\* The holder of lp_pool_lock can go on.
LEMMA PoolHolderGoesOn ==
  ASSUME LockInv, lp_pool_lock # <<>>
  PROVE  Ahead(Head(lp_pool_lock)) = Head(lp_pool_lock)
<1> DEFINE x == Head(lp_pool_lock)
<1>1. x \in Context /\ x \in ToSet(lp_pool_lock) /\ place[x] \in WithPoolLock
  BY DEF LockInv, QueueOf, ToSet
<1> HIDE DEF x
<1>2. Runs(x)
  <2>1. SUFFICES ASSUME x[2] # "irq" PROVE place[<<x[1], "irq">>] = "idle"
    BY DEF Runs
  <2>2. <<x[1], "irq">> \in Context /\ <<x[1], "task">> = x
    BY <1>1, <2>1 DEF Context, Level
  <2>3. place[x] \notin {"idle"} \cup InQuery
    BY <1>1 DEF WithPoolLock, InQuery
  <2> QED  BY <2>2, <2>3 DEF LockInv, MayBegin
<1>3. x \in ToSet(lp_lock) => Head(lp_lock) = x
  BY <1>1 DEF LockInv, QueueOf, WithLpLock, WithPoolLock, InQuery
<1> QED  BY <1>1, <1>2, <1>3, AheadIs DEF x

\* The order in which the two locks are taken, and interrupts that are off in the
\* handlers, leave one way to wait for ever: a query that holds or wants lp_lock,
\* with interrupts on, under a handler that wants it too.
THEOREM NoCircleCorrect == LockSpec => []NoCircle
<1>1. LockInv => NoCircle
  <2>1. SUFFICES ASSUME LockInv, ~SelfLocked,
                        NEW X \in SUBSET Context, X # {}, \A x \in X : Ahead(x) \in X,
                        \A x \in X : Ahead(x) # x
                 PROVE  FALSE
    BY DEF NoCircle
  <2>2. ASSUME NEW y \in X, Runs(y)
        PROVE  y \in ToSet(lp_lock) /\ Ahead(y) = Head(lp_lock)
    <3>1. \A q : q = <<>> => ToSet(q) = {}
      BY DEF ToSet
    <3>2. Ahead(y) # Head(lp_pool_lock) \/ lp_pool_lock = <<>>
      BY <2>1, PoolHolderGoesOn
    <3> QED  BY <2>1, <2>2, <3>1, <3>2, AheadIs
  <2>3. ASSUME NEW y \in X, ~Runs(y)
        PROVE  <<y[1], "irq">> \in X /\ Runs(<<y[1], "irq">>) /\ y \notin ToSet(lp_lock)
    <3>1. y[2] = "task" /\ y = <<y[1], "task">> /\ y[1] \in Cpu /\ place[<<y[1], "irq">>] # "idle"
      BY <2>3 DEF Runs, Context, Level
    <3>2. <<y[1], "irq">> \in X
      BY <2>1, <2>3 DEF Ahead
    <3>3. Runs(<<y[1], "irq">>)
      BY DEF Runs
    <3>4. place[y] \in {"idle"} \cup InQuery
      BY <2>1, <3>1, <3>2 DEF LockInv, MayBegin
    <3>5. <<y[1], "irq">> \in ToSet(lp_lock)
      BY <2>2, <3>2, <3>3
    <3>6. place[y] = "idle" \/ y \notin ToSet(lp_lock)
      BY <2>1, <3>1, <3>4, <3>5 DEF SelfLocked
    <3>7. place[y] = "idle" => y \notin ToSet(lp_lock)
      BY <2>1 DEF LockInv, QueueOf, WithLpLock, InQuery
    <3> QED  BY <3>2, <3>3, <3>6, <3>7
  <2>4. PICK y \in X : Runs(y)
    BY <2>1, <2>3
  <2>5. Head(lp_lock) \in X /\ Head(lp_lock) \in ToSet(lp_lock)
    <3>1. lp_lock \in Seq(Context) /\ lp_lock # <<>>
      BY <2>1, <2>2, <2>4 DEF LockInv, QueueOf, ToSet
    <3> QED  BY <2>1, <2>2, <2>4, <3>1 DEF ToSet
  <2>6. Runs(Head(lp_lock))
    BY <2>3, <2>5
  <2> QED  BY <2>1, <2>2, <2>5, <2>6
<1> QED  BY <1>1, LockInvCorrect, PTL

-----------------------------------------------------------------------------
(* Induction over the natural numbers, for a set.                            *)

LessNat == {p \in Nat \X Nat : p[1] < p[2]}

LEMMA LessNatWellFounded == IsWellFoundedOn(LessNat, Nat)
  BY NatLessThanWellFounded DEF OpToRel, LessNat

LEMMA Least ==
  ASSUME NEW S, S \subseteq Nat, S # {}
  PROVE  \E k \in S : \A n \in S : k <= n
<1>1. PICK k \in S : \A n \in S : ~ (<<n, k>> \in LessNat)
  BY LessNatWellFounded, WFMin
<1>2. ASSUME NEW n \in S PROVE k <= n
  <2>1. k \in Nat /\ n \in Nat /\ ~ (<<n, k>> \in LessNat)
    BY <1>1
  <2> QED  BY <2>1 DEF LessNat
<1> QED  BY <1>2

LEMMA Induction ==
  ASSUME NEW S, 0 \in S, \A n \in Nat : n \in S => n + 1 \in S
  PROVE  Nat \subseteq S
<1>1. SUFFICES ASSUME Nat \ S # {} PROVE FALSE
  OBVIOUS
<1>2. PICK k \in Nat \ S : \A n \in Nat \ S : k <= n
  BY <1>1, Least
<1>3. k # 0 /\ k - 1 \in Nat /\ k - 1 \in S
  BY <1>2
<1> QED  BY <1>2, <1>3

-----------------------------------------------------------------------------
(* The list of free records.                                                 *)

Stack(n, s) == {s[i] : i \in 1..n}
Reach(first, link) ==
  {l \in Node : \A X \in SUBSET Node :
     ({first} \cup {link[k] : k \in X}) \cap Node \subseteq X => l \in X}

\* What is linked down to the NULL is what is reached.
LEMMA ReachesStack ==
  ASSUME NEW first, NEW link, NEW n \in Nat, NEW s \in [1..n -> Node],
         first = IF n = 0 THEN NULL ELSE s[n],
         \A i \in 1..n : link[s[i]] = IF i = 1 THEN NULL ELSE s[i - 1]
  PROVE  Reach(first, link) = Stack(n, s)
<1>1. Stack(n, s) \subseteq Node /\ NULL \notin Node
  BY FreeListAssumption DEF Stack
<1>2. Reach(first, link) \subseteq Stack(n, s)
  <2>1. first \in Node => first \in Stack(n, s)
    BY <1>1 DEF Stack
  <2>2. ASSUME NEW k \in Stack(n, s), link[k] \in Node PROVE link[k] \in Stack(n, s)
    <3>1. PICK i \in 1..n : k = s[i]
      BY DEF Stack
    <3>2. i - 1 \in 1..n /\ link[k] = s[i - 1]
      BY <1>1, <2>2, <3>1
    <3> QED  BY <3>2 DEF Stack
  <2> QED  BY <1>1, <2>1, <2>2 DEF Reach
<1>3. ASSUME NEW X \in SUBSET Node, ({first} \cup {link[k] : k \in X}) \cap Node \subseteq X
      PROVE  Stack(n, s) \subseteq X
  <2> DEFINE In == {d \in Nat : d < n => s[n - d] \in X}
  <2>1. 0 \in In
    <3>1. 0 < n => n \in 1..n /\ first = s[n] /\ s[n] \in Node
      OBVIOUS
    <3> QED  BY <1>3, <3>1
  <2>2. ASSUME NEW d \in Nat, d \in In PROVE d + 1 \in In
    <3>1. SUFFICES ASSUME d + 1 < n PROVE s[n - (d + 1)] \in X
      OBVIOUS
    <3>2. /\ n - d \in 1..n /\ n - d # 1 /\ s[n - d] \in X
          /\ n - (d + 1) \in 1..n /\ n - (d + 1) = (n - d) - 1
      BY <2>2, <3>1
    <3>3. link[s[n - d]] = s[n - (d + 1)] /\ s[n - (d + 1)] \in Node
      BY <3>2
    <3> QED  BY <1>3, <3>2, <3>3
  <2> HIDE DEF In
  <2>3. Nat \subseteq In
    BY <2>1, <2>2, Induction
  <2>4. ASSUME NEW i \in 1..n PROVE s[i] \in X
    <3>1. n - i \in In /\ n - i < n /\ n - (n - i) = i
      BY <2>3
    <3> QED  BY <3>1 DEF In
  <2> QED  BY <2>4 DEF Stack
<1> QED  BY <1>1, <1>2, <1>3 DEF Reach

LEMMA ChainIsStack ==
  ASSUME NEW n \in Nat, NEW s \in [1..n -> Node]
  PROVE  /\ Stacked(n, s) => Chain = Stack(n, s)
         /\ Stacked(n, s)' => Chain' = Stack(n, s)
<1>1. Chain = Reach(free, next) /\ Chain' = Reach(free', next')
  BY DEF Chain, Reach
<1>2. Stacked(n, s) => Chain = Stack(n, s)
  BY <1>1, ReachesStack DEF Stacked
<1>3. Stacked(n, s)' => Chain' = Stack(n, s)
  BY <1>1, ReachesStack DEF Stacked
<1> QED  BY <1>2, <1>3

LEMMA Interval ==
  ASSUME NEW k \in Nat
  PROVE  IsFiniteSet(1..k) /\ Cardinality(1..k) = k
<1>1. IsFiniteSet(1..k) /\ Cardinality(1..k) = IF 1 > k THEN 0 ELSE k - 1 + 1
  BY FS_Interval
<1> QED  BY <1>1

\* What a step does to the list: nothing, a push or a pop.
LEMMA SameList ==
  ASSUME FreeListTypeOK, OneStack, UNCHANGED <<filled, free>>,
         \A l \in Node : next'[l] = next[l] \/ \E u \in User : Held(u) = l,
         \A u \in User : Held(u)' = Held(u)
  PROVE  OneStack' /\ Chain' = Chain
<1>0. PICK n \in 0..NrLp : \E s \in [1..n -> Node] : Stacked(n, s)
  BY DEF OneStack
<1>1. PICK s \in [1..n -> Node] : Stacked(n, s)
  BY <1>0
<1>2. \A i \in 1..n : s[i] \in Node /\ next'[s[i]] = next[s[i]]
  BY <1>1 DEF Stacked
<1>3. {Held(u)' : u \in User} = {Held(u) : u \in User}
  OBVIOUS
<1> HIDE DEF Held
<1>4. Stacked(n, s)'
  BY <1>1, <1>2, <1>3 DEF Stacked
<1> QED  BY <1>1, <1>4, ChainIsStack DEF OneStack

LEMMA PushList ==
  ASSUME FreeListTypeOK, OneStack, NEW l \in Node, l \notin Chain,
         free' = l, next'[l] = free, filled' \in 0..NrLp,
         \A k \in Chain : next'[k] = next[k],
         1..filled' = 1..filled \cup {l},
         {Held(u)' : u \in User} \ {NULL} = ({Held(u) : u \in User} \ {NULL}) \ {l},
         \A u \in User : Held(u)' \in {Held(u), NULL} /\ Held(u)' # l
  PROVE  OneStack' /\ Chain' = Chain \cup {l}
<1>0. PICK n \in 0..NrLp : \E s \in [1..n -> Node] : Stacked(n, s)
  BY DEF OneStack
<1>1. PICK s \in [1..n -> Node] : Stacked(n, s)
  BY <1>0
<1>2. Chain = Stack(n, s)
  BY <1>1, ChainIsStack
<1> DEFINE t == [i \in 1..(n + 1) |-> IF i = n + 1 THEN l ELSE s[i]]
<1>3. /\ n + 1 \in Nat \ {0} /\ t \in [1..(n + 1) -> Node] /\ t[n + 1] = l
      /\ \A i \in 1..n : i \in 1..(n + 1) /\ t[i] = s[i]
      /\ \A i \in 1..(n + 1) : i = n + 1 \/ i \in 1..n
  OBVIOUS
<1> HIDE DEF t
<1>4. \A i \in 1..n : s[i] # l /\ s[i] \in Chain
  BY <1>2 DEF Stack
<1>5. \A i, j \in 1..(n + 1) : t[i] = t[j] => i = j
  BY <1>1, <1>3, <1>4 DEF Stacked
<1>6. n + 1 \in 0..NrLp
  <2>1. SUFFICES ASSUME n + 1 > NrLp PROVE FALSE
    BY <1>3, FreeListAssumption
  <2>2. /\ IsFiniteSet(Node) /\ Cardinality(Node) = NrLp
        /\ IsFiniteSet(1..(n + 1)) /\ Cardinality(1..(n + 1)) = n + 1
    BY <1>3, FreeListAssumption, Interval DEF Node
  <2> QED  BY <1>3, <1>5, <2>1, <2>2, FS_PigeonHole
<1>7. Stack(n + 1, t) = Stack(n, s) \cup {l}
  <2>1. Stack(n, s) \cup {l} \subseteq Stack(n + 1, t)
    BY <1>3 DEF Stack
  <2>2. Stack(n + 1, t) \subseteq Stack(n, s) \cup {l}
    BY <1>3 DEF Stack
  <2> QED  BY <2>1, <2>2
<1> HIDE DEF Held
<1>8. Stacked(n + 1, t)'
  <2>1. free' = IF n + 1 = 0 THEN NULL ELSE t[n + 1]
    BY <1>3
  <2>2. ASSUME NEW i \in 1..(n + 1)
        PROVE  next'[t[i]] = IF i = 1 THEN NULL ELSE t[i - 1]
    <3>1. CASE i = n + 1
      <4>1. free = IF n = 0 THEN NULL ELSE s[n]
        BY <1>1 DEF Stacked
      <4>2. n # 0 => n \in 1..n /\ t[n] = s[n]
        BY <1>3
      <4> QED  BY <1>3, <3>1, <4>1, <4>2
    <3>2. CASE i \in 1..n
      <4>1. next'[t[i]] = next[s[i]]
        BY <1>3, <1>4, <3>2
      <4>2. i # 1 => i - 1 \in 1..n /\ t[i - 1] = s[i - 1]
        BY <1>3, <3>2
      <4> QED  BY <1>1, <3>2, <4>1, <4>2 DEF Stacked
    <3> QED  BY <1>3, <3>1, <3>2
  <2>3. 1..filled' = Stack(n + 1, t) \cup ({Held(u)' : u \in User} \ {NULL})
    <3>1. 1..filled = Stack(n, s) \cup ({Held(u) : u \in User} \ {NULL})
      BY <1>1 DEF Stacked, Stack
    <3> QED  BY <1>7, <3>1
  <2>4. ASSUME NEW i \in 1..(n + 1), NEW u \in User PROVE t[i] # Held(u)'
    <3>1. NULL \notin Node /\ t[i] \in Node
      BY <1>3, FreeListAssumption
    <3>2. i \in 1..n => s[i] # Held(u)
      BY <1>1 DEF Stacked
    <3> QED  BY <1>3, <3>1, <3>2
  <2> QED  BY <1>5, <2>1, <2>2, <2>3, <2>4 DEF Stacked, Stack
<1> QED  BY <1>2, <1>3, <1>6, <1>7, <1>8, ChainIsStack DEF OneStack

LEMMA PopList ==
  ASSUME FreeListTypeOK, OneStack, free \in Node,
         free' = next[free], UNCHANGED <<filled, next>>,
         {Held(u)' : u \in User} \ {NULL} = ({Held(u) : u \in User} \ {NULL}) \cup {free},
         \A u \in User : Held(u)' \in {Held(u), free}
  PROVE  OneStack' /\ free \in Chain /\ Chain' = Chain \ {free}
<1>0. PICK n \in 0..NrLp : \E s \in [1..n -> Node] : Stacked(n, s)
  BY DEF OneStack
<1>1. PICK s \in [1..n -> Node] : Stacked(n, s)
  BY <1>0
<1>2. Chain = Stack(n, s)
  BY <1>1, ChainIsStack
<1>3. n # 0 /\ n \in 1..n /\ free = s[n]
  BY <1>1, FreeListAssumption DEF Stacked
<1> DEFINE t == [i \in 1..(n - 1) |-> s[i]]
<1>4. /\ n - 1 \in 0..NrLp /\ t \in [1..(n - 1) -> Node]
      /\ \A i \in 1..(n - 1) : i \in 1..n /\ i # n /\ t[i] = s[i]
      /\ \A i \in 1..n : i = n \/ i \in 1..(n - 1)
  BY <1>3, FreeListAssumption
<1> HIDE DEF t
<1>5. \A i, j \in 1..n : s[i] = s[j] => i = j
  BY <1>1 DEF Stacked
<1>6. Stack(n - 1, t) = Stack(n, s) \ {free}
  <2>1. Stack(n - 1, t) \subseteq Stack(n, s) \ {free}
    BY <1>3, <1>4, <1>5 DEF Stack
  <2>2. Stack(n, s) \ {free} \subseteq Stack(n - 1, t)
    BY <1>3, <1>4 DEF Stack
  <2> QED  BY <2>1, <2>2
<1> HIDE DEF Held
<1>7. Stacked(n - 1, t)'
  <2>1. free' = IF n - 1 = 0 THEN NULL ELSE t[n - 1]
    <3>1. next[s[n]] = IF n = 1 THEN NULL ELSE s[n - 1]
      BY <1>1, <1>3 DEF Stacked
    <3>2. n # 1 => n - 1 \in 1..(n - 1)
      BY <1>3
    <3> QED  BY <1>3, <1>4, <3>1, <3>2
  <2>2. ASSUME NEW i \in 1..(n - 1)
        PROVE  next'[t[i]] = IF i = 1 THEN NULL ELSE t[i - 1]
    <3>1. next[s[i]] = IF i = 1 THEN NULL ELSE s[i - 1]
      BY <1>1, <1>4 DEF Stacked
    <3>2. i # 1 => i - 1 \in 1..(n - 1)
      BY <1>3
    <3> QED  BY <1>4, <3>1, <3>2
  <2>3. 1..filled' = Stack(n - 1, t) \cup ({Held(u)' : u \in User} \ {NULL})
    <3>1. 1..filled = Stack(n, s) \cup ({Held(u) : u \in User} \ {NULL})
      BY <1>1 DEF Stacked, Stack
    <3>2. free \in Stack(n, s)
      BY <1>3 DEF Stack
    <3> QED  BY <1>6, <3>1, <3>2
  <2>4. ASSUME NEW i \in 1..(n - 1), NEW u \in User PROVE t[i] # Held(u)'
    BY <1>1, <1>3, <1>4, <1>5 DEF Stacked
  <2> QED  BY <1>4, <1>5, <2>1, <2>2, <2>3, <2>4 DEF Stacked, Stack
<1>8. OneStack'
  BY <1>4, <1>7 DEF OneStack
<1>9. Chain' = Stack(n - 1, t)
  BY <1>3, <1>4, <1>7, ChainIsStack
<1> QED  BY <1>2, <1>3, <1>6, <1>8, <1>9 DEF Stack

\* Facts about one state.
LEMMA OneHolder ==
  ASSUME FreeListInv, NEW u \in User, user[u].pc \notin {"idle", "own"}
  PROVE  lock = u /\ \A v \in User \ {u} : user[v].pc \in {"idle", "own"}
  BY DEF FreeListInv, FreeListTypeOK

LEMMA HeldOff ==
  ASSUME FreeListInv, NEW u \in User
  PROVE  /\ Held(u) \in (Node \cup {NULL}) \ Chain
         /\ user[u].pc \in {"memset", "own", "link", "push"}
              => Held(u) = user[u].lp /\ Held(u) \in Node
         /\ user[u].pc \in {"idle", "read", "pop"} => Held(u) = NULL
<1>0. PICK n \in 0..NrLp : \E s \in [1..n -> Node] : Stacked(n, s)
  BY DEF FreeListInv, OneStack
<1>1. PICK s \in [1..n -> Node] : Stacked(n, s)
  BY <1>0
<1>2. Chain = Stack(n, s)
  BY <1>1, ChainIsStack
<1>3. user[u].lp \in Node \cup {NULL} /\ NULL \notin Node
  BY FreeListAssumption DEF FreeListInv, FreeListTypeOK
<1>4. Held(u) \notin Chain
  BY <1>1, <1>2 DEF Stacked, Stack
<1> QED  BY <1>3, <1>4 DEF Held, FreeListInv, Accesses

\* Every context but one may have a record; one is left.
LEMMA OneLeft ==
  ASSUME FreeListInv, NEW u \in User, user[u].pc = "read"
  PROVE  free \in Node
<1>1. SUFFICES ASSUME free \notin Node PROVE FALSE
  OBVIOUS
<1>2. PICK n \in 0..NrLp : \E s \in [1..n -> Node] : Stacked(n, s)
  BY DEF FreeListInv, OneStack
<1>3. PICK s \in [1..n -> Node] : Stacked(n, s)
  BY <1>2
<1>4. n = 0
  BY <1>1, <1>3 DEF Stacked
<1>5. filled = NrLp
  BY FreeListAssumption DEF FreeListInv, FreeListTypeOK, Accesses
<1>6. Node = {Held(v) : v \in User} \ {NULL} /\ Held(u) = NULL
  BY <1>3, <1>4, <1>5 DEF Stacked, Node, Held
<1> DEFINE holder == [l \in Node |-> CHOOSE v \in User \ {u} : Held(v) = l]
<1>7. \A l \in Node : holder[l] \in User \ {u} /\ Held(holder[l]) = l
  <2>1. \A l \in Node : \E v \in User \ {u} : Held(v) = l
    BY <1>6
  <2> HIDE DEF Held
  <2> QED  BY <2>1
<1>8. holder \in [Node -> User \ {u}]
  BY <1>7
<1> HIDE DEF holder
<1>9. /\ IsFiniteSet(Node) /\ Cardinality(Node) = NrLp
      /\ IsFiniteSet(User \ {u}) /\ Cardinality(User \ {u}) = Cardinality(User) - 1
      /\ Cardinality(User) \in Nat
  BY FreeListAssumption, Interval, FS_RemoveElement, FS_CardinalityType DEF Node
<1>10. PICK l \in Node, k \in Node : l # k /\ holder[l] = holder[k]
  BY <1>8, <1>9, FreeListAssumption, FS_PigeonHole
<1> QED  BY <1>7, <1>10

-----------------------------------------------------------------------------
(* Steps on the list, and what they are to Pool.                             *)

Holding == [u \in User |-> Held(u)]

\* A step that leaves the list and what everyone has as they are.
LEMMA Quiet ==
  ASSUME FreeListTypeOK, OneStack, UNCHANGED <<filled, free>>,
         \A l \in Node : next'[l] = next[l] \/ \E u \in User : Held(u) = l,
         \A u \in User : Held(u)' = Held(u)
  PROVE  OneStack' /\ [Abstract!Next]_<<Chain, Holding>>
<1>1. OneStack' /\ Chain' = Chain
  BY SameList
<1>2. Holding' = Holding
  BY DEF Holding
<1> QED  BY <1>1, <1>2

LEMMA FillStep ==
  ASSUME FreeListInv, FillPool
  PROVE  FreeListInv' /\ [Abstract!Next]_<<Chain, Holding>>
<1> DEFINE l == filled + 1
<1>1. /\ filled \in Nat /\ NrLp \in Nat /\ l \in Node /\ filled' = l /\ free' = l
      /\ next' = [next EXCEPT ![l] = free] /\ UNCHANGED <<lock, user>>
      /\ l \in 0..NrLp /\ NULL \notin Node
  BY FreeListAssumption DEF FillPool, FreeListInv, FreeListTypeOK, Node
<1>2. \A u \in User : user[u].pc = "idle" /\ Held(u) = NULL /\ Held(u)' = NULL
  BY <1>1 DEF FillPool, FreeListInv, Accesses, Held
<1>3. l \notin Chain
  <2>1. PICK n \in 0..NrLp : \E s \in [1..n -> Node] : Stacked(n, s)
    BY DEF FreeListInv, OneStack
  <2>2. PICK s \in [1..n -> Node] : Stacked(n, s)
    BY <2>1
  <2>3. Chain \subseteq 1..filled
    BY <2>2, ChainIsStack DEF Stacked, Stack
  <2> QED  BY <1>1, <2>3
<1>4. next \in [Node -> Node \cup {Order, NULL}] /\ free \in Node \cup {NULL}
  BY DEF FreeListInv, FreeListTypeOK
<1>5. OneStack' /\ Chain' = Chain \cup {l}
  <2>1. FreeListTypeOK /\ OneStack
    BY DEF FreeListInv
  <2>2. next'[l] = free /\ \A k \in Chain : next'[k] = next[k]
    BY <1>1, <1>3, <1>4 DEF Chain
  <2>3. 1..filled' = 1..filled \cup {l}
    BY <1>1
  <2>4. /\ {Held(u)' : u \in User} \ {NULL} = ({Held(u) : u \in User} \ {NULL}) \ {l}
        /\ \A u \in User : Held(u)' \in {Held(u), NULL} /\ Held(u)' # l
    BY <1>1, <1>2
  <2> HIDE DEF l
  <2> QED  BY <1>1, <1>3, <2>1, <2>2, <2>3, <2>4, PushList
<1>6. FreeListTypeOK' /\ NeverNull' /\ Accesses'
  <2>1. FreeListTypeOK'
    BY <1>1, <1>4 DEF FreeListInv, FreeListTypeOK
  <2>2. Accesses'
    BY <1>1, <1>2 DEF FreeListInv, Accesses
  <2> QED  BY <1>1, <1>2, <2>1, <2>2 DEF NeverNull
<1>7. Abstract!Fill(l)
  BY <1>1, <1>2, <1>3, <1>5 DEF Abstract!Fill, Holding
<1> QED  BY <1>1, <1>5, <1>6, <1>7 DEF FreeListInv, Abstract!Next

LEMMA AllocStep ==
  ASSUME FreeListInv, NEW u \in User,
         AllocLock(u) \/ AllocRead(u) \/ AllocPop(u) \/ AllocMemset(u)
  PROVE  FreeListInv' /\ [Abstract!Next]_<<Chain, Holding>>
<1>0. FreeListTypeOK /\ OneStack /\ NeverNull /\ Accesses /\ NULL \notin Node \cup User
  BY FreeListAssumption DEF FreeListInv
<1>1. \A v \in User : user[v] = [pc |-> user[v].pc, lp |-> user[v].lp]
  BY <1>0 DEF FreeListTypeOK
<1>2. CASE AllocLock(u)
  <2>1. /\ filled = NrLp /\ user[u].pc = "idle" /\ lock = NULL /\ lock' = u
        /\ user' = [user EXCEPT ![u].pc = "read"] /\ UNCHANGED <<filled, free, next>>
    BY <1>2 DEF AllocLock, Acquire, Goto
  <2>2. FreeListTypeOK'
    BY <1>0, <2>1 DEF FreeListTypeOK
  <2>3. \A v \in User : Held(v)' = Held(v)
    BY <1>0, <2>1 DEF FreeListTypeOK, Accesses, Held
  <2>4. Accesses' /\ NeverNull'
    <3>1. \A v \in User : user[v].lp = user'[v].lp
                        /\ (v # u => user'[v] = user[v]) /\ user'[u].pc = "read"
      BY <1>0, <2>1 DEF FreeListTypeOK
    <3> HIDE DEF Held
    <3> QED  BY <1>0, <2>1, <2>3, <3>1, FreeListAssumption DEF Accesses, NeverNull
  <2> QED  BY <1>0, <2>1, <2>2, <2>3, <2>4, Quiet DEF FreeListInv
<1>3. CASE AllocRead(u)
  <2>1. /\ user[u].pc = "read" /\ user' = [user EXCEPT ![u] = [pc |-> "pop", lp |-> free]]
        /\ UNCHANGED <<filled, free, next, lock>>
    BY <1>3 DEF AllocRead
  <2>2. FreeListTypeOK'
    BY <1>0, <2>1 DEF FreeListTypeOK
  <2>3. \A v \in User : /\ v # u => user'[v] = user[v]
                       /\ user'[u] = [pc |-> "pop", lp |-> free]
    BY <1>0, <2>1 DEF FreeListTypeOK
  <2>4. \A v \in User : Held(v)' = Held(v)
    BY <2>1, <2>3 DEF Held
  <2>5. free # NULL
    BY <1>0, <2>1, OneLeft
  <2>6. Accesses' /\ NeverNull'
    <3> HIDE DEF Held
    <3> QED  BY <1>0, <2>1, <2>3, <2>4, <2>5 DEF Accesses, NeverNull
  <2> QED  BY <1>0, <2>1, <2>2, <2>4, <2>6, Quiet DEF FreeListInv
<1>4. CASE AllocPop(u)
  <2>1. /\ user[u].pc = "pop" /\ user[u].lp = free /\ free \in Node /\ free' = next[free]
        /\ user' = [user EXCEPT ![u].pc = "memset"]
        /\ UNCHANGED <<filled, next, lock>>
    BY <1>0, <1>4 DEF AllocPop, Goto, Accesses
  <2>2. \A v \in User : /\ v # u => user'[v] = user[v]
                       /\ user'[v].lp = user[v].lp /\ user'[u].pc = "memset"
    BY <1>0, <2>1 DEF FreeListTypeOK
  <2>3. /\ \A v \in User \ {u} : Held(v)' = Held(v)
        /\ Held(u)' = free /\ Held(u) = NULL
    BY <2>1, <2>2 DEF Held
  <2>4. OneStack' /\ free \in Chain /\ Chain' = Chain \ {free}
    <3>1. {Held(v)' : v \in User} \ {NULL} = ({Held(v) : v \in User} \ {NULL}) \cup {free}
      <4> HIDE DEF Held
      <4> QED  BY <1>0, <2>1, <2>3
    <3>2. \A v \in User : Held(v)' \in {Held(v), free}
      BY <2>3
    <3> QED  BY <1>0, <2>1, <3>1, <3>2, PopList
  <2>5. next[free] \in Node \cup {NULL}
    <3>1. PICK n \in 0..NrLp : \E s \in [1..n -> Node] : Stacked(n, s)'
      BY <2>4 DEF OneStack
    <3>2. PICK s \in [1..n -> Node] : Stacked(n, s)'
      BY <3>1
    <3> QED  BY <2>1, <3>2 DEF Stacked
  <2>6. FreeListTypeOK'
    BY <1>0, <2>1, <2>5 DEF FreeListTypeOK
  <2>7. \A v \in User \ {u} : user[v].pc \in {"idle", "own"} /\ Held(v) # free
    BY <2>1, <2>4, OneHolder, HeldOff
  <2>8. Accesses' /\ NeverNull'
    <3> HIDE DEF Held
    <3> QED  BY <1>0, <2>1, <2>2, <2>3, <2>7 DEF Accesses, NeverNull
  <2>9. Abstract!Take(u)
    <3> HIDE DEF Held
    <3>1. Holding' = [Holding EXCEPT ![u] = free] /\ Holding[u] = NULL
      BY <2>3 DEF Holding
    <3> QED  BY <2>4, <3>1 DEF Abstract!Take, Holding
  <2> QED  BY <2>4, <2>6, <2>8, <2>9 DEF FreeListInv, Abstract!Next
<1>5. CASE AllocMemset(u)
  <2>1. /\ user[u].pc = "memset" /\ lock' = NULL /\ user' = [user EXCEPT ![u].pc = "own"]
        /\ next' = [next EXCEPT ![user[u].lp] = NULL] /\ UNCHANGED <<filled, free>>
    BY <1>5 DEF AllocMemset, Goto
  <2>2. \A v \in User : /\ v # u => user'[v] = user[v]
                       /\ user'[v].lp = user[v].lp /\ user'[u].pc = "own"
    BY <1>0, <2>1 DEF FreeListTypeOK
  <2>3. \A v \in User : Held(v)' = Held(v)
    BY <2>1, <2>2 DEF Held
  <2>4. \A v \in User \ {u} : user[v].pc \in {"idle", "own"}
    BY <2>1, OneHolder
  <2>5. FreeListTypeOK'
    BY <1>0, <2>1, <2>2, <2>4 DEF FreeListTypeOK
  <2>6. Accesses' /\ NeverNull'
    <3> HIDE DEF Held
    <3> QED  BY <1>0, <2>1, <2>2, <2>3, <2>4 DEF Accesses, NeverNull
  <2>7. \A l \in Node : next'[l] = next[l] \/ \E v \in User : Held(v) = l
    BY <1>0, <2>1, HeldOff DEF FreeListTypeOK
  <2> QED  BY <1>0, <2>1, <2>3, <2>5, <2>6, <2>7, Quiet DEF FreeListInv
<1> QED  BY <1>2, <1>3, <1>4, <1>5

LEMMA FreeStep ==
  ASSUME FreeListInv, NEW u \in User,
         WriteOrder(u) \/ FreeLock(u) \/ FreeLink(u) \/ FreePush(u)
  PROVE  FreeListInv' /\ [Abstract!Next]_<<Chain, Holding>>
<1>0. FreeListTypeOK /\ OneStack /\ NeverNull /\ Accesses /\ NULL \notin Node \cup User
  BY FreeListAssumption DEF FreeListInv
<1>1. \A v \in User : user[v] = [pc |-> user[v].pc, lp |-> user[v].lp]
  BY <1>0 DEF FreeListTypeOK
<1>2. CASE WriteOrder(u)
  <2>1. /\ user[u].pc = "own" /\ next' = [next EXCEPT ![user[u].lp] = Order]
        /\ UNCHANGED <<filled, free, lock, user>>
    BY <1>2 DEF WriteOrder
  <2>2. \A v \in User : Held(v)' = Held(v)
    BY <2>1 DEF Held
  <2>3. FreeListTypeOK'
    BY <1>0, <2>1 DEF FreeListTypeOK
  <2>4. \A v \in User : user[v].pc = "push" => user[v].lp # user[u].lp
    BY <1>0, <2>1 DEF Accesses, Held
  <2>5. Accesses' /\ NeverNull'
    <3>1. \A v \in User : user[v].pc = "push" => next'[user[v].lp] = next[user[v].lp]
      BY <1>0, <2>1, <2>4, HeldOff DEF FreeListTypeOK
    <3> HIDE DEF Held
    <3> QED  BY <1>0, <2>1, <2>2, <3>1 DEF Accesses, NeverNull
  <2>6. \A l \in Node : next'[l] = next[l] \/ \E v \in User : Held(v) = l
    BY <1>0, <2>1, HeldOff DEF FreeListTypeOK
  <2> QED  BY <1>0, <2>1, <2>2, <2>3, <2>5, <2>6, Quiet DEF FreeListInv
<1>3. CASE FreeLock(u)
  <2>1. /\ user[u].pc = "own" /\ lock = NULL /\ lock' = u
        /\ user' = [user EXCEPT ![u].pc = "link"] /\ UNCHANGED <<filled, free, next>>
    BY <1>3 DEF FreeLock, Acquire, Goto
  <2>2. \A v \in User : /\ v # u => user'[v] = user[v]
                       /\ user'[v].lp = user[v].lp /\ user'[u].pc = "link"
    BY <1>0, <2>1 DEF FreeListTypeOK
  <2>3. \A v \in User : Held(v)' = Held(v)
    BY <2>1, <2>2 DEF Held
  <2>4. FreeListTypeOK'
    BY <1>0, <2>1 DEF FreeListTypeOK
  <2>5. Accesses' /\ NeverNull'
    <3> HIDE DEF Held
    <3> QED  BY <1>0, <2>1, <2>2, <2>3 DEF Accesses, NeverNull
  <2> QED  BY <1>0, <2>1, <2>3, <2>4, <2>5, Quiet DEF FreeListInv
<1>4. CASE FreeLink(u)
  <2>1. /\ user[u].pc = "link" /\ next' = [next EXCEPT ![user[u].lp] = free]
        /\ user' = [user EXCEPT ![u].pc = "push"] /\ UNCHANGED <<filled, free, lock>>
    BY <1>4 DEF FreeLink, Goto
  <2>2. \A v \in User : /\ v # u => user'[v] = user[v]
                       /\ user'[v].lp = user[v].lp /\ user'[u].pc = "push"
    BY <1>0, <2>1 DEF FreeListTypeOK
  <2>3. \A v \in User : Held(v)' = Held(v)
    BY <2>1, <2>2 DEF Held
  <2>4. lock = u /\ \A v \in User \ {u} : user[v].pc \in {"idle", "own"}
    BY <2>1, OneHolder
  <2>5. user[u].lp \in Node /\ Held(u) = user[u].lp
    BY <2>1, HeldOff
  <2>6. FreeListTypeOK'
    BY <1>0, <2>1, <2>2, <2>4 DEF FreeListTypeOK
  <2>7. Accesses' /\ NeverNull'
    <3>1. next'[user[u].lp] = free
      BY <1>0, <2>1, <2>5 DEF FreeListTypeOK
    <3> HIDE DEF Held
    <3> QED  BY <1>0, <2>1, <2>2, <2>3, <2>4, <3>1 DEF Accesses, NeverNull
  <2>8. \A l \in Node : next'[l] = next[l] \/ \E v \in User : Held(v) = l
    BY <1>0, <2>1, <2>5 DEF FreeListTypeOK
  <2> QED  BY <1>0, <2>1, <2>3, <2>6, <2>7, <2>8, Quiet DEF FreeListInv
<1>5. CASE FreePush(u)
  <2>1. /\ user[u].pc = "push" /\ free' = user[u].lp /\ lock' = NULL
        /\ user' = [user EXCEPT ![u] = Idle] /\ UNCHANGED <<filled, next>>
    BY <1>5 DEF FreePush
  <2>2. \A v \in User : (v # u => user'[v] = user[v]) /\ user'[u] = Idle
    BY <1>0, <2>1 DEF FreeListTypeOK
  <2>3. lock = u /\ \A v \in User \ {u} : user[v].pc \in {"idle", "own"}
    BY <2>1, OneHolder
  <2> DEFINE l == user[u].lp
  <2>4. l \in Node /\ Held(u) = l /\ l \notin Chain /\ next[l] = free
    BY <1>0, <2>1, HeldOff DEF Accesses
  <2>5. Held(u)' = NULL /\ \A v \in User \ {u} : Held(v)' = Held(v) /\ Held(v) # l
    <3>1. Held(u)' = NULL /\ \A v \in User \ {u} : Held(v)' = Held(v)
      BY <2>2 DEF Held, Idle
    <3> QED  BY <1>0, <2>4, <3>1 DEF Accesses
  <2>6. l \in 1..filled
    <3>1. PICK n \in 0..NrLp : \E s \in [1..n -> Node] : Stacked(n, s)
      BY <1>0 DEF OneStack
    <3>2. PICK s \in [1..n -> Node] : Stacked(n, s)
      BY <3>1
    <3> HIDE DEF Held, l
    <3> QED  BY <1>0, <2>4, <3>2 DEF Stacked
  <2>7. OneStack' /\ Chain' = Chain \cup {l}
    <3>1. 1..filled' = 1..filled \cup {l} /\ filled' \in 0..NrLp
      BY <1>0, <2>1, <2>6 DEF FreeListTypeOK
    <3>2. /\ {Held(v)' : v \in User} \ {NULL} = ({Held(v) : v \in User} \ {NULL}) \ {l}
          /\ \A v \in User : Held(v)' \in {Held(v), NULL} /\ Held(v)' # l
      <4> HIDE DEF Held, l
      <4> QED  BY <1>0, <2>4, <2>5
    <3>3. free' = l /\ next'[l] = free /\ \A k \in Chain : next'[k] = next[k]
      BY <2>1, <2>4
    <3> HIDE DEF l
    <3> QED  BY <1>0, <2>4, <3>1, <3>2, <3>3, PushList
  <2>8. FreeListTypeOK'
    BY <1>0, <2>1, <2>2, <2>3, <2>4 DEF FreeListTypeOK, Idle
  <2>9. Accesses' /\ NeverNull'
    <3>1. user'[u].pc = "idle" /\ user'[u].lp = NULL
      BY <2>2 DEF Idle
    <3> HIDE DEF Held, l
    <3> QED  BY <1>0, <2>1, <2>2, <2>3, <2>5, <3>1 DEF Accesses, NeverNull
  <2>10. Abstract!Give(u)
    <3> HIDE DEF Held, l
    <3>1. Holding' = [Holding EXCEPT ![u] = NULL] /\ Holding[u] = l
      BY <2>4, <2>5 DEF Holding
    <3> QED  BY <1>0, <2>4, <2>7, <3>1 DEF Abstract!Give, Holding
  <2> QED  BY <2>7, <2>8, <2>9, <2>10 DEF FreeListInv, Abstract!Next
<1> QED  BY <1>2, <1>3, <1>4, <1>5

LEMMA ListStep ==
  ASSUME FreeListInv, [ListNext]_listVars
  PROVE  FreeListInv' /\ [Abstract!Next]_<<Chain, Holding>>
<1>1. CASE UNCHANGED listVars
  <2>1. UNCHANGED <<Chain, Holding>>
    BY <1>1 DEF listVars, Chain, Holding, Held
  <2>2. FreeListInv'
    BY <1>1 DEF listVars, FreeListInv, FreeListTypeOK, NeverNull, OneStack, Stacked, Accesses, Held
  <2> QED  BY <2>1, <2>2
<1>2. CASE FillPool
  BY <1>2, FillStep
<1>3. ASSUME NEW u \in User, UserStep(u)
      PROVE  FreeListInv' /\ [Abstract!Next]_<<Chain, Holding>>
  BY <1>3, AllocStep, FreeStep DEF UserStep
<1> QED  BY <1>1, <1>2, <1>3 DEF ListNext

LEMMA ListStart ==
  ASSUME ListInit
  PROVE  FreeListInv /\ Chain = {} /\ Holding = [u \in User |-> NULL]
<1>1. /\ filled = 0 /\ free = NULL /\ lock = NULL /\ next \in [Node -> {Order, NULL}]
      /\ NULL \notin Node \cup User /\ NrLp \in Nat
      /\ \A u \in User : user[u] = Idle /\ Held(u) = NULL
  BY FreeListAssumption DEF ListInit, Held, Idle
<1>2. FreeListTypeOK /\ NeverNull /\ Accesses
  BY <1>1 DEF ListInit, FreeListTypeOK, NeverNull, Accesses, Idle
<1> HIDE DEF Held
<1>3. PICK none \in [1..0 -> Node] : Stacked(0, none)
  <2>1. [i \in 1..0 |-> i] \in [1..0 -> Node]
    OBVIOUS
  <2>2. \A s : Stacked(0, s)
    BY <1>1 DEF Stacked
  <2> QED  BY <2>1, <2>2
<1>4. OneStack
  <2>1. 0 \in 0..NrLp
    BY <1>1
  <2> QED  BY <1>3, <2>1 DEF OneStack
<1>5. Chain = {}
  <2>1. Chain = Stack(0, none)
    BY <1>3, ChainIsStack
  <2> QED  BY <2>1 DEF Stack
<1>6. Holding = [u \in User |-> NULL]
  BY <1>1 DEF Holding
<1> QED  BY <1>2, <1>4, <1>5, <1>6 DEF FreeListInv

\* The free records are linked once each, down to the NULL, and every other record
\* is with one context; alloc_lp never finds the list empty.
THEOREM FreeListInvCorrect == ListSpec => []FreeListInv
  BY ListStart, ListStep, PTL DEF ListSpec

\* The linked list of lp_pool implements the set that LogPage takes it for: no record
\* is lost, or given to two contexts, whatever the shared field of one in use holds.
THEOREM PoolImplemented == ListSpec => PoolSpec
<1>1. ListInit => Abstract!Init
  BY ListStart DEF Abstract!Init, Holding
<1>2. FreeListInv /\ [ListNext]_listVars => [Abstract!Next]_<<Chain, [u \in User |-> Held(u)]>>
  BY ListStep DEF Holding
<1> QED  BY <1>1, <1>2, FreeListInvCorrect, PTL DEF ListSpec, PoolSpec, Abstract!Spec

-----------------------------------------------------------------------------
(* The listing of /proc/rmap: what the handlers are called with.             *)

\* A position that an int can hold is compared as it is, and a larger one is no
\* better than the first ones only after it has wrapped.
LEMMA IntPosition ==
  ASSUME NEW pos \in Nat
  PROVE  /\ pos < IntLimit => (handler_seq_start(pos) <=> pos <= totalram_pages)
         /\ pos < 2 * IntLimit /\ handler_seq_start(pos) => pos <= totalram_pages
<1>1. IntLimit \in Nat \ {0} /\ totalram_pages \in Nat
  BY RmapSeqAssumption
<1>2. pos < 2 * IntLimit => pos % (2 * IntLimit) = pos
  BY <1>1
<1>3. pos < IntLimit => pos < 2 * IntLimit
  BY <1>1
<1> QED  BY <1>1, <1>2, <1>3 DEF handler_seq_start, AsInt

\* The position after one that is listed.
LEMMA NextPosition ==
  ASSUME NEW pos \in Nat
  PROVE  /\ handler_seq_next(pos).pos = pos + 1
         /\ handler_seq_next(pos).more <=> pos + 1 <= totalram_pages
         /\ pos <= totalram_pages => NotPast(pos + 1)
         /\ NotPast(pos) /\ handler_seq_start(pos) => NotPast(pos + 1)
<1>1. IntLimit \in Nat \ {0} /\ totalram_pages \in Nat
  BY RmapSeqAssumption
<1>2. pos <= totalram_pages => NotPast(pos + 1)
  BY <1>1 DEF NotPast
<1>3. ASSUME NotPast(pos), handler_seq_start(pos) PROVE NotPast(pos + 1)
  <2>1. NoWrap => pos < 2 * IntLimit
    BY <1>1, <1>3 DEF NotPast, NoWrap
  <2>2. NoWrap => pos <= totalram_pages
    BY <1>3, <2>1, IntPosition
  <2> QED  BY <1>1, <2>2 DEF NotPast
<1> QED  BY <1>2, <1>3 DEF handler_seq_next

\* The record of a frame, if it has one.
LEMMA ShowText ==
  ASSUME NEW pfn \in Nat, NEW page \in PageInfo
  PROVE  /\ handler_seq_show(pfn, page) \in Seq(Part)
         /\ handler_seq_show(pfn, page) = <<>> <=> pfn \notin Valid
         /\ \A i \in 1..Len(handler_seq_show(pfn, page)) :
              handler_seq_show(pfn, page)[i] = <<pfn, i, Len(handler_seq_show(pfn, page))>>
<1>1. CASE pfn \notin Valid
  BY <1>1 DEF handler_seq_show
<1>2. CASE pfn \in Valid
  <2> DEFINE k == IF page.mapping = "none" \/ (page.mapping = "anon" /\ ~page.anon_vma)
                  THEN 0 ELSE page.owners
  <2>0. k \in Nat /\ handler_seq_show(pfn, page) = [i \in 1..(k + 1) |-> <<pfn, i, k + 1>>]
    BY <1>2, RmapSeqAssumption DEF handler_seq_show, PageInfo
  <2> HIDE DEF k
  <2>1. PICK n \in Nat : handler_seq_show(pfn, page) = [i \in 1..(n + 1) |-> <<pfn, i, n + 1>>]
    BY <2>0
  <2> DEFINE t == [i \in 1..(n + 1) |-> <<pfn, i, n + 1>>]
  <2>2. t \in [1..(n + 1) -> Part]
    BY <1>2 DEF Part
  <2>3. t \in Seq(Part) /\ Len(t) = n + 1 /\ t # <<>>
    BY <2>2
  <2> QED  BY <1>2, <2>1, <2>3
<1> QED  BY <1>1, <1>2

\* A record more.
LEMMA ListsOneMore ==
  ASSUME NEW text \in Seq(Part), NEW pfn \in Nat, Lists(text, pfn), NotPast(pfn + 1),
         NEW page \in PageInfo
  PROVE  /\ text \o handler_seq_show(pfn, page) \in Seq(Part)
         /\ Lists(text \o handler_seq_show(pfn, page), pfn + 1)
<1> DEFINE t == handler_seq_show(pfn, page)
           all == text \o t
<1>0. Valid \subseteq Nat /\ pfn \in Nat
  BY RmapSeqAssumption
<1>1. /\ t \in Seq(Part) /\ (t = <<>> <=> pfn \notin Valid)
      /\ \A i \in 1..Len(t) : t[i] = <<pfn, i, Len(t)>>
  BY ShowText
<1> HIDE DEF t
<1>2. /\ all \in Seq(Part) /\ Len(all) = Len(text) + Len(t)
      /\ \A i \in 1..Len(text) + Len(t) :
           all[i] = IF i <= Len(text) THEN text[i] ELSE t[i - Len(text)]
  BY <1>1, ConcatProperties
<1>3. CASE pfn \notin Valid
  <2>1. all = text
    BY <1>1, <1>3, ConcatEmptySeq
  <2>2. \A f \in Valid : f < pfn + 1 => f < pfn
    BY <1>0, <1>3
  <2>3. \A i \in 1..Len(text) : text[i] \in Part
    OBVIOUS
  <2>4. \A i \in 1..Len(text) : text[i][1] \in Nat
    BY <1>0, <2>3 DEF Part
  <2>5. \A i \in 1..Len(text) : text[i][1] < pfn + 1
    BY <1>0, <2>4 DEF Lists
  <2>6. Lists(text, pfn + 1)
    BY <2>2, <2>5 DEF Lists
  <2> QED  BY <1>2, <2>1, <2>6 DEF t
<1>4. CASE pfn \in Valid
  <2> HIDE DEF all
  <2> DEFINE K == Len(text)
             N == Len(t)
  <2>1. K \in Nat /\ N \in Nat \ {0} /\ Len(all) = K + N /\ all # <<>>
    BY <1>1, <1>2, <1>4
  <2>2. /\ \A i \in 1..K : all[i] = text[i] /\ text[i] \in Part
        /\ \A i \in 1..N : all[K + i] = <<pfn, i, N>>
    <3>1. ASSUME NEW i \in 1..K PROVE all[i] = text[i] /\ text[i] \in Part
      <4>1. i \in 1..Len(text) + Len(t) /\ i <= Len(text)
        BY <2>1
      <4> QED  BY <1>2, <4>1
    <3>2. ASSUME NEW i \in 1..N PROVE all[K + i] = <<pfn, i, N>>
      <4>1. K + i \in 1..Len(text) + Len(t) /\ ~(K + i <= Len(text)) /\ K + i - Len(text) = i
        BY <2>1
      <4>2. all[K + i] = t[i]
        BY <1>2, <4>1
      <4> QED  BY <1>1, <4>2
    <3> QED  BY <3>1, <3>2
  <2> HIDE DEF K, N
  <2>3. ASSUME NEW i \in 1..(K + N - 1) PROVE Follows(all[i], all[i + 1])
    <3>1. CASE i < K
      <4>1. i \in 1..(K - 1) /\ all[i] = text[i] /\ all[i + 1] = text[i + 1]
        BY <2>1, <2>2, <3>1
      <4> QED  BY <4>1 DEF Lists, K
    <3>2. CASE i = K
      <4>1. K \in 1..K /\ all[i] = text[K] /\ all[i + 1] = <<pfn, 1, N>> /\ text # <<>>
        BY <2>1, <2>2, <3>2 DEF K
      <4>2. /\ text[K][2] = text[K][3] /\ text[K][1] < pfn /\ text[K] \in Part
            /\ \A f \in Valid : f < pfn => f <= text[K][1]
        BY <2>2, <4>1 DEF Lists, K
      <4>3. text[K][3] \in Nat /\ text[K][1] \in Nat
        BY <1>0, <4>2 DEF Part
      <4>4. \A f \in Valid : f <= text[K][1] \/ pfn <= f
        BY <1>0, <4>2, <4>3
      <4> QED  BY <4>1, <4>2, <4>3, <4>4 DEF Follows
    <3>3. CASE i > K
      <4>1. i - K \in 1..(N - 1) /\ i - K + 1 \in 1..N /\ K + (i - K) = i /\ K + (i - K + 1) = i + 1
        BY <2>1, <3>3
      <4>2. all[K + (i - K)] = <<pfn, i - K, N>> /\ all[K + (i - K + 1)] = <<pfn, i - K + 1, N>>
        <5>1. i - K \in 1..N
          BY <2>1, <4>1
        <5> QED  BY <2>2, <4>1, <5>1
      <4>3. all[i] = <<pfn, i - K, N>> /\ all[i + 1] = <<pfn, i - K + 1, N>>
        BY <4>1, <4>2
      <4> QED  BY <2>1, <4>1, <4>3 DEF Follows
    <3> QED  BY <2>1, <3>1, <3>2, <3>3
  <2>4. all[1][2] = 1 /\ \A f \in Valid : all[1][1] <= f
    <3>1. CASE K = 0
      <4>1. all[1] = <<pfn, 1, N>> /\ text = <<>>
        BY <2>1, <2>2, <3>1 DEF K
      <4>2. \A f \in Valid : pfn <= f
        <5>1. \A f \in Valid : ~(f < pfn)
          BY <4>1 DEF Lists
        <5> QED  BY <1>0, <5>1
      <4> QED  BY <4>1, <4>2
    <3>2. CASE K # 0
      <4>1. all[1] = text[1] /\ text # <<>>
        BY <2>1, <2>2, <3>2 DEF K
      <4> QED  BY <4>1 DEF Lists
    <3> QED  BY <3>1, <3>2
  <2>5. all[K + N] = <<pfn, N, N>>
    BY <2>1, <2>2
  <2>6. \A f \in Valid : f < pfn + 1 => f <= pfn
    BY <1>0
  <2>7. Lists(all, pfn + 1)
    <3>1. Len(all) = K + N /\ all[Len(all)] = <<pfn, N, N>>
      BY <2>1, <2>5
    <3>2. ASSUME NEW i \in 1..(Len(all) - 1) PROVE Follows(all[i], all[i + 1])
      <4>1. i \in 1..(K + N - 1)
        BY <2>1
      <4> QED  BY <2>3, <4>1
    <3>3. all[Len(all)][2] = all[Len(all)][3]
      BY <3>1
    <3>4. \A f \in Valid : f < pfn + 1 => all # <<>> /\ f <= all[Len(all)][1]
      BY <2>1, <2>6, <3>1
    <3>5. ASSUME NEW i \in 1..Len(all) PROVE all[i][1] < pfn + 1
      <4>1. CASE i <= K
        <5>1. i \in 1..Len(text) /\ all[i] = text[i] /\ text[i] \in Part
          BY <2>1, <2>2, <4>1 DEF K
        <5>2. text[i][1] < pfn /\ text[i][1] \in Nat
          BY <1>0, <5>1 DEF Lists, Part
        <5> QED  BY <1>0, <5>1, <5>2
      <4>2. CASE i > K
        <5>1. i - K \in 1..N /\ K + (i - K) = i
          BY <2>1, <4>2
        <5>2. all[i] = <<pfn, i - K, N>>
          BY <2>2, <5>1
        <5> QED  BY <1>0, <5>2
      <4> QED  BY <2>1, <4>1, <4>2
    <3> QED  BY <2>4, <3>2, <3>3, <3>4, <3>5 DEF Lists
  <2> QED  BY <1>2, <2>7 DEF all, t
<1> QED  BY <1>3, <1>4

LEMMA Associative ==
  ASSUME NEW S, NEW s \in Seq(S), NEW t \in Seq(S), NEW u \in Seq(S)
  PROVE  (s \o t) \o u = s \o (t \o u)
  BY ConcatAssociative

\* What is copied to the reader and what is kept.
LEMMA CopyKeeps ==
  ASSUME NEW text \in Seq(Part), NEW buf \in Seq(Part), NEW n \in Nat
  PROVE  /\ text \o Upto(buf, n) \in Seq(Part)
         /\ SubSeq(buf, n + 1, Len(buf)) \in Seq(Part)
         /\ (text \o Upto(buf, n)) \o SubSeq(buf, n + 1, Len(buf)) = text \o buf
         /\ SubSeq(buf, n + 1, Len(buf)) = <<>> <=> Len(buf) <= n
<1> DEFINE first == Upto(buf, n)
           rest == SubSeq(buf, n + 1, Len(buf))
<1>1. /\ first \in Seq(Part) /\ rest \in Seq(Part) /\ first \o rest = buf
      /\ rest = <<>> <=> Len(buf) <= n
  <2>1. CASE n < Len(buf)
    <3>1. /\ n + 1 \in Int /\ Len(buf) \in Nat /\ n + 1 <= Len(buf)
          /\ 1 \in 1..(Len(buf) + 1) /\ n \in 0..Len(buf) /\ n \in (1 - 1)..Len(buf)
          /\ Len(buf) \in n..Len(buf)
      BY <2>1
    <3>2. first = SubSeq(buf, 1, n)
      BY <2>1 DEF Upto
    <3>3. \A i \in 1..Len(buf) : buf[i] \in Part
      OBVIOUS
    <3>4. first \in Seq(Part)
      <4>1. \A i \in 1..n : buf[i] \in Part
        BY <3>1, <3>3
      <4> QED  BY <3>2, <4>1, SubSeqProperties
    <3>5. rest \in Seq(Part) /\ Len(rest) = Len(buf) - n
      <4>1. \A i \in (n + 1)..Len(buf) : buf[i] \in Part
        BY <3>1, <3>3
      <4>2. Len(rest) = IF n + 1 <= Len(buf) THEN Len(buf) - (n + 1) + 1 ELSE 0
        BY <3>1, <4>1, SubSeqProperties
      <4>3. rest \in Seq(Part)
        BY <3>1, <4>1, SubSeqProperties
      <4> HIDE DEF rest
      <4> QED  BY <3>1, <4>2, <4>3
    <3>6. first \o rest = SubSeq(buf, 1, Len(buf))
      BY <3>1, <3>2, ConcatAdjacentSubSeq
    <3>7. SubSeq(buf, 1, Len(buf)) = buf
      BY SubSeqFull
    <3> HIDE DEF first, rest
    <3>8. rest # <<>>
      BY <2>1, <3>5
    <3> QED  BY <2>1, <3>1, <3>4, <3>5, <3>6, <3>7, <3>8
  <2>2. CASE ~(n < Len(buf))
    <3>1. first = buf /\ Len(buf) <= n
      BY <2>2 DEF Upto
    <3>2. rest = <<>>
      BY <3>1, SubSeqEmpty
    <3> HIDE DEF first, rest
    <3> QED  BY <3>1, <3>2, ConcatEmptySeq
  <2> QED  BY <2>1, <2>2
<1> HIDE DEF first, rest
<1>2. text \o first \in Seq(Part)
  BY <1>1
<1>3. (text \o first) \o rest = text \o (first \o rest)
  <2>1. first \in Seq(Part) /\ rest \in Seq(Part)
    BY <1>1
  <2> QED  BY <2>1, Associative
<1> QED  BY <1>1, <1>2, <1>3 DEF first, rest

-----------------------------------------------------------------------------
(* The listing under seq_read.                                               *)

\* A part of a listing, from its beginning on, is well formed.
LEMMA ListsFirst ==
  ASSUME NEW text \in Seq(Part), NEW rest \in Seq(Part), NEW pfn \in Nat,
         Lists(text \o rest, pfn)
  PROVE  /\ \A i \in 1..(Len(text) - 1) : Follows(text[i], text[i + 1])
         /\ text # <<>> => text[1][2] = 1 /\ \A f \in Valid : text[1][1] <= f
         /\ NoWrap => \A i \in 1..Len(text) : text[i][1] <= totalram_pages
<1> DEFINE all == text \o rest
<1>1. /\ all \in Seq(Part) /\ Len(all) = Len(text) + Len(rest)
      /\ \A i \in 1..Len(text) + Len(rest) :
           all[i] = IF i <= Len(text) THEN text[i] ELSE rest[i - Len(text)]
  BY ConcatProperties
<1> HIDE DEF all
<1>2. Len(text) \in Nat /\ Len(rest) \in Nat
  OBVIOUS
<1>3. Lists(all, pfn)
  BY DEF all
<1>4. ASSUME NEW i \in 1..(Len(text) - 1) PROVE Follows(text[i], text[i + 1])
  <2>1. i \in 1..(Len(all) - 1) /\ all[i] = text[i] /\ all[i + 1] = text[i + 1]
    BY <1>1, <1>2
  <2> QED  BY <1>3, <2>1 DEF Lists
<1>5. ASSUME text # <<>> PROVE text[1][2] = 1 /\ \A f \in Valid : text[1][1] <= f
  <2>1. all # <<>> /\ all[1] = text[1]
    BY <1>1, <1>2, <1>5
  <2> QED  BY <1>3, <2>1 DEF Lists
<1>6. ASSUME NoWrap, NEW i \in 1..Len(text) PROVE text[i][1] <= totalram_pages
  <2>1. i \in 1..Len(all) /\ all[i] = text[i] /\ text[i] \in Part
    BY <1>1, <1>2
  <2>2. all[i][1] < pfn /\ pfn <= totalram_pages + 1
    BY <1>3, <1>6, <2>1 DEF Lists, NotPast
  <2>3. text[i][1] \in Nat /\ totalram_pages \in Nat
    BY <2>1, RmapSeqAssumption DEF Part
  <2> QED  BY <2>1, <2>2, <2>3
<1> QED  BY <1>4, <1>5, <1>6

\* What the reader has is well formed, and whole at the end.
LEMMA ProgressGives == RmapSeqTypeOK /\ Progress => EachFrameOnce
<1>1. SUFFICES ASSUME RmapSeqTypeOK, Progress PROVE EachFrameOnce
  OBVIOUS
<1>2. /\ out \in Seq(Part) /\ m.buf \in Seq(Part) /\ <<>> \in Seq(Part)
      /\ m.index \in Nat /\ call.pos \in Nat /\ totalram_pages \in Nat
      /\ call.pc \in {"idle", "start", "show", "fill", "eof"}
  BY <1>1, RmapSeqAssumption DEF RmapSeqTypeOK
<1>3. PICK pfn \in Nat : \E rest \in Seq(Part) : Lists(out \o rest, pfn)
  <2>1. out \o <<>> = out
    BY <1>2, ConcatEmptySeq
  <2>2. \E pfn \in Nat : Lists(out, pfn) \/ Lists(out \o m.buf, pfn)
    <3>1. m.index + 1 \in Nat /\ call.pos + 1 \in Nat /\ totalram_pages + 1 \in Nat
      BY <1>2
    <3> QED  BY <1>1, <1>2, <3>1 DEF Progress
  <2> QED  BY <1>2, <2>1, <2>2
<1>4. PICK rest \in Seq(Part) : Lists(out \o rest, pfn)
  BY <1>3
<1>5. /\ \A i \in 1..(Len(out) - 1) : Follows(out[i], out[i + 1])
      /\ out # <<>> => out[1][2] = 1 /\ \A f \in Valid : out[1][1] <= f
      /\ NoWrap => \A i \in 1..Len(out) : out[i][1] <= totalram_pages
  BY <1>2, <1>4, ListsFirst
<1>6. ASSUME call.pc = "eof"
      PROVE  /\ out # <<>> => out[Len(out)][2] = out[Len(out)][3]
             /\ \A f \in Valid : f <= totalram_pages /\ f < IntLimit =>
                  out # <<>> /\ f <= out[Len(out)][1]
  <2>1. Lists(out, m.index) /\ (m.index > totalram_pages \/ m.index >= IntLimit)
    BY <1>1, <1>6 DEF Progress
  <2>2. \A f \in Valid : f <= totalram_pages /\ f < IntLimit => f < m.index
    BY <1>2, <2>1, RmapSeqAssumption
  <2> QED  BY <2>1, <2>2 DEF Lists
<1> QED  BY <1>5, <1>6 DEF EachFrameOnce

LEMMA SeqReadStep ==
  ASSUME RmapSeqTypeOK, Progress, NEW size \in 1..MaxSize, Read(size)
  PROVE  RmapSeqTypeOK' /\ Progress'
<1> DEFINE buf == m.buf
           kept == SubSeq(m.buf, size + 1, Len(m.buf))
           got == out \o Upto(m.buf, size)
<1>1. /\ m = [index |-> m.index, size |-> m.size, buf |-> buf] /\ buf \in Seq(Part)
      /\ m.index \in Nat /\ m.size \in Nat /\ out \in Seq(Part)
      /\ totalram_pages \in Nat /\ size \in Nat \ {0} /\ Len(buf) \in Nat /\ MaxSize \in Nat
      /\ call.pc = "idle"
  BY RmapSeqAssumption DEF RmapSeqTypeOK, Read
<1>2. /\ got \in Seq(Part) /\ kept \in Seq(Part) /\ got \o kept = out \o buf
      /\ kept = <<>> <=> Len(buf) <= size
  BY <1>1, CopyKeeps
<1>3. /\ out' = got /\ m'.buf = kept /\ m'.size = m.size
      /\ m'.index = (IF buf # <<>> /\ Len(buf) - size <= 0 THEN m.index + 1 ELSE m.index)
      /\ m' = [index |-> m'.index, size |-> m'.size, buf |-> m'.buf]
      /\ call' = [pc |-> IF Len(buf) - size >= 0 THEN "idle" ELSE "start",
                  want |-> IF Len(buf) - size >= 0 THEN 0 ELSE -(Len(buf) - size),
                  pos |-> m'.index, copied |-> buf # <<>>]
  BY <1>1 DEF Read
<1>4. buf # <<>> => Lists(out \o buf, m.index + 1) /\ Len(buf) > 0
  BY <1>1 DEF Progress
<1>5. buf = <<>> => Lists(out, m.index) /\ Len(buf) = 0 /\ out \o buf = out
  BY <1>1, ConcatEmptySeq DEF Progress
<1> HIDE DEF buf, kept, got
<1>6. RmapSeqTypeOK'
  <2>1. m'.index \in Nat
    BY <1>1, <1>3, <1>4
  <2>2. call'.want \in 0..MaxSize
    BY <1>1, <1>3
  <2> QED  BY <1>1, <1>2, <1>3, <2>1, <2>2 DEF RmapSeqTypeOK
<1>7. Progress'
  <2>1. kept = <<>> => got \o kept = got
    BY <1>2, ConcatEmptySeq
  <2>0. ASSUME kept = <<>> PROVE Lists(got, m'.index)
    <3>1. got = out \o buf /\ Len(buf) - size <= 0
      BY <1>1, <1>2, <2>0, <2>1
    <3>2. CASE buf = <<>>
      BY <1>3, <1>5, <3>1, <3>2
    <3>3. CASE buf # <<>>
      BY <1>3, <1>4, <3>1, <3>3
    <3> QED  BY <3>2, <3>3
  <2>2. CASE Len(buf) - size < 0
    <3>1. Lists(got, m'.index) /\ kept = <<>> /\ call'.pc = "start" /\ call'.pos = m'.index
      BY <1>1, <1>2, <1>3, <2>0, <2>2
    <3> QED  BY <1>3, <3>1 DEF Progress
  <2>3. CASE Len(buf) - size = 0
    <3>1. Lists(got, m'.index) /\ kept = <<>> /\ call'.pc = "idle"
      BY <1>1, <1>2, <1>3, <2>0, <2>3
    <3> QED  BY <1>3, <3>1 DEF Progress
  <2>4. CASE Len(buf) - size > 0
    <3>1. Lists(got \o kept, m'.index + 1) /\ kept # <<>> /\ call'.pc = "idle"
      BY <1>1, <1>2, <1>3, <1>4, <1>5, <2>4
    <3> QED  BY <1>3, <3>1 DEF Progress
  <2> QED  BY <1>1, <2>2, <2>3, <2>4
<1> QED  BY <1>6, <1>7

\* No record any more.
LEMMA SeqEnd ==
  ASSUME RmapSeqTypeOK, End, m'.buf = <<>>, out' = out,
         m' \in [index : Nat, size : Nat, buf : Seq(Part)],
         Lists(out, m'.index), m'.index > totalram_pages \/ m'.index >= IntLimit
  PROVE  RmapSeqTypeOK' /\ Progress'
<1>1. call' = [call EXCEPT !.pc = IF call.copied THEN "idle" ELSE "eof"]
  BY DEF End
<1>2. RmapSeqTypeOK' /\ call'.pc \in {"idle", "eof"}
  BY <1>1 DEF RmapSeqTypeOK
<1> QED  BY <1>2 DEF Progress

LEMMA SeqStartStep ==
  ASSUME RmapSeqTypeOK, Progress, Start
  PROVE  RmapSeqTypeOK' /\ Progress'
<1>1. /\ call.pc = "start" /\ UNCHANGED <<m, out>> /\ call.pos \in Nat
      /\ m.buf = <<>> /\ call.pos = m.index /\ Lists(out, m.index) /\ totalram_pages \in Nat
      /\ IntLimit \in Nat
  BY RmapSeqAssumption DEF Start, RmapSeqTypeOK, Progress
<1>2. CASE handler_seq_start(call.pos)
  <2>1. call' = [call EXCEPT !.pc = "show"] /\ NotPast(m.index + 1)
    BY <1>1, <1>2, NextPosition DEF Start, Lists
  <2>2. RmapSeqTypeOK' /\ call'.pc = "show" /\ call'.pos = call.pos
    BY <1>1, <2>1 DEF RmapSeqTypeOK
  <2> QED  BY <1>1, <1>2, <2>1, <2>2 DEF Progress
<1>3. CASE ~handler_seq_start(call.pos)
  <2>1. End /\ (m.index > totalram_pages \/ m.index >= IntLimit)
    BY <1>1, <1>3, IntPosition DEF Start
  <2>2. m' \in [index : Nat, size : Nat, buf : Seq(Part)]
    BY <1>1 DEF RmapSeqTypeOK
  <2> QED  BY <1>1, <2>1, <2>2, SeqEnd
<1> QED  BY <1>2, <1>3

LEMMA SeqShowStep ==
  ASSUME RmapSeqTypeOK, Progress, ShowFirst
  PROVE  RmapSeqTypeOK' /\ Progress'
<1>1. /\ call.pc = "show" /\ out' = out /\ out \in Seq(Part) /\ m.buf = <<>> /\ m.size \in Nat
      /\ call.pos = m.index /\ Lists(out, call.pos) /\ call.pos \in Nat
      /\ totalram_pages \in Nat /\ <<>> \in Seq(Part)
      /\ call.pos + 1 \in Nat /\ NotPast(call.pos + 1)
  BY RmapSeqAssumption DEF ShowFirst, RmapSeqTypeOK, Progress
<1>2. m \in [index : Nat, size : Nat, buf : Seq(Part)]
  BY DEF RmapSeqTypeOK
<1>3. PICK page \in PageInfo :
        LET text == handler_seq_show(call.pos, page)
            n == handler_seq_next(call.pos) IN
        \/ /\ text = <<>>
           /\ m' = [m EXCEPT !.index = n.pos]
           /\ IF n.more THEN call' = [call EXCEPT !.pos = n.pos] ELSE End
        \/ /\ text # <<>> /\ Len(text) < m.size
           /\ m' = [m EXCEPT !.buf = text]
           /\ call' = [call EXCEPT !.pc = "fill"]
        \/ /\ Len(text) >= m.size
           /\ m' = [m EXCEPT !.size = 2 * @]
           /\ call' = [call EXCEPT !.pc = "start", !.pos = m.index]
  BY DEF ShowFirst
<1> DEFINE text == handler_seq_show(call.pos, page)
<1>4. text \in Seq(Part) /\ Lists(out \o text, call.pos + 1)
  BY <1>1, ShowText, ListsOneMore
<1>5. /\ handler_seq_next(call.pos).pos = call.pos + 1
      /\ handler_seq_next(call.pos).more <=> call.pos + 1 <= totalram_pages
  BY <1>1, NextPosition
<1> HIDE DEF text
<1>6. CASE text = <<>> /\ m' = [m EXCEPT !.index = call.pos + 1]
           /\ IF call.pos + 1 <= totalram_pages THEN call' = [call EXCEPT !.pos = call.pos + 1] ELSE End
  <2>1. m' \in [index : Nat, size : Nat, buf : Seq(Part)]
        /\ m'.buf = <<>> /\ m'.index = call.pos + 1
    BY <1>1, <1>2, <1>6
  <2>2. Lists(out, call.pos + 1)
    BY <1>1, <1>4, <1>6, ConcatEmptySeq
  <2>3. CASE call.pos + 1 <= totalram_pages
    <3>1. call' = [call EXCEPT !.pos = call.pos + 1]
      BY <1>6, <2>3
    <3>2. RmapSeqTypeOK' /\ call'.pc = "show" /\ call'.pos = call.pos + 1
      BY <1>1, <2>1, <3>1 DEF RmapSeqTypeOK
    <3>3. NotPast(m'.index + 1)
      BY <1>1, <2>1, <2>3, NextPosition
    <3> QED  BY <1>1, <2>1, <2>2, <3>2, <3>3 DEF Progress, NotPast
  <2>4. CASE ~(call.pos + 1 <= totalram_pages)
    <3>1. End /\ call.pos + 1 > totalram_pages
      BY <1>1, <1>6, <2>4
    <3> QED  BY <1>1, <2>1, <2>2, <3>1, SeqEnd
  <2> QED  BY <2>3, <2>4
<1>7. CASE text # <<>> /\ m' = [m EXCEPT !.buf = text] /\ call' = [call EXCEPT !.pc = "fill"]
  <2>1. RmapSeqTypeOK' /\ m'.buf = text /\ call'.pc = "fill" /\ call'.pos = call.pos
    BY <1>1, <1>2, <1>4, <1>7 DEF RmapSeqTypeOK
  <2> QED  BY <1>1, <1>4, <1>7, <2>1 DEF Progress
<1>8. CASE m' = [m EXCEPT !.size = 2 * @] /\ call' = [call EXCEPT !.pc = "start", !.pos = m.index]
  <2>1. /\ RmapSeqTypeOK' /\ m'.buf = <<>> /\ m'.index = m.index
        /\ call'.pc = "start" /\ call'.pos = m.index
    <3>1. /\ m' \in [index : Nat, size : Nat, buf : Seq(Part)]
          /\ m'.buf = <<>> /\ m'.index = m.index
      BY <1>1, <1>2, <1>8
    <3>2. m.index \in Nat
      BY <1>2
    <3>3. /\ call' \in [pc : {"idle", "start", "show", "fill", "eof"}, want : 0..MaxSize,
                       pos : Nat, copied : BOOLEAN]
          /\ call'.pc = "start" /\ call'.pos = m.index
      BY <1>8, <3>2 DEF RmapSeqTypeOK
    <3> QED  BY <1>1, <3>1, <3>3 DEF RmapSeqTypeOK
  <2> QED  BY <1>1, <2>1 DEF Progress
<1> QED  BY <1>3, <1>5, <1>6, <1>7, <1>8 DEF text

\* The copy at the end of a read.
LEMMA SeqCopy ==
  ASSUME RmapSeqTypeOK, Progress, call.pc = "fill", Copy
  PROVE  RmapSeqTypeOK' /\ Progress'
<1> DEFINE kept == SubSeq(m.buf, call.want + 1, Len(m.buf))
           got == out \o Upto(m.buf, call.want)
<1>1. /\ out \in Seq(Part) /\ m.buf \in Seq(Part) /\ call.want \in Nat
      /\ totalram_pages \in Nat /\ Lists(out \o m.buf, call.pos + 1)
      /\ m \in [index : Nat, size : Nat, buf : Seq(Part)]
      /\ call.pos \in Nat /\ call.pos + 1 \in Nat
  BY RmapSeqAssumption DEF RmapSeqTypeOK, Progress
<1>2. /\ got \in Seq(Part) /\ kept \in Seq(Part) /\ got \o kept = out \o m.buf
      /\ kept = <<>> <=> Len(m.buf) <= call.want
  BY <1>1, CopyKeeps
<1>3. /\ out' = got /\ call' = [call EXCEPT !.pc = "idle"]
      /\ m'.buf = kept /\ m'.index = IF kept = <<>> THEN call.pos + 1 ELSE call.pos
      /\ m' = [m EXCEPT !.buf = kept,
                        !.index = IF kept = <<>> THEN call.pos + 1 ELSE call.pos]
  BY <1>1, <1>2 DEF Copy
<1> HIDE DEF kept, got
<1>4. RmapSeqTypeOK' /\ call'.pc = "idle"
  <2>1. call' \in [pc : {"idle", "start", "show", "fill", "eof"}, want : 0..MaxSize,
                  pos : Nat, copied : BOOLEAN] /\ call'.pc = "idle"
    BY <1>3 DEF RmapSeqTypeOK
  <2>2. m' \in [index : Nat, size : Nat, buf : Seq(Part)]
    BY <1>1, <1>2, <1>3
  <2> QED  BY <1>2, <1>3, <2>1, <2>2 DEF RmapSeqTypeOK
<1>5. kept = <<>> => Lists(got, call.pos + 1)
  <2>1. got \o <<>> = got
    BY <1>2, ConcatEmptySeq
  <2>2. Lists(got \o kept, call.pos + 1)
    BY <1>1, <1>2
  <2> QED  BY <2>1, <2>2
<1>6. kept # <<>> => Lists(got \o kept, call.pos + 1)
  BY <1>1, <1>2
<1> QED  BY <1>1, <1>3, <1>4, <1>5, <1>6 DEF Progress

LEMMA SeqFillStep ==
  ASSUME RmapSeqTypeOK, Progress, FillBuffer
  PROVE  RmapSeqTypeOK' /\ Progress'
<1>1. /\ call.pc = "fill" /\ out \in Seq(Part) /\ m.buf \in Seq(Part) /\ m.buf # <<>>
      /\ totalram_pages \in Nat /\ call.pos \in Nat
      /\ Lists(out \o m.buf, call.pos + 1) /\ out \o m.buf \in Seq(Part)
  BY RmapSeqAssumption DEF FillBuffer, RmapSeqTypeOK, Progress
<1>2. CASE Copy
  BY <1>1, <1>2, SeqCopy
<1>3. CASE ~Copy
  <2> DEFINE pos == call.pos + 1
  <2>0. /\ handler_seq_next(call.pos).pos = pos
        /\ handler_seq_next(call.pos).more <=> pos <= totalram_pages
    BY <1>1, NextPosition
  <2>1. pos \in 0..totalram_pages /\ NotPast(pos + 1) /\ handler_seq_next(call.pos).pos = pos
    <3>1. handler_seq_next(call.pos).more
      BY <1>3 DEF FillBuffer
    <3>2. pos \in Nat /\ pos <= totalram_pages
      BY <1>1, <2>0, <3>1
    <3> HIDE DEF pos
    <3>3. NotPast(pos + 1)
      BY <3>2, NextPosition
    <3> QED  BY <1>1, <2>0, <3>2, <3>3
  <2>2. PICK page \in PageInfo :
          /\ m' = [m EXCEPT !.buf = @ \o handler_seq_show(pos, page)]
          /\ call' = [call EXCEPT !.pos = pos] /\ out' = out
    BY <1>3, <2>1 DEF FillBuffer
  <2> DEFINE text == handler_seq_show(pos, page)
  <2>3. text \in Seq(Part) /\ Lists((out \o m.buf) \o text, pos + 1)
    <3>1. pos \in Nat /\ Lists(out \o m.buf, pos) /\ NotPast(pos + 1)
      BY <1>1, <2>1
    <3> HIDE DEF pos
    <3> QED  BY <1>1, <3>1, ShowText, ListsOneMore
  <2> HIDE DEF text
  <2>4. (out \o m.buf) \o text = out \o (m.buf \o text)
    <3>1. \A s, t, u \in Seq(Part) : (s \o t) \o u = s \o (t \o u)
      <4>1. SUFFICES ASSUME NEW s \in Seq(Part), NEW t \in Seq(Part), NEW u \in Seq(Part)
                     PROVE  (s \o t) \o u = s \o (t \o u)
        OBVIOUS
      <4> QED  BY Associative
    <3>2. out \in Seq(Part) /\ m.buf \in Seq(Part) /\ text \in Seq(Part)
      BY <1>1, <2>3
    <3> QED  BY <3>1, <3>2, Zenon
  <2>5. m.buf \o text \in Seq(Part) /\ m.buf \o text # <<>>
    <3>1. m.buf \in Seq(Part) /\ text \in Seq(Part)
      BY <1>1, <2>3
    <3> QED  BY <1>1, <3>1, ConcatEqualIffEmpty
  <2>6. m' = [m EXCEPT !.buf = m.buf \o text]
    BY <2>2 DEF text
  <2> DEFINE buf == m.buf \o text
  <2>7. /\ RmapSeqTypeOK' /\ m'.buf = buf /\ call'.pc = "fill" /\ call'.pos = pos
    <3>1. buf \in Seq(Part) /\ m' = [m EXCEPT !.buf = buf]
      BY <2>5, <2>6
    <3> HIDE DEF buf
    <3>2. /\ m' \in [index : Nat, size : Nat, buf : Seq(Part)]
          /\ m'.buf = buf
      BY <3>1 DEF RmapSeqTypeOK
    <3>3. pos \in Nat
      BY <1>1
    <3>4. /\ call' \in [pc : {"idle", "start", "show", "fill", "eof"}, want : 0..MaxSize,
                       pos : Nat, copied : BOOLEAN]
          /\ call'.pc = "fill" /\ call'.pos = pos
      BY <1>1, <2>2, <3>3 DEF RmapSeqTypeOK
    <3> QED  BY <1>1, <2>2, <3>2, <3>4 DEF RmapSeqTypeOK
  <2>8. Lists(out' \o buf, pos + 1) /\ buf # <<>>
    BY <2>2, <2>3, <2>4, <2>5
  <2> HIDE DEF buf
  <2> QED  BY <2>1, <2>7, <2>8 DEF Progress
<1> QED  BY <1>2, <1>3

LEMMA SeqStep ==
  ASSUME SeqInv, [SeqNext]_seqVars
  PROVE  SeqInv'
<1>1. RmapSeqTypeOK /\ Progress
  BY DEF SeqInv
<1>2. CASE UNCHANGED seqVars
  BY <1>2 DEF seqVars, SeqInv, RmapSeqTypeOK, EachFrameOnce, Progress
<1>3. CASE SeqNext
  <2>1. RmapSeqTypeOK' /\ Progress'
    BY <1>1, <1>3, SeqReadStep, SeqStartStep, SeqShowStep, SeqFillStep DEF SeqNext
  <2>2. EachFrameOnce'
    BY <2>1, ProgressGives, PTL
  <2> QED  BY <2>1, <2>2 DEF SeqInv
<1> QED  BY <1>2, <1>3

\* Whatever the sizes of the reads and of the buffer, and whatever happens to the
\* pages between two calls of show, what a reader of /proc/rmap has got is the listing
\* of the frames so far, each record once, whole and in order.  At the end it has the
\* frames up to totalram_pages that an int can hold, and none above totalram_pages
\* unless positions wrap round: with holes in memory those are missing
\* (reverse_mapping.c:21, 30).
THEOREM SeqInvCorrect == SeqSpec => []SeqInv
<1>1. SeqInit => SeqInv
  <2>1. SUFFICES ASSUME SeqInit PROVE SeqInv
    OBVIOUS
  <2>2. RmapSeqTypeOK
    BY <2>1, RmapSeqAssumption DEF SeqInit, RmapSeqTypeOK
  <2>3. (\A f \in Valid : ~(f < 0)) /\ NotPast(0)
    BY RmapSeqAssumption DEF NotPast
  <2>4. Lists(<<>>, 0)
    BY <2>3 DEF Lists
  <2>5. Progress
    BY <2>1, <2>4 DEF SeqInit, Progress
  <2> QED  BY <2>2, <2>5, ProgressGives DEF SeqInv
<1> QED  BY <1>1, SeqStep, PTL DEF SeqSpec

-----------------------------------------------------------------------------
(* The capture of a trace.                                                   *)

\* The constants, and the frames of a stack.
LEMMA StackFacts ==
  ASSUME CallStackTypeOK
  PROVE  /\ LOG_PAGE_TRACE_LEVEL \in Nat /\ KPROBES_SKIP_NUM \in Nat
         /\ LOG_MODULE_MAX_NUM \in Nat \ {0} /\ Slot \subseteq Nat \ {0}
         /\ 0 \in DOMAIN ModuleOf /\ ModuleOf[0] = NoModule
         /\ Len(stack) \in Nat
         /\ \A k \in 1..Len(stack) : stack[k] \in DOMAIN ModuleOf
         /\ Len(modules) \in Nat /\ reached \in Nat \ {0}
<1>1. stack \in Seq(DOMAIN ModuleOf \ {0})
  BY CallStackAssumption DEF CallStackTypeOK
<1>2. \A k \in 1..Len(stack) : stack[k] \in DOMAIN ModuleOf
  BY <1>1
<1> QED  BY <1>1, <1>2, CallStackAssumption DEF CallStackTypeOK, Slot

\* A frame more.
LEMMA TraceNext ==
  ASSUME CallStackTypeOK, NEW n \in 1..Len(stack)
  PROVE  /\ n - KPROBES_SKIP_NUM \in Slot =>
              Trace(n) = [Trace(n - 1) EXCEPT ![n - KPROBES_SKIP_NUM] = stack[n]]
         /\ n - KPROBES_SKIP_NUM \notin Slot => Trace(n) = Trace(n - 1)
<1> DEFINE skip == KPROBES_SKIP_NUM
<1>1. skip \in Nat /\ LOG_PAGE_TRACE_LEVEL \in Nat /\ n \in Nat /\ Slot \subseteq Nat \ {0}
  BY StackFacts
<1>2. ASSUME NEW k \in Slot
      PROVE  /\ k + skip <= n <=> k + skip <= n - 1 \/ k = n - skip
             /\ k = n - skip => k + skip = n /\ ~(k + skip <= n - 1)
  BY <1>1
<1> HIDE DEF skip
<1>3. \A k \in Slot : k # n - skip => Trace(n)[k] = Trace(n - 1)[k]
  BY <1>2 DEF Trace, skip
<1>4. n - skip \in Slot => Trace(n)[n - skip] = stack[n]
  BY <1>2 DEF Trace, skip
<1>5. /\ Trace(n) = [k \in Slot |-> Trace(n)[k]] /\ Trace(n - 1) = [k \in Slot |-> Trace(n - 1)[k]]
  BY DEF Trace
<1>6. CASE n - skip \in Slot
  <2>1. Trace(n) = [Trace(n - 1) EXCEPT ![n - skip] = stack[n]]
    BY <1>3, <1>4, <1>5, <1>6
  <2> QED  BY <1>6, <2>1 DEF skip
<1>7. CASE n - skip \notin Slot
  <2>1. Trace(n) = Trace(n - 1)
    BY <1>3, <1>5, <1>7
  <2> QED  BY <1>7, <2>1 DEF skip
<1> QED  BY <1>6, <1>7 DEF skip

\* There is one last entry in a module before another.
LEMMA BeforeOne ==
  ASSUME NEW n \in Nat, NEW j \in Slot, NEW k \in Slot, Before(j, n), Before(k, n),
         CallStackTypeOK
  PROVE  j = k
<1>1. j \in Nat /\ k \in Nat
  BY StackFacts
<1> QED  BY <1>1 DEF Before

LEMMA StackStart == StackInit => CaptureInv
<1>1. SUFFICES ASSUME StackInit PROVE CaptureInv
  OBVIOUS
<1>2. /\ LOG_PAGE_TRACE_LEVEL \in Nat /\ KPROBES_SKIP_NUM \in Nat
      /\ 0 \in DOMAIN ModuleOf /\ ModuleOf[0] = NoModule /\ stack \in Stacks
      /\ st = [nr_entries |-> 0, skip |-> KPROBES_SKIP_NUM] /\ entries = [n \in Slot |-> 0]
      /\ modules = <<>> /\ last_mod = NoModule /\ reached = 1 /\ pc = "dump"
  BY <1>1, CallStackAssumption DEF StackInit, StackBegin
<1>3. CallStackTypeOK
  <2>1. st \in [nr_entries : 0..LOG_PAGE_TRACE_LEVEL, skip : 0..KPROBES_SKIP_NUM]
    BY <1>2
  <2> QED  BY <1>2, <2>1 DEF CallStackTypeOK
<1>4. entries = Trace(0)
  <2>1. \A k \in Slot : ~(k + KPROBES_SKIP_NUM <= 0)
    BY <1>2 DEF Slot
  <2> QED  BY <1>2, <2>1 DEF Trace
<1>5. Dumping
  <2>1. Len(stack) \in Nat
    BY <1>3, StackFacts
  <2> QED  BY <1>2, <1>4, <2>1 DEF Dumping
<1> QED  BY <1>2, <1>3, <1>5 DEF CaptureInv, TraceExact, ModulesExact, Listing

\* dump_trace calls hw_save_stack_address.
LEMMA DumpStep == CaptureInv /\ Dump => CaptureInv'
<1>1. SUFFICES ASSUME CaptureInv, Dump PROVE CaptureInv'
  OBVIOUS
<1> DEFINE kept == reached - 1 - KPROBES_SKIP_NUM
           level == LOG_PAGE_TRACE_LEVEL
<1>2. /\ CallStackTypeOK /\ Dumping
  BY <1>1 DEF CaptureInv
<1>3. /\ level \in Nat /\ KPROBES_SKIP_NUM \in Nat /\ Len(stack) \in Nat
      /\ reached \in 1..Len(stack) /\ kept \in Int /\ kept + 1 = reached - KPROBES_SKIP_NUM
      /\ Slot = 1..level /\ stack[reached] \in DOMAIN ModuleOf
  BY <1>1, <1>2, StackFacts DEF Dump, Slot
<1>4. /\ pc = "dump" /\ pc' = "dump" /\ reached' = reached + 1 /\ reached' \in Nat \ {0}
      /\ stack' = stack /\ modules' = modules /\ last_mod' = last_mod
      /\ hw_save_stack_address(stack[reached])
  BY <1>1, <1>3 DEF Dump
<1>5. /\ entries = Trace(reached - 1) /\ modules = <<>> /\ last_mod = NoModule
      /\ st.skip = IF kept < 0 THEN -kept ELSE 0
      /\ kept < 0 => st.nr_entries = 0
      /\ kept \in 0..level => st.nr_entries = kept
      /\ kept > level => st.nr_entries = level
      /\ st = [nr_entries |-> st.nr_entries, skip |-> st.skip]
      /\ st.nr_entries \in 0..level /\ st.skip \in 0..KPROBES_SKIP_NUM
      /\ entries \in [Slot -> DOMAIN ModuleOf]
  BY <1>2, <1>4 DEF Dumping, CallStackTypeOK
<1>6. /\ reached' - 1 = reached /\ reached' - 1 - KPROBES_SKIP_NUM = kept + 1
      /\ reached' <= Len(stack) + 1
  BY <1>3, <1>4
<1>a. /\ kept + 1 \in Slot => Trace(reached) = [entries EXCEPT ![kept + 1] = stack[reached]]
      /\ kept + 1 \notin Slot => Trace(reached) = entries
  <2>1. /\ reached - KPROBES_SKIP_NUM \in Slot =>
             Trace(reached) = [Trace(reached - 1) EXCEPT ![reached - KPROBES_SKIP_NUM] = stack[reached]]
        /\ reached - KPROBES_SKIP_NUM \notin Slot => Trace(reached) = Trace(reached - 1)
    BY <1>2, <1>3, TraceNext
  <2> HIDE DEF kept
  <2> QED  BY <1>3, <1>5, <2>1
<1> HIDE DEF kept, level
<1>7. /\ st' \in [nr_entries : 0..level, skip : 0..KPROBES_SKIP_NUM]
      /\ entries' = Trace(reached) /\ entries' \in [Slot -> DOMAIN ModuleOf]
      /\ st'.skip = IF kept + 1 < 0 THEN -(kept + 1) ELSE 0
      /\ kept + 1 < 0 => st'.nr_entries = 0
      /\ kept + 1 \in 0..level => st'.nr_entries = kept + 1
      /\ kept + 1 > level => st'.nr_entries = level
  <2>1. CASE kept < 0
    <3>1. st' = [nr_entries |-> 0, skip |-> -kept - 1] /\ entries' = entries
      BY <1>3, <1>4, <1>5, <2>1 DEF hw_save_stack_address
    <3>2. kept + 1 \notin Slot
      BY <1>3, <2>1
    <3>3. entries' = Trace(reached)
      BY <1>a, <3>1, <3>2
    <3>4. -kept - 1 \in 0..KPROBES_SKIP_NUM /\ -kept - 1 = -(kept + 1) /\ 0 \in 0..level
      BY <1>3, <1>5, <2>1
    <3>5. st' \in [nr_entries : 0..level, skip : 0..KPROBES_SKIP_NUM]
      BY <3>1, <3>4
    <3>6. /\ st'.skip = -(kept + 1) /\ st'.nr_entries = 0
          /\ kept + 1 = 0 => -(kept + 1) = 0
      BY <1>3, <3>1, <3>4
    <3>7. kept + 1 < 0 \/ (kept + 1 = 0 /\ kept + 1 \in 0..level)
      BY <1>3, <2>1
    <3> QED  BY <1>3, <1>5, <3>1, <3>3, <3>5, <3>6, <3>7
  <2>2. CASE kept \in 0..level /\ kept # level
    <3>1. /\ ~(st.skip > 0) /\ st.nr_entries = kept /\ kept < level /\ ~(kept < 0)
          /\ kept + 1 \in Slot
      BY <1>3, <1>5, <2>2
    <3>2. /\ st' = [nr_entries |-> kept + 1, skip |-> 0]
          /\ entries' = [entries EXCEPT ![kept + 1] = stack[reached]]
      BY <1>3, <1>4, <1>5, <3>1 DEF hw_save_stack_address, level
    <3>3. entries' = Trace(reached)
      BY <1>a, <3>1, <3>2
    <3>4. entries' \in [Slot -> DOMAIN ModuleOf]
      BY <1>3, <1>5, <3>2
    <3>5. kept + 1 \in 0..level /\ ~(kept + 1 < 0) /\ ~(kept + 1 > level) /\ 0 \in 0..KPROBES_SKIP_NUM
      BY <1>3, <3>1
    <3>6. st' \in [nr_entries : 0..level, skip : 0..KPROBES_SKIP_NUM]
      BY <3>2, <3>5
    <3> QED  BY <3>2, <3>3, <3>4, <3>5, <3>6
  <2>3. CASE kept >= level
    <3>1. /\ ~(st.skip > 0) /\ st.nr_entries = level /\ ~(kept < 0) /\ kept + 1 \notin Slot
      BY <1>3, <1>5, <2>3
    <3>2. st' = st /\ entries' = entries
      BY <1>3, <1>4, <1>5, <3>1 DEF hw_save_stack_address, level
    <3>3. entries' = Trace(reached)
      BY <1>a, <3>1, <3>2
    <3>4. /\ kept + 1 > level /\ ~(kept + 1 < 0) /\ kept + 1 \notin 0..level
          /\ st.skip = 0
      BY <1>3, <1>5, <2>3, <3>1
    <3>5. st' \in [nr_entries : 0..level, skip : 0..KPROBES_SKIP_NUM]
      BY <1>5, <3>2
    <3> QED  BY <1>5, <3>1, <3>2, <3>3, <3>4, <3>5
  <2> QED  BY <1>3, <2>1, <2>2, <2>3
<1>8. CallStackTypeOK'
  BY <1>2, <1>4, <1>7 DEF CallStackTypeOK, level, Slot
<1>9. Trace(reached)' = [k \in Slot |-> IF k + KPROBES_SKIP_NUM <= reached'
                                        THEN stack[k + KPROBES_SKIP_NUM] ELSE 0]
  BY <1>4 DEF Trace, Slot
<1>10. Dumping'
  <2>1. Trace(reached - 1)' = Trace(reached)
    BY <1>4, <1>6 DEF Trace, Slot
  <2> QED  BY <1>4, <1>5, <1>6, <1>7, <2>1 DEF Dumping, level
<1> QED  BY <1>4, <1>8, <1>10 DEF CaptureInv, TraceExact, ModulesExact, Listing

\* The end of the stack.
LEMMA DumpedStep == CaptureInv /\ Dumped => CaptureInv'
<1>1. SUFFICES ASSUME CaptureInv, Dumped PROVE CaptureInv'
  OBVIOUS
<1>2. /\ CallStackTypeOK /\ Dumping
  BY <1>1 DEF CaptureInv
<1>3. /\ pc = "dump" /\ pc' = "modules" /\ reached' = 1 /\ reached > Len(stack)
      /\ UNCHANGED <<stack, st, entries, modules, last_mod>>
  BY <1>1 DEF Dumped
<1>4. /\ Len(stack) \in Nat /\ reached - 1 = Len(stack) /\ entries = Trace(Len(stack))
      /\ modules = <<>> /\ last_mod = NoModule /\ reached \in Nat /\ LOG_PAGE_TRACE_LEVEL \in Nat
      /\ LOG_MODULE_MAX_NUM \in Nat \ {0} /\ Slot \subseteq Nat \ {0}
  <2>1. /\ Len(stack) \in Nat /\ reached \in Nat /\ LOG_PAGE_TRACE_LEVEL \in Nat
        /\ LOG_MODULE_MAX_NUM \in Nat \ {0} /\ Slot \subseteq Nat \ {0}
    BY <1>2, StackFacts
  <2>2. reached <= Len(stack) + 1 /\ entries = Trace(reached - 1)
    BY <1>2, <1>3 DEF Dumping
  <2>3. reached - 1 = Len(stack)
    BY <1>3, <2>1, <2>2
  <2> QED  BY <1>2, <1>3, <2>1, <2>2, <2>3 DEF Dumping
<1>5. CallStackTypeOK'
  BY <1>2, <1>3 DEF CallStackTypeOK, Slot
<1>6. TraceExact'
  BY <1>3, <1>4 DEF TraceExact, Trace, Slot
<1>7. Turns' = Turns
  BY <1>3 DEF Turns, Before, Slot
<1>8. ModulesUpTo(1)'
  <2> DEFINE places == [k \in 1..0 |-> 0]
  <2>1. modules' = <<>> /\ Len(modules') = 0
    BY <1>3, <1>4
  <2>2. places \in [1..0 -> Turns] /\ \A k : k \notin 1..0
    OBVIOUS
  <2>3. \A t \in Turns : ~(t < 1)
    BY <1>4 DEF Turns
  <2> HIDE DEF places
  <2>4. /\ places \in [1..Len(modules') -> Turns'] /\ \A k : k \notin 1..Len(modules')
        /\ Len(modules') <= LOG_MODULE_MAX_NUM
    BY <1>4, <1>7, <2>1, <2>2
  <2>5. \A t \in Turns' : ~(t < 1)
    BY <1>7, <2>3
  <2> QED  BY <2>4, <2>5, Zenon DEF ModulesUpTo
<1>9. Listing'
  <2>1. \A k \in Slot' : ~(k < 1)
    BY <1>4 DEF Slot
  <2>2. Len(modules') < LOG_MODULE_MAX_NUM /\ reached' <= LOG_PAGE_TRACE_LEVEL + 1
    BY <1>3, <1>4
  <2> QED  BY <1>3, <1>4, <1>8, <2>1, <2>2 DEF Listing
<1> QED  BY <1>3, <1>5, <1>6, <1>9 DEF CaptureInv, ModulesExact, Dumping

\* The list stays right when no turn is passed, or when it is full.
LEMMA ModulesStay ==
  ASSUME CallStackTypeOK, NEW n \in Nat, NEW p \in Nat, n <= p, ModulesUpTo(n),
         \/ Len(modules) = LOG_MODULE_MAX_NUM
         \/ \A t \in Turns : t < p => t < n
  PROVE  ModulesUpTo(p)
<1>1. PICK f \in [1..Len(modules) -> Turns] :
        /\ \A k \in 1..Len(modules) :
             /\ f[k] < n /\ modules[k] = ModuleOf[entries[f[k]]]
             /\ \A t \in Turns : t < f[k] <=> \E j \in 1..k - 1 : f[j] = t
        /\ Len(modules) < LOG_MODULE_MAX_NUM =>
             \A t \in Turns : t < n => \E k \in 1..Len(modules) : f[k] = t
  BY DEF ModulesUpTo
<1>2. \A k \in 1..Len(modules) : f[k] < p
  <2>1. SUFFICES ASSUME NEW k \in 1..Len(modules) PROVE f[k] < p
    OBVIOUS
  <2>2. f[k] \in Nat
    BY StackFacts DEF Turns
  <2>3. f[k] < n
    BY <1>1
  <2> QED  BY <2>2, <2>3
<1>3. Len(modules) <= LOG_MODULE_MAX_NUM /\ LOG_MODULE_MAX_NUM \in Nat /\ Len(modules) \in Nat
  BY StackFacts DEF ModulesUpTo
<1>4. Len(modules) < LOG_MODULE_MAX_NUM =>
        \A t \in Turns : t < p => \E k \in 1..Len(modules) : f[k] = t
  BY <1>1, <1>3
<1>5. \A k \in 1..Len(modules) :
        /\ f[k] < p /\ modules[k] = ModuleOf[entries[f[k]]]
        /\ \A t \in Turns : t < f[k] <=> \E j \in 1..k - 1 : f[j] = t
  BY <1>1, <1>2, Zenon
<1> QED  BY <1>1, <1>3, <1>4, <1>5, Zenon DEF ModulesUpTo

\* A module more, at a turn.
LEMMA ModulesGrow ==
  ASSUME CallStackTypeOK, NEW n \in Turns, ModulesUpTo(n),
         Len(modules) < LOG_MODULE_MAX_NUM,
         modules' = Append(modules, ModuleOf[entries[n]]), UNCHANGED <<stack, entries>>,
         NEW p \in Nat, n < p, p = n + 1 \/ Len(modules) + 1 = LOG_MODULE_MAX_NUM
  PROVE  ModulesUpTo(p)' /\ Len(modules') = Len(modules) + 1
<1> DEFINE L == Len(modules)
<1>1. PICK f \in [1..L -> Turns] :
        /\ \A k \in 1..L :
             /\ f[k] < n /\ modules[k] = ModuleOf[entries[f[k]]]
             /\ \A t \in Turns : t < f[k] <=> \E j \in 1..k - 1 : f[j] = t
        /\ \A t \in Turns : t < n => \E k \in 1..L : f[k] = t
  BY DEF ModulesUpTo
<1>2. /\ L \in Nat /\ LOG_MODULE_MAX_NUM \in Nat /\ Turns \subseteq Nat /\ L < LOG_MODULE_MAX_NUM
  BY StackFacts DEF Turns
<1>3. /\ Len(modules') = L + 1 /\ modules'[L + 1] = ModuleOf[entries[n]]
      /\ \A k \in 1..L : modules'[k] = modules[k]
  BY DEF CallStackTypeOK
<1>4. Turns' = Turns
  BY DEF Turns, Before, Slot
<1> HIDE DEF L
<1> DEFINE g == [k \in 1..(L + 1) |-> IF k = L + 1 THEN n ELSE f[k]]
<1>5. g \in [1..(L + 1) -> Turns]
  BY <1>1, <1>2
<1>6. g[L + 1] = n /\ \A k \in 1..L : g[k] = f[k] /\ f[k] \in Turns
  BY <1>1, <1>2
<1> HIDE DEF g
<1>7. ASSUME NEW k \in 1..(L + 1)
      PROVE  /\ g[k] < p /\ modules'[k] = ModuleOf[entries[g[k]]]
             /\ \A t \in Turns : t < g[k] <=> \E j \in 1..k - 1 : g[j] = t
  <2>1. CASE k \in 1..L
    <3>1. 1..(k - 1) \subseteq 1..L
      BY <1>2, <2>1
    <3>2. \A j \in 1..(k - 1) : g[j] = f[j]
      BY <1>6, <3>1
    <3>3. g[k] < p
      <4>1. g[k] < n /\ g[k] \in Nat /\ n \in Nat
        BY <1>1, <1>2, <1>6, <2>1
      <4> QED  BY <4>1
    <3>4. \A t \in Turns : t < g[k] <=> \E j \in 1..k - 1 : f[j] = t
      BY <1>1, <1>6, <2>1
    <3>5. modules'[k] = ModuleOf[entries[g[k]]]
      BY <1>1, <1>3, <1>6, <2>1
    <3>6. \A t \in Turns : t < g[k] <=> \E j \in 1..k - 1 : g[j] = t
      BY <3>2, <3>4, Zenon
    <3> QED  BY <3>3, <3>5, <3>6
  <2>2. CASE k = L + 1
    <3>1. g[k] = n /\ n < p /\ k - 1 = L
      BY <1>2, <1>6, <2>2
    <3>2. ASSUME NEW t \in Turns PROVE t < n <=> \E j \in 1..L : g[j] = t
      BY <1>1, <1>6
    <3>3. modules'[k] = ModuleOf[entries[g[k]]]
      BY <1>3, <2>2, <3>1
    <3> QED  BY <3>1, <3>2, <3>3, Zenon
  <2>3. k \in 1..L \/ k = L + 1
    BY <1>2
  <2> QED  BY <2>1, <2>2, <2>3, Zenon
<1>8. p = n + 1 => \A t \in Turns : t < p => \E k \in 1..(L + 1) : g[k] = t
  <2>1. SUFFICES ASSUME p = n + 1, NEW t \in Turns, t < p PROVE \E k \in 1..(L + 1) : g[k] = t
    OBVIOUS
  <2>2. t < n \/ t = n
    BY <1>2, <2>1
  <2>3. L + 1 \in 1..(L + 1) /\ 1..L \subseteq 1..(L + 1)
    BY <1>2
  <2> QED  BY <1>1, <1>6, <2>2, <2>3
<1>9. Len(modules') <= LOG_MODULE_MAX_NUM
  BY <1>2, <1>3
<1>10. ModulesUpTo(p)'
  <2>1. entries' = entries
    OBVIOUS
  <2>2. g \in [1..Len(modules') -> Turns']
    BY <1>3, <1>4, <1>5
  <2>3. \A k \in 1..Len(modules') :
          /\ g[k] < p /\ modules'[k] = ModuleOf[entries'[g[k]]]
          /\ \A t \in Turns' : t < g[k] <=> \E j \in 1..k - 1 : g[j] = t
    BY <1>3, <1>4, <1>7, <2>1, Zenon
  <2>4. p = n + 1 => \A t \in Turns' : t < p => \E k \in 1..Len(modules') : g[k] = t
    BY <1>3, <1>4, <1>8, Zenon
  <2>5. p = n + 1 \/ ~(Len(modules') < LOG_MODULE_MAX_NUM)
    BY <1>2, <1>3 DEF L
  <2> QED  BY <1>9, <2>2, <2>3, <2>4, <2>5, Zenon DEF ModulesUpTo
<1> QED  BY <1>3, <1>10 DEF L

\* The loop over the entries.
LEMMA ListModuleStep == CaptureInv /\ ListModule => CaptureInv'
<1>1. SUFFICES ASSUME CaptureInv, ListModule PROVE CaptureInv'
  OBVIOUS
<1>0. PICK n \in Nat : n = reached
  BY <1>1, StackFacts DEF CaptureInv
<1> DEFINE mod == ModuleOf[entries[n]]
<1>2. /\ CallStackTypeOK /\ TraceExact /\ Listing /\ pc = "modules"
      /\ n <= LOG_PAGE_TRACE_LEVEL /\ reached' = n + 1 /\ UNCHANGED <<stack, st, entries>>
  BY <1>0, <1>1 DEF CaptureInv, ListModule
<1>3. /\ LOG_PAGE_TRACE_LEVEL \in Nat /\ LOG_MODULE_MAX_NUM \in Nat \ {0} /\ n \in Slot
      /\ Slot \subseteq Nat \ {0} /\ n \in Nat /\ Len(modules) \in Nat
      /\ entries[n] \in DOMAIN ModuleOf
  <2>1. /\ LOG_PAGE_TRACE_LEVEL \in Nat /\ LOG_MODULE_MAX_NUM \in Nat \ {0}
        /\ reached \in Nat \ {0} /\ Slot \subseteq Nat \ {0} /\ Len(modules) \in Nat
    BY <1>2, StackFacts
  <2>2. n \in Slot
    BY <1>0, <1>2, <2>1 DEF Slot
  <2> QED  BY <1>2, <2>1, <2>2 DEF CallStackTypeOK
<1>4. /\ ModulesUpTo(n) /\ Len(modules) < LOG_MODULE_MAX_NUM
      /\ IF last_mod = NoModule
         THEN \A k \in Slot : k < n => ModuleOf[entries[k]] = NoModule
         ELSE \E k \in Slot : Before(k, n) /\ ModuleOf[entries[k]] = last_mod
  BY <1>0, <1>2 DEF Listing
<1>5. \A k \in Slot : Before(k, n) =>
        last_mod # NoModule /\ ModuleOf[entries[k]] = last_mod
  <2>1. SUFFICES ASSUME NEW k \in Slot, Before(k, n)
                 PROVE  last_mod # NoModule /\ ModuleOf[entries[k]] = last_mod
    OBVIOUS
  <2>2. last_mod # NoModule
    BY <1>4, <2>1 DEF Before
  <2>3. PICK j \in Slot : Before(j, n) /\ ModuleOf[entries[j]] = last_mod
    BY <1>4, <2>2
  <2>4. j = k
    BY <1>2, <1>3, <2>1, <2>3, BeforeOne
  <2> QED  BY <2>2, <2>3, <2>4
<1>6. n \in Turns <=> mod \notin {NoModule, last_mod}
  <2>1. mod # NoModule /\ mod = last_mod => n \notin Turns
    BY <1>4 DEF Turns
  <2>2. mod \notin {NoModule, last_mod} => n \in Turns
    BY <1>3, <1>5 DEF Turns
  <2> QED  BY <2>1, <2>2 DEF Turns
<1>7. ASSUME NEW k \in Slot PROVE k < n + 1 <=> k < n \/ k = n
  <2>1. k \in Nat
    BY <1>3
  <2> QED  BY <2>1
<1>8. /\ Slot' = Slot /\ Turns' = Turns /\ \A j, k : Before(j, k)' <=> Before(j, k)
  BY <1>2 DEF Turns, Before, Slot
<1>9. \A k \in Slot : mod = NoModule /\ Before(k, n) => Before(k, n + 1)
  <2>1. SUFFICES ASSUME NEW k \in Slot, mod = NoModule, Before(k, n) PROVE Before(k, n + 1)
    OBVIOUS
  <2>2. k < n + 1
    BY <1>7, <2>1 DEF Before
  <2>3. \A j \in Slot : k < j /\ j < n + 1 => ModuleOf[entries[j]] = NoModule
    BY <1>7, <2>1 DEF Before
  <2> QED  BY <2>1, <2>2, <2>3 DEF Before
<1>10. mod # NoModule => Before(n, n + 1)
  <2>1. \A j \in Slot : ~(n < j /\ j < n + 1)
    BY <1>3
  <2>2. n < n + 1
    OBVIOUS
  <2> QED  BY <2>1, <2>2 DEF Before, mod
<1> HIDE DEF mod
<1>11. CASE mod \in {NoModule, last_mod}
  <2>1. UNCHANGED <<modules, last_mod, pc>>
    BY <1>0, <1>1, <1>11 DEF ListModule, mod
  <2>2. \A t \in Turns : t < n + 1 => t < n
    BY <1>6, <1>7, <1>11 DEF Turns
  <2>3. ModulesUpTo(n + 1)
    BY <1>2, <1>3, <1>4, <2>2, ModulesStay
  <2>4. ModulesUpTo(n + 1)'
    BY <1>2, <1>8, <2>1, <2>3 DEF ModulesUpTo
  <2>5. IF last_mod = NoModule
        THEN \A k \in Slot : k < n + 1 => ModuleOf[entries[k]] = NoModule
        ELSE \E k \in Slot : Before(k, n + 1) /\ ModuleOf[entries[k]] = last_mod
    <3>1. CASE last_mod = NoModule
      BY <1>4, <1>7, <1>11, <3>1 DEF mod
    <3>2. CASE last_mod # NoModule /\ mod = NoModule
      BY <1>4, <1>9, <3>2
    <3>3. CASE last_mod # NoModule /\ mod = last_mod
      BY <1>3, <1>10, <3>3 DEF mod
    <3> QED  BY <1>11, <3>1, <3>2, <3>3
  <2>6. Listing'
    <3>1. reached' <= LOG_PAGE_TRACE_LEVEL + 1
      BY <1>2, <1>3
    <3> QED  BY <1>2, <1>4, <1>8, <2>1, <2>4, <2>5, <3>1 DEF Listing
  <2>7. CallStackTypeOK'
    <3>1. reached' \in Nat \ {0}
      BY <1>2, <1>3
    <3> QED  BY <1>2, <1>8, <2>1, <3>1 DEF CallStackTypeOK
  <2>8. TraceExact'
    BY <1>2, <1>8, <2>1 DEF TraceExact, Trace
  <2> QED  BY <1>2, <2>1, <2>6, <2>7, <2>8 DEF CaptureInv, ModulesExact, Dumping
<1>12. CASE mod \notin {NoModule, last_mod}
  <2>1. /\ last_mod' = mod /\ modules' = Append(modules, mod)
        /\ pc' = IF Len(modules) + 1 = LOG_MODULE_MAX_NUM THEN "done" ELSE pc
    BY <1>0, <1>1, <1>12 DEF ListModule, mod
  <2>2. n \in Turns
    BY <1>6, <1>12
  <2>3. ModulesUpTo(n + 1)' /\ Len(modules') = Len(modules) + 1
    <3>1. modules' = Append(modules, ModuleOf[entries[n]]) /\ UNCHANGED <<stack, entries>>
      BY <1>2, <2>1 DEF mod
    <3>2. n + 1 \in Nat /\ n < n + 1
      OBVIOUS
    <3> QED  BY <1>2, <1>4, <2>2, <3>1, <3>2, ModulesGrow
  <2>4. CallStackTypeOK'
    <3>1. reached' \in Nat \ {0}
      BY <1>2, <1>3
    <3>2. mod \in {ModuleOf[a] : a \in DOMAIN ModuleOf}
      BY <1>3 DEF mod
    <3>3. modules' \in Seq({ModuleOf[a] : a \in DOMAIN ModuleOf})
      BY <1>2, <2>1, <3>2 DEF CallStackTypeOK
    <3> QED  BY <1>2, <1>8, <2>1, <3>1, <3>3 DEF CallStackTypeOK
  <2>5. TraceExact'
    BY <1>2, <1>8, <2>1 DEF TraceExact, Trace
  <2>6. CASE Len(modules) + 1 = LOG_MODULE_MAX_NUM
    <3>1. pc' = "done" /\ Len(modules') = LOG_MODULE_MAX_NUM
      BY <2>1, <2>3, <2>6
    <3>2. LOG_PAGE_TRACE_LEVEL + 1 \in Nat /\ n < LOG_PAGE_TRACE_LEVEL + 1
      BY <1>2, <1>3
    <3>3. modules' = Append(modules, ModuleOf[entries[n]]) /\ UNCHANGED <<stack, entries>>
      BY <1>2, <2>1 DEF mod
    <3>4. ModulesUpTo(LOG_PAGE_TRACE_LEVEL + 1)'
      BY <1>2, <1>4, <2>2, <2>6, <3>2, <3>3, ModulesGrow
    <3> QED  BY <2>4, <2>5, <3>1, <3>4 DEF CaptureInv, ModulesExact, Dumping, Listing
  <2>7. CASE Len(modules) + 1 # LOG_MODULE_MAX_NUM
    <3>1. /\ pc' = "modules" /\ Len(modules') < LOG_MODULE_MAX_NUM
          /\ reached' <= LOG_PAGE_TRACE_LEVEL + 1
      BY <1>2, <1>3, <1>4, <2>1, <2>3, <2>7
    <3>2. n \in Slot' /\ Before(n, n + 1)' /\ ModuleOf[entries'[n]] = last_mod' /\ last_mod' # NoModule
      BY <1>2, <1>3, <1>8, <1>10, <1>12, <2>1 DEF mod
    <3>3. Listing'
      BY <1>2, <2>3, <3>1, <3>2 DEF Listing
    <3> QED  BY <2>4, <2>5, <3>1, <3>3 DEF CaptureInv, ModulesExact, Dumping
  <2> QED  BY <2>6, <2>7
<1> QED  BY <1>11, <1>12

LEMMA ListedStep == CaptureInv /\ Listed => CaptureInv'
<1>1. SUFFICES ASSUME CaptureInv, Listed PROVE CaptureInv'
  OBVIOUS
<1>2. /\ CallStackTypeOK /\ TraceExact /\ Listing /\ pc = "modules" /\ pc' = "done"
      /\ reached > LOG_PAGE_TRACE_LEVEL /\ reached \in Nat /\ LOG_PAGE_TRACE_LEVEL \in Nat
      /\ UNCHANGED <<stack, st, entries, modules, last_mod, reached>>
  BY <1>1, StackFacts DEF CaptureInv, Listed
<1>3. reached = LOG_PAGE_TRACE_LEVEL + 1 /\ ModulesUpTo(reached)
  BY <1>2 DEF Listing
<1>4. ModulesUpTo(LOG_PAGE_TRACE_LEVEL + 1)'
  <2>1. Turns' = Turns
    BY <1>2 DEF Turns, Before, Slot
  <2> QED  BY <1>2, <1>3, <2>1 DEF ModulesUpTo
<1>5. CallStackTypeOK' /\ TraceExact'
  BY <1>2 DEF CallStackTypeOK, TraceExact, Trace, Slot
<1> QED  BY <1>2, <1>4, <1>5 DEF CaptureInv, ModulesExact, Dumping, Listing

\* A linked record has its caller's trace, and the modules on it in their order.
THEOREM CaptureInvCorrect == StackSpec => []CaptureInv
<1>1. CaptureInv /\ [StackNext]_stackVars => CaptureInv'
  <2>1. SUFFICES ASSUME CaptureInv, [StackNext]_stackVars PROVE CaptureInv'
    OBVIOUS
  <2>2. CASE UNCHANGED stackVars
    <3>1. UNCHANGED <<stack, st, entries, modules, last_mod, reached, pc>>
      BY <2>2 DEF stackVars
    <3>2. /\ Slot' = Slot /\ Turns' = Turns /\ \A j, k : Before(j, k)' <=> Before(j, k)
          /\ \A n : Trace(n)' = Trace(n)
      BY <3>1 DEF Turns, Before, Slot, Trace
    <3>3. \A n : ModulesUpTo(n)' <=> ModulesUpTo(n)
      BY <3>1, <3>2 DEF ModulesUpTo
    <3>4. CallStackTypeOK' /\ TraceExact' /\ ModulesExact'
      BY <2>1, <3>1, <3>2, <3>3 DEF CaptureInv, CallStackTypeOK, TraceExact, ModulesExact
    <3>5. Dumping' /\ Listing'
      BY <2>1, <3>1, <3>2, <3>3 DEF CaptureInv, Dumping, Listing
    <3> QED  BY <3>4, <3>5 DEF CaptureInv
  <2> QED  BY <2>1, <2>2, DumpStep, DumpedStep, ListModuleStep, ListedStep DEF StackNext
<1> QED  BY <1>1, StackStart, PTL DEF StackSpec

-----------------------------------------------------------------------------
(* Search trees.                                                            *)

Of(B, n) == IF n = None THEN {} ELSE B[n]

StrictOrder(N, T) ==
  /\ \A x \in N : <<x, x>> \notin T
  /\ \A x, y, z \in N : <<x, y>> \in T /\ <<y, z>> \in T => <<x, z>> \in T

\* The nodes N with the children L and R, the nodes B at and under each, and the
\* order T of the search.
SearchTree(N, L, R, B, T) ==
  /\ IsFiniteSet(N) /\ None \notin N /\ StrictOrder(N, T)
  /\ B \in [N -> SUBSET N]
  /\ \A n \in N : /\ L[n] \in N \cup {None} /\ R[n] \in N \cup {None}
                  /\ B[n] = {n} \cup Of(B, L[n]) \cup Of(B, R[n])
                  /\ \A x \in Of(B, L[n]) : <<x, n>> \in T
                  /\ \A x \in Of(B, R[n]) : <<n, x>> \in T

Flip(N, T) == {z \in N \X N : <<z[2], z[1]>> \in T}

LEMMA Mirror ==
  ASSUME NEW N, NEW L, NEW R, NEW B, NEW T, SearchTree(N, L, R, B, T)
  PROVE  SearchTree(N, R, L, B, Flip(N, T))
<1> DEFINE C == Flip(N, T)
<1>1. \A x, y \in N : <<y, x>> \in C <=> <<x, y>> \in T
  BY DEF Flip
<1> HIDE DEF C
<1>2. StrictOrder(N, C)
  BY <1>1 DEF SearchTree, StrictOrder
<1>3. \A n \in N : Of(B, L[n]) \subseteq N /\ Of(B, R[n]) \subseteq N
  BY DEF SearchTree, Of
<1> QED  BY <1>1, <1>2, <1>3 DEF SearchTree, C

\* The two sides of a node are apart, and it is in neither.
LEMMA Sides ==
  ASSUME NEW N, NEW L, NEW R, NEW B, NEW T, SearchTree(N, L, R, B, T), NEW n \in N
  PROVE  /\ n \in B[n] /\ B[n] \subseteq N
         /\ Of(B, L[n]) \subseteq B[n] \ {n} /\ Of(B, R[n]) \subseteq B[n] \ {n}
         /\ Of(B, L[n]) \cap Of(B, R[n]) = {}
         /\ L[n] # n /\ R[n] # n
<1>1. n \in B[n] /\ B[n] \subseteq N
  BY DEF SearchTree
<1>2. n \notin Of(B, L[n]) /\ n \notin Of(B, R[n])
  BY DEF SearchTree, StrictOrder
<1>3. Of(B, L[n]) \subseteq B[n] /\ Of(B, R[n]) \subseteq B[n]
  BY DEF SearchTree
<1>4. ASSUME NEW x, x \in Of(B, L[n]), x \in Of(B, R[n]) PROVE FALSE
  <2>1. x \in N /\ <<x, n>> \in T /\ <<n, x>> \in T
    BY <1>1, <1>3, <1>4 DEF SearchTree
  <2>2. <<n, n>> \notin T /\ (<<n, x>> \in T /\ <<x, n>> \in T => <<n, n>> \in T)
    BY <2>1 DEF SearchTree, StrictOrder
  <2> QED  BY <2>1, <2>2
<1>5. L[n] # n /\ R[n] # n
  BY <1>1, <1>2 DEF Of, SearchTree
<1> QED  BY <1>1, <1>2, <1>3, <1>4, <1>5

\* What holds of a node if it holds of its children holds of all.
LEMMA TreeInduction ==
  ASSUME NEW N, NEW L, NEW R, NEW B, NEW T, SearchTree(N, L, R, B, T), NEW P,
         \A n \in N : L[n] \in P \cup {None} /\ R[n] \in P \cup {None} => n \in P
  PROVE  N \subseteq P
<1>1. SUFFICES ASSUME N \ P # {} PROVE FALSE
  OBVIOUS
<1>2. \A n \in N : IsFiniteSet(B[n]) /\ Cardinality(B[n]) \in Nat
  BY FS_Subset, FS_CardinalityType DEF SearchTree
<1> DEFINE S == {Cardinality(B[n]) : n \in N \ P}
<1>3. PICK k \in S : \A i \in S : k <= i
  <2>1. S \subseteq Nat /\ S # {}
    BY <1>1, <1>2
  <2> QED  BY <2>1, Least
<1>4. PICK n \in N \ P : Cardinality(B[n]) = k
  BY <1>3
<1>5. ASSUME NEW j \in N \ P, B[j] \subseteq B[n] \ {n} PROVE FALSE
  <2>1. Cardinality(B[j]) \in S
    OBVIOUS
  <2>2. k <= Cardinality(B[j])
    BY <1>3, <2>1
  <2>3. n \in B[n]
    BY Sides
  <2>4. B[j] \subseteq B[n] /\ B[j] # B[n]
    BY <1>5, <2>3
  <2>5. Cardinality(B[j]) < Cardinality(B[n])
    BY <1>2, <2>4, FS_Subset
  <2> QED  BY <1>2, <1>4, <2>2, <2>5
<1>6. L[n] \in P \cup {None}
  <2>1. L[n] \in N \ P => B[L[n]] \subseteq B[n] \ {n}
    BY Sides DEF Of, SearchTree
  <2> QED  BY <1>5, <2>1 DEF SearchTree
<1>7. R[n] \in P \cup {None}
  <2>1. R[n] \in N \ P => B[R[n]] \subseteq B[n] \ {n}
    BY Sides DEF Of, SearchTree
  <2> QED  BY <1>5, <2>1 DEF SearchTree
<1> QED  BY <1>4, <1>6, <1>7

\* What is under a node under n is under n.
LEMMA Nested ==
  ASSUME NEW N, NEW L, NEW R, NEW B, NEW T, SearchTree(N, L, R, B, T),
         NEW n \in N, NEW x \in B[n]
  PROVE  B[x] \subseteq B[n]
<1> DEFINE P == {j \in N : \A y \in B[j] : B[y] \subseteq B[j]}
<1>1. ASSUME NEW j \in N, L[j] \in P \cup {None}, R[j] \in P \cup {None}
      PROVE  j \in P
  <2>1. ASSUME NEW y \in B[j] PROVE B[y] \subseteq B[j]
    <3>1. y = j \/ y \in Of(B, L[j]) \/ y \in Of(B, R[j])
      BY DEF SearchTree
    <3>2. CASE y \in Of(B, L[j])
      BY <1>1, <3>2, Sides DEF Of
    <3>3. CASE y \in Of(B, R[j])
      BY <1>1, <3>3, Sides DEF Of
    <3> QED  BY <3>1, <3>2, <3>3
  <2> QED  BY <2>1
<1> HIDE DEF P
<1>2. N \subseteq P
  BY <1>1, TreeInduction
<1> QED  BY <1>2 DEF P

\* Each node has one place.
LEMMA OnePlace ==
  ASSUME NEW N, NEW L, NEW R, NEW B, NEW T, SearchTree(N, L, R, B, T),
         NEW r \in N \cup {None}, Of(B, r) = N,
         NEW c \in N
  PROVE  /\ c = r => \A n \in N : L[n] # c /\ R[n] # c
         /\ \A n, j \in N : c \in {L[n], R[n]} /\ c \in {L[j], R[j]} => n = j
         /\ \A n \in N : ~(L[n] = c /\ R[n] = c)
<1>1. \A n \in N : c \in {L[n], R[n]} =>
        /\ c \in B[n] /\ B[c] \subseteq B[n] \ {n}
        /\ c # n
  BY Sides DEF Of, SearchTree
<1>2. ASSUME c = r, NEW n \in N, c \in {L[n], R[n]} PROVE FALSE
  BY <1>1, <1>2 DEF Of, SearchTree
<1> DEFINE P == {k \in N : \A n, j \in B[k] :
                   c \in {L[n], R[n]} /\ c \in {L[j], R[j]} => n = j}
<1>3. ASSUME NEW k \in N, L[k] \in P \cup {None}, R[k] \in P \cup {None}
      PROVE  k \in P
  <2>1. B[k] = {k} \cup Of(B, L[k]) \cup Of(B, R[k]) /\ B[k] \subseteq N
    BY DEF SearchTree
  <2>2. \A n \in B[k] : n \in Of(B, L[k]) /\ c \in {L[n], R[n]} => c \in Of(B, L[k])
    BY <1>1, <2>1, Nested DEF SearchTree, Of
  <2>3. \A n \in B[k] : n \in Of(B, R[k]) /\ c \in {L[n], R[n]} => c \in Of(B, R[k])
    BY <1>1, <2>1, Nested DEF SearchTree, Of
  <2>4. \A n, j \in Of(B, L[k]) : c \in {L[n], R[n]} /\ c \in {L[j], R[j]} => n = j
    BY <1>3 DEF Of
  <2>5. \A n, j \in Of(B, R[k]) : c \in {L[n], R[n]} /\ c \in {L[j], R[j]} => n = j
    BY <1>3 DEF Of
  <2>6. ASSUME NEW n \in B[k] \ {k}, c \in {L[n], R[n]}, c \in {L[k], R[k]} PROVE FALSE
    <3>1. Of(B, L[k]) \cap Of(B, R[k]) = {} /\ c \in B[c]
      BY Sides
    <3>2. c = L[k] => Of(B, L[k]) = B[c] /\ c \in Of(B, L[k])
      BY <3>1 DEF Of, SearchTree
    <3>3. c = R[k] => Of(B, R[k]) = B[c] /\ c \in Of(B, R[k])
      BY <3>1 DEF Of, SearchTree
    <3>4. n \notin B[c]
      <4>1. n \in B[c] => n \in N
        BY <2>1
      <4> QED  BY <1>1, <2>6, <4>1
    <3>5. CASE n \in Of(B, L[k])
      BY <2>2, <2>6, <3>1, <3>2, <3>3, <3>4, <3>5
    <3>6. CASE n \in Of(B, R[k])
      BY <2>3, <2>6, <3>1, <3>2, <3>3, <3>4, <3>6
    <3> QED  BY <2>1, <3>5, <3>6
  <2>7. ASSUME NEW n \in B[k], NEW j \in B[k], c \in {L[n], R[n]}, c \in {L[j], R[j]}
        PROVE  n = j
    <3>1. CASE n = k \/ j = k
      BY <2>6, <2>7, <3>1
    <3>2. CASE n # k /\ j # k
      <4>1. Of(B, L[k]) \cap Of(B, R[k]) = {}
        BY Sides
      <4> QED  BY <2>1, <2>2, <2>3, <2>4, <2>5, <2>7, <3>2, <4>1
    <3> QED  BY <3>1, <3>2
  <2> QED  BY <2>7
<1> HIDE DEF P
<1>4. N \subseteq P
  BY <1>3, TreeInduction
<1>5. r \in N
  BY DEF Of, SearchTree
<1>6. B[r] = N
  BY <1>5 DEF Of, SearchTree
<1>7. \A n \in N : ~(L[n] = c /\ R[n] = c)
  <2>1. c \in B[c]
    BY Sides
  <2> QED  BY <2>1, Sides DEF Of, SearchTree
<1> QED  BY <1>2, <1>4, <1>5, <1>6, <1>7 DEF P

-----------------------------------------------------------------------------
(* Changes to a tree.                                                       *)

\* A larger order.
LEMMA TreeOrder ==
  ASSUME NEW N, NEW L, NEW R, NEW B, NEW T, SearchTree(N, L, R, B, T),
         NEW U, StrictOrder(N, U), \A x, y \in N : <<x, y>> \in T => <<x, y>> \in U
  PROVE  SearchTree(N, L, R, B, U)
<1>1. \A n \in N : Of(B, L[n]) \subseteq N /\ Of(B, R[n]) \subseteq N
  BY DEF SearchTree, Of
<1> QED  BY <1>1 DEF SearchTree

\* A node comes up in the place of its parent.
LEMMA TreeRotate ==
  ASSUME NEW N, NEW L, NEW R, NEW B, NEW T, SearchTree(N, L, R, B, T),
         NEW r \in N \cup {None}, Of(B, r) = N,
         NEW l \in N, NEW up, up = R[l], up # None,
         NEW K, NEW M,
         \A n \in N : /\ K[n] = IF n = up THEN l ELSE IF L[n] = l THEN up ELSE L[n]
                      /\ M[n] = IF n = l THEN L[up] ELSE IF R[n] = l THEN up ELSE R[n]
  PROVE  \E C : /\ SearchTree(N, K, M, C, T)
                /\ Of(C, IF r = l THEN up ELSE r) = N
<1> DEFINE C == [n \in N |-> IF n = up THEN B[l]
                             ELSE IF n = l THEN {l} \cup Of(B, L[l]) \cup Of(B, L[up])
                             ELSE B[n]]
<1>1. up \in N /\ up # l /\ l # None
  BY Sides DEF SearchTree
<1>2. /\ B[l] = {l} \cup Of(B, L[l]) \cup B[up] /\ B[up] = {up} \cup Of(B, L[up]) \cup Of(B, R[up])
      /\ Of(B, R[l]) = B[up] /\ up \in B[up]
  BY <1>1, Sides DEF SearchTree, Of
<1>3. \A n \in N : B[n] \subseteq N
  BY DEF SearchTree
<1>4. C \in [N -> SUBSET N]
  <2>1. Of(B, L[l]) \subseteq N /\ Of(B, L[up]) \subseteq N
    BY <1>1, <1>2, <1>3
  <2> QED  BY <1>1, <1>3, <2>1
<1>5. \A n \in N \ {l} : L[n] # up /\ R[n] # up
  BY <1>1, OnePlace
<1>6. L[up] \notin {l, up} /\ R[up] \notin {l, up} /\ L[l] \notin {l, up}
  <2>1. L[up] # up /\ R[up] # up /\ L[l] # l
    BY <1>1, Sides
  <2>2. L[l] # up
    BY <1>1, OnePlace
  <2>3. L[up] # l /\ R[up] # l
    <3>1. l \notin B[up]
      BY <1>2, Sides
    <3>2. l \in B[l] /\ B[up] \subseteq N
      BY <1>1, Sides
    <3>3. l \in {L[up], R[up]} => l \in B[up]
      BY <1>1, <1>2, <3>2 DEF Of
    <3> QED  BY <3>1, <3>3
  <2> QED  BY <2>1, <2>2, <2>3
<1>7. \A k \in (N \cup {None}) \ {l, up} : Of(C, k) = Of(B, k)
  BY DEF Of
<1>8. Of(C, up) = B[l] /\ Of(C, l) = {l} \cup Of(B, L[l]) \cup Of(B, L[up])
  BY <1>1 DEF Of, SearchTree
<1>9. \A n \in N : C[n] = Of(C, n)
  BY DEF Of, SearchTree
<1> HIDE DEF C
<1>10. \A n \in N : L[n] \in N \cup {None} /\ R[n] \in N \cup {None}
  BY DEF SearchTree
<1>11. ASSUME NEW n \in N \ {l, up}
       PROVE  /\ K[n] \in N \cup {None} /\ Of(C, K[n]) = Of(B, L[n])
              /\ M[n] \in N \cup {None} /\ Of(C, M[n]) = Of(B, R[n])
              /\ C[n] = B[n]
  <2>1. Of(B, l) = B[l] /\ Of(B, n) = B[n]
    BY <1>1 DEF Of, SearchTree
  <2>2. C[n] = B[n]
    BY <1>7, <1>9, <2>1
  <2>3. K[n] \in N \cup {None} /\ Of(C, K[n]) = Of(B, L[n])
    BY <1>1, <1>5, <1>7, <1>8, <1>10, <2>1
  <2>4. M[n] \in N \cup {None} /\ Of(C, M[n]) = Of(B, R[n])
    BY <1>1, <1>5, <1>7, <1>8, <1>10, <2>1
  <2> QED  BY <2>2, <2>3, <2>4
<1>12. /\ K[up] = l /\ M[up] = R[up] /\ K[l] = L[l] /\ M[l] = L[up]
  BY <1>1, <1>6
<1>13. /\ Of(C, K[up]) = {l} \cup Of(B, L[l]) \cup Of(B, L[up]) /\ Of(C, M[up]) = Of(B, R[up])
       /\ Of(C, K[l]) = Of(B, L[l]) /\ Of(C, M[l]) = Of(B, L[up])
  BY <1>1, <1>6, <1>7, <1>8, <1>10, <1>12
<1>14. /\ C[up] = {up} \cup Of(C, K[up]) \cup Of(C, M[up])
       /\ C[l] = {l} \cup Of(C, K[l]) \cup Of(C, M[l])
  BY <1>1, <1>2, <1>8, <1>9, <1>13
<1>15. /\ \A x \in Of(C, K[up]) : <<x, up>> \in T
       /\ \A x \in Of(C, M[up]) : <<up, x>> \in T
       /\ \A x \in Of(C, K[l]) : <<x, l>> \in T
       /\ \A x \in Of(C, M[l]) : <<l, x>> \in T
  <2>1. /\ \A x \in Of(B, L[l]) : <<x, l>> \in T
        /\ \A x \in B[up] : <<l, x>> \in T
        /\ \A x \in Of(B, L[up]) : <<x, up>> \in T
        /\ \A x \in Of(B, R[up]) : <<up, x>> \in T
    BY <1>1, <1>2 DEF SearchTree
  <2>2. Of(B, L[up]) \subseteq B[up] /\ Of(B, L[l]) \subseteq N
    BY <1>2, <1>3
  <2>3. \A x \in Of(B, L[l]) : <<x, up>> \in T
    <3>1. <<l, up>> \in T
      BY <1>2, <2>1
    <3> QED  BY <1>1, <2>1, <2>2, <3>1 DEF SearchTree, StrictOrder
  <2> QED  BY <1>2, <1>13, <2>1, <2>2, <2>3
<1>16. ASSUME NEW n \in N
       PROVE  /\ K[n] \in N \cup {None} /\ M[n] \in N \cup {None}
              /\ C[n] = {n} \cup Of(C, K[n]) \cup Of(C, M[n])
              /\ \A x \in Of(C, K[n]) : <<x, n>> \in T
              /\ \A x \in Of(C, M[n]) : <<n, x>> \in T
  <2>1. CASE n \notin {l, up}
    BY <1>11, <2>1 DEF SearchTree
  <2>2. CASE n = l
    BY <1>1, <1>10, <1>12, <1>14, <1>15, <2>2
  <2>3. CASE n = up
    BY <1>1, <1>10, <1>12, <1>14, <1>15, <2>3
  <2> QED  BY <2>1, <2>2, <2>3
<1>17. Of(C, IF r = l THEN up ELSE r) = N
  <2>1. r # up
    BY <1>1, OnePlace
  <2>2. r = l => B[l] = N
    BY <1>1 DEF Of
  <2> QED  BY <1>7, <1>8, <2>1, <2>2
<1>18. SearchTree(N, K, M, C, T)
  BY <1>4, <1>16 DEF SearchTree
<1> QED  BY <1>17, <1>18

\* A node with one child, or none, is taken out.
LEMMA TreeErase ==
  ASSUME NEW N, NEW L, NEW R, NEW B, NEW T, SearchTree(N, L, R, B, T),
         NEW r \in N \cup {None}, Of(B, r) = N,
         NEW l \in N, None \in {L[l], R[l]},
         NEW k, k = IF L[l] = None THEN R[l] ELSE L[l],
         NEW K, NEW M, NEW P, P = N \ {l},
         \A n \in P : /\ K[n] = IF L[n] = l THEN k ELSE L[n]
                     /\ M[n] = IF R[n] = l THEN k ELSE R[n]
  PROVE  \E C : SearchTree(P, K, M, C, T) /\ Of(C, IF r = l THEN k ELSE r) = P
<1> DEFINE C == [n \in P |-> B[n] \ {l}]
<1>1. l # None /\ k \in P \cup {None} /\ Of(B, k) \subseteq N \ {l}
  BY Sides DEF SearchTree
<1>2. B[l] = {l} \cup Of(B, k)
  BY DEF SearchTree, Of
<1>3. \A n \in P \cup {None} : Of(C, n) = Of(B, n) \ {l}
  BY DEF Of
<1>4. Of(C, k) = B[l] \ {l} /\ Of(B, l) = B[l]
  BY <1>1, <1>2, <1>3 DEF Of
<1>5. C \in [P -> SUBSET P]
  BY DEF SearchTree
<1>6. \A n \in P : C[n] = B[n] \ {l}
  OBVIOUS
<1> HIDE DEF C
<1>7. ASSUME NEW n \in P
      PROVE  /\ K[n] \in P \cup {None} /\ Of(C, K[n]) = Of(B, L[n]) \ {l}
             /\ M[n] \in P \cup {None} /\ Of(C, M[n]) = Of(B, R[n]) \ {l}
  <2>1. L[n] \in N \cup {None} /\ R[n] \in N \cup {None}
    BY DEF SearchTree
  <2> QED  BY <1>1, <1>3, <1>4, <2>1
<1>8. ASSUME NEW n \in P
      PROVE  /\ C[n] = {n} \cup Of(C, K[n]) \cup Of(C, M[n])
             /\ \A x \in Of(C, K[n]) : <<x, n>> \in T
             /\ \A x \in Of(C, M[n]) : <<n, x>> \in T
  <2>1. /\ B[n] = {n} \cup Of(B, L[n]) \cup Of(B, R[n])
        /\ \A x \in Of(B, L[n]) : <<x, n>> \in T
        /\ \A x \in Of(B, R[n]) : <<n, x>> \in T
    BY DEF SearchTree
  <2>2. C[n] = B[n] \ {l} /\ n # l
    BY <1>6
  <2>3. Of(C, K[n]) = Of(B, L[n]) \ {l} /\ Of(C, M[n]) = Of(B, R[n]) \ {l}
    BY <1>7
  <2>4. C[n] = {n} \cup Of(C, K[n]) \cup Of(C, M[n])
    BY <2>1, <2>2, <2>3
  <2> QED  BY <2>1, <2>3, <2>4
<1>9. IsFiniteSet(P) /\ None \notin P /\ StrictOrder(P, T)
  BY FS_Subset DEF SearchTree, StrictOrder
<1>10. SearchTree(P, K, M, C, T)
  BY <1>5, <1>7, <1>8, <1>9 DEF SearchTree
<1>11. Of(C, IF r = l THEN k ELSE r) = P
  BY <1>3, <1>4 DEF Of
<1> QED  BY <1>10, <1>11

\* A new node l becomes the child of p on the side s, where there was none, and
\* lies there in the order U.
NewLeaf(N, L, R, B, T, l, p, s, U, K, M) ==
  /\ l \notin N /\ l # None /\ p \in N /\ s \in {"left", "right"}
  /\ (IF s = "left" THEN L[p] ELSE R[p]) = None
  /\ StrictOrder(N \cup {l}, U)
  /\ \A x, y \in N : <<x, y>> \in T => <<x, y>> \in U
  /\ \A n \in N : /\ p \in Of(B, L[n]) => <<l, n>> \in U
                  /\ p \in Of(B, R[n]) => <<n, l>> \in U
  /\ s = "left" => <<l, p>> \in U
  /\ s = "right" => <<p, l>> \in U
  /\ K[l] = None /\ M[l] = None
  /\ \A n \in N : /\ K[n] = IF n = p /\ s = "left" THEN l ELSE L[n]
                  /\ M[n] = IF n = p /\ s = "right" THEN l ELSE R[n]

LEMMA TreeInsert ==
  ASSUME NEW N, NEW L, NEW R, NEW B, NEW T, SearchTree(N, L, R, B, T),
         NEW r \in N, Of(B, r) = N,
         NEW l, NEW p, NEW s, NEW U, NEW K, NEW M, NewLeaf(N, L, R, B, T, l, p, s, U, K, M),
         NEW P, P = N \cup {l}
  PROVE  \E C : SearchTree(P, K, M, C, U) /\ Of(C, r) = P
<1> USE DEF NewLeaf
<1> DEFINE C == [n \in P |-> IF n = l THEN {l}
                             ELSE IF p \in B[n] THEN B[n] \cup {l} ELSE B[n]]
<1>1. C \in [P -> SUBSET P] /\ Of(C, None) = {} /\ Of(C, l) = {l} /\ C[l] = {l}
  BY DEF SearchTree, Of
<1>2. \A n \in N : C[n] = IF p \in B[n] THEN B[n] \cup {l} ELSE B[n]
  OBVIOUS
<1>3. \A n \in N \cup {None} :
        Of(C, n) = IF p \in Of(B, n) THEN Of(B, n) \cup {l} ELSE Of(B, n)
  BY <1>1, <1>2 DEF Of
<1> HIDE DEF C
<1>4. ASSUME NEW n \in N
      PROVE  /\ K[n] \in P \cup {None} /\ M[n] \in P \cup {None}
             /\ C[n] = {n} \cup Of(C, K[n]) \cup Of(C, M[n])
             /\ \A x \in Of(C, K[n]) : <<x, n>> \in U
             /\ \A x \in Of(C, M[n]) : <<n, x>> \in U
  <2>1. /\ L[n] \in N \cup {None} /\ R[n] \in N \cup {None}
        /\ B[n] = {n} \cup Of(B, L[n]) \cup Of(B, R[n])
        /\ Of(B, L[n]) \subseteq N /\ Of(B, R[n]) \subseteq N
    BY Sides DEF SearchTree, Of
  <2>2. /\ \A x \in Of(B, L[n]) : <<x, n>> \in U
        /\ \A x \in Of(B, R[n]) : <<n, x>> \in U
    BY <2>1 DEF SearchTree
  <2>3. n \notin Of(B, L[n]) /\ n \notin Of(B, R[n])
    BY Sides
  <2>4. CASE n # p
    <3>1. K[n] = L[n] /\ M[n] = R[n]
      BY <2>4
    <3>2. /\ Of(C, K[n]) = IF p \in Of(B, L[n]) THEN Of(B, L[n]) \cup {l} ELSE Of(B, L[n])
          /\ Of(C, M[n]) = IF p \in Of(B, R[n]) THEN Of(B, R[n]) \cup {l} ELSE Of(B, R[n])
      BY <1>3, <2>1, <3>1
    <3>3. p \in B[n] <=> p \in Of(B, L[n]) \/ p \in Of(B, R[n])
      BY <2>1, <2>4
    <3>4. C[n] = {n} \cup Of(C, K[n]) \cup Of(C, M[n])
      BY <1>2, <2>1, <3>2, <3>3
    <3>5. /\ \A x \in Of(C, K[n]) : <<x, n>> \in U
          /\ \A x \in Of(C, M[n]) : <<n, x>> \in U
      BY <2>2, <3>2
    <3> QED  BY <2>1, <3>1, <3>4, <3>5
  <2>5. CASE n = p /\ s = "left"
    <3>1. K[n] = l /\ M[n] = R[n] /\ Of(B, L[n]) = {}
      BY <2>5 DEF Of
    <3> QED  BY <1>1, <1>2, <1>3, <2>1, <2>2, <2>3, <2>5, <3>1
  <2>6. CASE n = p /\ s = "right"
    <3>1. K[n] = L[n] /\ M[n] = l /\ Of(B, R[n]) = {}
      BY <2>6 DEF Of
    <3> QED  BY <1>1, <1>2, <1>3, <2>1, <2>2, <2>3, <2>6, <3>1
  <2> QED  BY <2>4, <2>5, <2>6
<1>5. IsFiniteSet(P) /\ None \notin P
  BY FS_AddElement DEF SearchTree
<1>6. ASSUME NEW n \in P
      PROVE  /\ K[n] \in P \cup {None} /\ M[n] \in P \cup {None}
             /\ C[n] = {n} \cup Of(C, K[n]) \cup Of(C, M[n])
             /\ \A x \in Of(C, K[n]) : <<x, n>> \in U
             /\ \A x \in Of(C, M[n]) : <<n, x>> \in U
  BY <1>1, <1>4
<1>7. SearchTree(P, K, M, C, U)
  BY <1>1, <1>5, <1>6 DEF SearchTree
<1>8. Of(C, r) = P
  BY <1>3
<1> QED  BY <1>7, <1>8

\* The tree of one node.
LEMMA TreeOfOne ==
  ASSUME NEW l, l # None, NEW K, NEW M, K[l] = None, M[l] = None,
         NEW U, StrictOrder({l}, U)
  PROVE  \E C : SearchTree({l}, K, M, C, U) /\ Of(C, l) = {l}
<1> DEFINE C == [n \in {l} |-> {l}]
<1>1. SearchTree({l}, K, M, C, U)
  BY FS_Singleton DEF SearchTree, Of
<1> QED  BY <1>1 DEF Of

-----------------------------------------------------------------------------
(* Recursion over a tree.                                                   *)

ValueAt(f, n, base) == IF n = None THEN base ELSE f[n]

\* The values that a relation gives to a node, and the relations that are closed
\* under a step from the children of a node to it.
Vals(Q, V, n, base) == IF n = None THEN {base} ELSE {v \in V : <<n, v>> \in Q}

Steps(Q, N, L, R, V, base, c) ==
  \A n \in N : \A a \in Vals(Q, V, L[n], base), b \in Vals(Q, V, R[n], base) :
    <<n, c[<<n, a, b>>]>> \in Q

Combines(c, N, V) == c \in [N \X V \X V -> V]

\* A function is defined by what it is of a node, given what it is of its children.
LEMMA TreeRecursion ==
  ASSUME NEW N, NEW L, NEW R, NEW B, NEW T, SearchTree(N, L, R, B, T),
         NEW V, NEW base \in V, NEW c, Combines(c, N, V)
  PROVE  \E f \in [N -> V] : \A n \in N : f[n] = c[<<n, ValueAt(f, L[n], base), ValueAt(f, R[n], base)>>]
<1> DEFINE G == {z \in N \X V : \A Q \in SUBSET (N \X V) :
                   Steps(Q, N, L, R, V, base, c) => z \in Q}
<1>1. \A n \in N, a, b \in V : c[<<n, a, b>>] \in V /\ <<n, c[<<n, a, b>>]>> \in N \X V
  BY DEF Combines
<1>2. \A n, Q : Vals(Q, V, n, base) \subseteq V
  BY DEF Vals
<1>3. ASSUME NEW Q \in SUBSET (N \X V), Steps(Q, N, L, R, V, base, c)
      PROVE  G \subseteq Q
  BY <1>3
<1>4. Steps(G, N, L, R, V, base, c)
  <2> SUFFICES ASSUME NEW n \in N, NEW a \in Vals(G, V, L[n], base),
                      NEW b \in Vals(G, V, R[n], base)
               PROVE  <<n, c[<<n, a, b>>]>> \in G
    BY DEF Steps
  <2>1. a \in V /\ b \in V
    BY <1>2
  <2>2. ASSUME NEW Q \in SUBSET (N \X V), Steps(Q, N, L, R, V, base, c)
        PROVE  <<n, c[<<n, a, b>>]>> \in Q
    <3>1. G \subseteq Q
      BY <1>3, <2>2
    <3> HIDE DEF G
    <3>2. a \in Vals(Q, V, L[n], base) /\ b \in Vals(Q, V, R[n], base)
      BY <3>1 DEF Vals
    <3> QED  BY <2>2, <3>2 DEF Steps
  <2> QED  BY <1>1, <2>1, <2>2
<1>5. G \subseteq N \X V
  OBVIOUS
<1> HIDE DEF G
<1> DEFINE P == {n \in N : \E v \in V : Vals(G, V, n, base) = {v}}
<1>6. ASSUME NEW n \in N, L[n] \in P \cup {None}, R[n] \in P \cup {None}
      PROVE  n \in P
  <2>1. PICK a \in V : Vals(G, V, L[n], base) = {a}
    BY <1>6 DEF Vals
  <2>2. PICK b \in V : Vals(G, V, R[n], base) = {b}
    BY <1>6 DEF Vals
  <2> DEFINE w == c[<<n, a, b>>]
  <2>3. w \in V /\ n # None
    BY <1>1 DEF SearchTree
  <2>4. w \in Vals(G, V, n, base)
    BY <1>4, <2>1, <2>2, <2>3 DEF Steps, Vals
  <2>5. ASSUME NEW v \in V, v # w, <<n, v>> \in G PROVE FALSE
    <3> DEFINE Q == G \ {<<n, v>>}
    <3>1. Q \in SUBSET (N \X V) /\ Q \subseteq G
      BY <1>5
    <3>2. ASSUME NEW j \in N, NEW d \in Vals(Q, V, L[j], base), NEW e \in Vals(Q, V, R[j], base)
          PROVE  <<j, c[<<j, d, e>>]>> \in Q
      <4>1. d \in Vals(G, V, L[j], base) /\ e \in Vals(G, V, R[j], base)
        BY DEF Vals
      <4>2. <<j, c[<<j, d, e>>]>> \in G
        BY <1>4, <4>1 DEF Steps
      <4>3. j = n => d = a /\ e = b
        BY <2>1, <2>2, <4>1
      <4>4. <<j, c[<<j, d, e>>]>> # <<n, v>>
        BY <2>5, <4>3
      <4> QED  BY <4>2, <4>4
    <3> HIDE DEF Q
    <3>3. Steps(Q, N, L, R, V, base, c)
      BY <3>2 DEF Steps
    <3>4. G \subseteq Q
      BY <1>3, <3>1, <3>3
    <3> QED  BY <2>5, <3>4 DEF Q
  <2> HIDE DEF w
  <2>6. Vals(G, V, n, base) = {w}
    BY <2>3, <2>4, <2>5 DEF Vals
  <2> QED  BY <2>3, <2>6
<1> HIDE DEF P
<1>7. N \subseteq P
  BY <1>6, TreeInduction
<1> DEFINE f == [n \in N |-> CHOOSE v \in V : Vals(G, V, n, base) = {v}]
<1>8. \A n \in N : f[n] \in V /\ Vals(G, V, n, base) = {f[n]}
  BY <1>7 DEF P
<1>9. f \in [N -> V]
  BY <1>8
<1> HIDE DEF f
<1>10. ASSUME NEW n \in N PROVE f[n] = c[<<n, ValueAt(f, L[n], base), ValueAt(f, R[n], base)>>]
  <2>1. L[n] \in N \cup {None} /\ R[n] \in N \cup {None} /\ n # None
    BY DEF SearchTree
  <2>2. /\ ValueAt(f, L[n], base) \in Vals(G, V, L[n], base)
        /\ ValueAt(f, R[n], base) \in Vals(G, V, R[n], base)
    BY <1>8, <2>1 DEF ValueAt, Vals
  <2>3. <<n, c[<<n, ValueAt(f, L[n], base), ValueAt(f, R[n], base)>>]>> \in G
    BY <1>4, <2>2 DEF Steps
  <2>4. c[<<n, ValueAt(f, L[n], base), ValueAt(f, R[n], base)>>] \in V
    BY <1>1, <1>2, <2>2
  <2>5. c[<<n, ValueAt(f, L[n], base), ValueAt(f, R[n], base)>>] \in Vals(G, V, n, base)
    BY <2>1, <2>3, <2>4 DEF Vals
  <2> QED  BY <1>8, <2>5
<1> QED  BY <1>9, <1>10

-----------------------------------------------------------------------------
(* The shape of the tree.                                                   *)

OrderOf(N, S, E) == {z \in N \X N : E[z[1]] <= S[z[2]]}

Extents(N, S, E) ==
  /\ \A l \in N : S[l] \in Nat /\ E[l] \in Nat /\ S[l] < E[l]
  /\ \A l, n \in N : l = n \/ E[l] <= S[n] \/ E[n] <= S[l]

BelowIn(N, L, R, n) ==
  IF n = None THEN {}
  ELSE {l \in N : \A C \in SUBSET N :
          n \in C /\ (\A x \in C : {L[x], R[x]} \ {None} \subseteq C) => l \in C}

LEMMA ExtentOrder ==
  ASSUME NEW N, NEW S, NEW E, Extents(N, S, E)
  PROVE  StrictOrder(N, OrderOf(N, S, E))
<1>1. \A x, y \in N : <<x, y>> \in OrderOf(N, S, E) <=> E[x] <= S[y]
  BY DEF OrderOf
<1>2. \A x \in N : S[x] \in Nat /\ E[x] \in Nat /\ S[x] < E[x]
  BY DEF Extents
<1> QED  BY <1>1, <1>2 DEF StrictOrder

\* What is below a node is what the tree has there.
LEMMA BelowIs ==
  ASSUME NEW N, NEW L, NEW R, NEW B, NEW T, SearchTree(N, L, R, B, T),
         NEW n \in N \cup {None}
  PROVE  BelowIn(N, L, R, n) = Of(B, n)
<1> DEFINE Closed(C) == \A x \in C : {L[x], R[x]} \ {None} \subseteq C
<1>1. CASE n = None
  BY <1>1 DEF BelowIn, Of
<1>2. CASE n \in N
  <2>1. n # None /\ B[n] \in SUBSET N /\ n \in B[n]
    BY <1>2, Sides DEF SearchTree
  <2>2. Closed(B[n])
    <3>1. ASSUME NEW x \in B[n], NEW y \in {L[x], R[x]} \ {None} PROVE y \in B[n]
      <4>1. x \in N /\ B[x] \subseteq B[n]
        BY <1>2, <2>1, Nested
      <4>2. y \in N /\ y \in B[y] /\ B[y] \subseteq B[x]
        <5>1. y \in N
          BY <4>1 DEF SearchTree
        <5>2. B[y] = Of(B, y)
          BY <3>1 DEF Of
        <5> QED  BY <4>1, <5>1, <5>2, Sides
      <4> QED  BY <4>1, <4>2
    <3> QED  BY <3>1
  <2>3. ASSUME NEW C \in SUBSET N, n \in C, Closed(C) PROVE B[n] \subseteq C
    <3> DEFINE P == {j \in N : j \in C => B[j] \subseteq C}
    <3>1. ASSUME NEW j \in N, L[j] \in P \cup {None}, R[j] \in P \cup {None}
          PROVE  j \in P
      <4> SUFFICES ASSUME j \in C PROVE B[j] \subseteq C
        OBVIOUS
      <4>1. Of(B, L[j]) \subseteq C
        BY <2>3, <3>1 DEF Of
      <4>2. Of(B, R[j]) \subseteq C
        BY <2>3, <3>1 DEF Of
      <4> QED  BY <4>1, <4>2 DEF SearchTree
    <3> HIDE DEF P
    <3>2. N \subseteq P
      BY <3>1, TreeInduction
    <3> QED  BY <1>2, <2>3, <3>2 DEF P
  <2>4. BelowIn(N, L, R, n) \subseteq B[n]
    BY <2>1, <2>2 DEF BelowIn
  <2>5. B[n] \subseteq BelowIn(N, L, R, n)
    BY <2>1, <2>3 DEF BelowIn
  <2> QED  BY <2>1, <2>4, <2>5 DEF Of
<1> QED  BY <1>1, <1>2

\* What is below a node is the node and what is below its children.
LEMMA BelowSplit ==
  ASSUME NEW N, None \notin N, NEW L, NEW R,
         \A x \in N : L[x] \in N \cup {None} /\ R[x] \in N \cup {None},
         NEW n \in N
  PROVE  BelowIn(N, L, R, n) = {n} \cup BelowIn(N, L, R, L[n]) \cup BelowIn(N, L, R, R[n])
<1> DEFINE Closed(C) == \A x \in C : {L[x], R[x]} \ {None} \subseteq C
           A(k) == BelowIn(N, L, R, k)
           D == {n} \cup A(L[n]) \cup A(R[n])
<1>1. \A k : A(k) \in SUBSET N
  BY DEF BelowIn
<1>2. \A k \in N : /\ k \in A(k)
                   /\ \A C \in SUBSET N : k \in C /\ Closed(C) => A(k) \subseteq C
  BY DEF BelowIn
<1>3. ASSUME NEW k \in N \cup {None} PROVE Closed(A(k))
  <2> SUFFICES ASSUME NEW x \in A(k), NEW y \in {L[x], R[x]} \ {None} PROVE y \in A(k)
    OBVIOUS
  <2>1. k # None /\ y \in N
    BY <1>1 DEF BelowIn
  <2>2. ASSUME NEW C \in SUBSET N, k \in C, Closed(C) PROVE y \in C
    <3>1. x \in C
      BY <2>1, <2>2 DEF BelowIn
    <3> QED  BY <2>2, <3>1
  <2> QED  BY <2>1, <2>2 DEF BelowIn
<1>4. D \in SUBSET N
  BY <1>1
<1>5. Closed(D)
  <2> SUFFICES ASSUME NEW x \in D, NEW y \in {L[x], R[x]} \ {None} PROVE y \in D
    OBVIOUS
  <2>1. CASE x = n
    <3>1. y \in A(y)
      BY <1>2, <1>4
    <3> QED  BY <2>1, <3>1
  <2>2. CASE x \in A(L[n])
    BY <1>3, <2>2
  <2>3. CASE x \in A(R[n])
    BY <1>3, <2>3
  <2> QED  BY <2>1, <2>2, <2>3
<1>6. A(n) \subseteq D
  <2>1. n \in D
    OBVIOUS
  <2> HIDE DEF D, A, Closed
  <2> QED  BY <1>2, <1>4, <1>5, <2>1
<1>7. D \subseteq A(n)
  <2>1. n \in A(n) /\ Closed(A(n)) /\ A(n) \in SUBSET N
    BY <1>1, <1>2, <1>3
  <2>2. A(L[n]) \subseteq A(n)
    <3>1. CASE L[n] = None
      BY <3>1 DEF BelowIn
    <3>2. CASE L[n] \in N
      <4>1. L[n] \in A(n)
        BY <2>1, <3>2
      <4> QED  BY <1>2, <2>1, <3>2, <4>1
    <3> QED  BY <3>1, <3>2
  <2>3. A(R[n]) \subseteq A(n)
    <3>1. CASE R[n] = None
      BY <3>1 DEF BelowIn
    <3>2. CASE R[n] \in N
      <4>1. R[n] \in A(n)
        BY <2>1, <3>2
      <4> QED  BY <1>2, <2>1, <3>2, <4>1
    <3> QED  BY <3>1, <3>2
  <2> QED  BY <2>1, <2>2, <2>3
<1> QED  BY <1>6, <1>7

\* What TreeShape says of linked, left, right, root and the extents.
Shape(N, L, R, r, S, E) ==
  /\ IsFiniteSet(N) /\ Extents(N, S, E)
  /\ r \in N \cup {None} /\ BelowIn(N, L, R, r) = N
  /\ \A n \in N : /\ \A l \in BelowIn(N, L, R, L[n]) : E[l] <= S[n]
                  /\ \A l \in BelowIn(N, L, R, R[n]) : E[n] <= S[l]

LEMMA TreeOfShape ==
  ASSUME NEW N, None \notin N, NEW L, NEW R,
         \A x \in N : L[x] \in N \cup {None} /\ R[x] \in N \cup {None},
         NEW r, NEW S, NEW E, Shape(N, L, R, r, S, E)
  PROVE  \E B : SearchTree(N, L, R, B, OrderOf(N, S, E)) /\ Of(B, r) = N
<1> DEFINE B == [n \in N |-> BelowIn(N, L, R, n)]
<1>1. \A n \in N \cup {None} : Of(B, n) = BelowIn(N, L, R, n) /\ Of(B, n) \subseteq N
  BY DEF Of, BelowIn
<1>2. B \in [N -> SUBSET N]
  BY DEF BelowIn
<1>3. \A n \in N : B[n] = BelowIn(N, L, R, n)
  OBVIOUS
<1> HIDE DEF B
<1>4. ASSUME NEW n \in N
      PROVE  /\ B[n] = {n} \cup Of(B, L[n]) \cup Of(B, R[n])
             /\ \A x \in Of(B, L[n]) : <<x, n>> \in OrderOf(N, S, E)
             /\ \A x \in Of(B, R[n]) : <<n, x>> \in OrderOf(N, S, E)
  <2>1. B[n] = {n} \cup Of(B, L[n]) \cup Of(B, R[n])
    BY <1>1, <1>3, BelowSplit
  <2>2. /\ \A x \in Of(B, L[n]) : x \in N /\ E[x] <= S[n]
        /\ \A x \in Of(B, R[n]) : x \in N /\ E[n] <= S[x]
    BY <1>1 DEF Shape
  <2> QED  BY <2>1, <2>2 DEF OrderOf
<1>5. IsFiniteSet(N) /\ StrictOrder(N, OrderOf(N, S, E))
  BY ExtentOrder DEF Shape
<1>6. SearchTree(N, L, R, B, OrderOf(N, S, E))
  BY <1>2, <1>4, <1>5 DEF SearchTree
<1> QED  BY <1>1, <1>6 DEF Shape

LEMMA ShapeOfTree ==
  ASSUME NEW N, NEW L, NEW R, NEW r \in N \cup {None}, NEW S, NEW E, Extents(N, S, E),
         NEW B, SearchTree(N, L, R, B, OrderOf(N, S, E)), Of(B, r) = N
  PROVE  Shape(N, L, R, r, S, E)
<1>1. \A n \in N \cup {None} : BelowIn(N, L, R, n) = Of(B, n)
  BY BelowIs
<1>2. ASSUME NEW n \in N
      PROVE  /\ \A l \in BelowIn(N, L, R, L[n]) : E[l] <= S[n]
             /\ \A l \in BelowIn(N, L, R, R[n]) : E[n] <= S[l]
  <2>1. L[n] \in N \cup {None} /\ R[n] \in N \cup {None}
    BY DEF SearchTree
  <2>2. /\ \A l \in Of(B, L[n]) : <<l, n>> \in OrderOf(N, S, E)
        /\ \A l \in Of(B, R[n]) : <<n, l>> \in OrderOf(N, S, E)
    BY DEF SearchTree
  <2> QED  BY <1>1, <2>1, <2>2 DEF OrderOf
<1> QED  BY <1>1, <1>2 DEF Shape, SearchTree

\* The types of the variables, and nothing of the tree.
TreeTypes ==
  /\ root \in linked \cup {None} /\ linked \subseteq Lp
  /\ left \in [Lp -> linked \cup {None}] /\ right \in [Lp -> linked \cup {None}]
  /\ start_page \in [Lp -> 0..NrPages] /\ end_page \in [Lp -> 0..NrPages + 1]

TreeInd == TreeTypes /\ TreeShape

LEMMA ShapeIs ==
  root \in linked \cup {None}
    => (TreeShape <=>
          /\ IsFiniteSet(linked)
          /\ \A l \in linked : start_page[l] < end_page[l]
          /\ \A l, n \in linked :
               l = n \/ end_page[l] <= start_page[n] \/ end_page[n] <= start_page[l]
          /\ BelowIn(linked, left, right, root) = linked
          /\ \A n \in linked :
               /\ \A l \in BelowIn(linked, left, right, left[n]) : end_page[l] <= start_page[n]
               /\ \A l \in BelowIn(linked, left, right, right[n]) : end_page[n] <= start_page[l]
          /\ \A l \in Lp \ linked : left[l] = None /\ right[l] = None)
  BY DEF TreeShape, Below, BelowIn, Precedes

LEMMA IndGives ==
  ASSUME TreeInd
  PROVE  /\ Extents(linked, start_page, end_page) /\ None \notin linked
         /\ \A l \in Lp \ linked : left[l] = None /\ right[l] = None
         /\ \E B : /\ SearchTree(linked, left, right, B, OrderOf(linked, start_page, end_page))
                   /\ Of(B, root) = linked
<1>1. /\ None \notin linked /\ TreeTypes /\ TreeShape
      /\ \A x \in linked : left[x] \in linked \cup {None} /\ right[x] \in linked \cup {None}
  BY LpTreeAssumption DEF TreeInd, TreeTypes
<1>2. \A l \in linked : start_page[l] \in Nat /\ end_page[l] \in Nat
  BY LpTreeAssumption DEF TreeInd, TreeTypes
<1>3. Extents(linked, start_page, end_page)
  BY <1>1, <1>2, ShapeIs DEF Extents, TreeTypes
<1>4. Shape(linked, left, right, root, start_page, end_page)
  BY <1>1, <1>3, ShapeIs DEF Shape, TreeTypes
<1>5. \A l \in Lp \ linked : left[l] = None /\ right[l] = None
  BY <1>1, ShapeIs DEF TreeTypes
<1> QED  BY <1>1, <1>3, <1>4, <1>5, TreeOfShape

LEMMA GivesInd ==
  ASSUME TreeTypes', Extents(linked', start_page', end_page'),
         \A l \in Lp \ linked' : left'[l] = None /\ right'[l] = None,
         NEW B, SearchTree(linked', left', right', B, OrderOf(linked', start_page', end_page')),
         Of(B, root') = linked'
  PROVE  TreeInd'
<1>1. root' \in linked' \cup {None}
  BY DEF TreeTypes
<1>2. Shape(linked', left', right', root', start_page', end_page')
  BY <1>1, ShapeOfTree
<1>3. /\ IsFiniteSet(linked')
      /\ \A l \in linked' : start_page'[l] < end_page'[l]
      /\ \A l, n \in linked' :
           l = n \/ end_page'[l] <= start_page'[n] \/ end_page'[n] <= start_page'[l]
      /\ BelowIn(linked', left', right', root') = linked'
      /\ \A n \in linked' :
           /\ \A l \in BelowIn(linked', left', right', left'[n]) : end_page'[l] <= start_page'[n]
           /\ \A l \in BelowIn(linked', left', right', right'[n]) : end_page'[n] <= start_page'[l]
  BY <1>2 DEF Shape, Extents
<1>4. TreeShape'
  BY <1>3 DEF TreeShape, Below, BelowIn, Precedes
<1> QED  BY <1>4 DEF TreeInd

-----------------------------------------------------------------------------
(* Where a new record is put.                                               *)

\* The place <<p, s>> is below the node n, where a search with the record on the
\* left of W and on the right of the rest ends.
IsPlace(z, N, L, R, B, W, n) ==
  /\ z \in N \X {"left", "right"} /\ z[1] \in B[n]
  /\ (IF z[2] = "left" THEN L[z[1]] ELSE R[z[1]]) = None
  /\ z[2] = "left" <=> z[1] \in W
  /\ \A x \in B[n] : /\ z[1] \in Of(B, L[x]) => x \in W
                     /\ z[1] \in Of(B, R[x]) => x \notin W

\* One step of the search.
PlaceAt(g, l, L, R, W) ==
  LET side == IF l \in W THEN "left" ELSE "right"
      child == IF side = "left" THEN L[l] ELSE R[l] IN
    IF child = None THEN <<l, side>> ELSE g[child]

PlaceMap(g, N, L, R, W) ==
  g \in [N -> N \X {"left", "right"}] /\ \A l \in N : g[l] = PlaceAt(g, l, L, R, W)

LEMMA PlaceExists ==
  ASSUME NEW N, NEW L, NEW R, NEW B, NEW T, SearchTree(N, L, R, B, T), NEW W, N # {}
  PROVE  \E g : PlaceMap(g, N, L, R, W)
<1> DEFINE side(l) == IF l \in W THEN "left" ELSE "right"
           child(l) == IF side(l) = "left" THEN L[l] ELSE R[l]
           V == N \X {"left", "right"}
           c == [z \in N \X V \X V |->
                   IF child(z[1]) = None THEN <<z[1], side(z[1])>>
                   ELSE IF z[1] \in W THEN z[2] ELSE z[3]]
<1>1. Combines(c, N, V)
  BY DEF Combines
<1>2. PICK b : b \in V
  <2>1. PICK n : n \in N
    OBVIOUS
  <2>2. <<n, "left">> \in V
    BY <2>1
  <2> QED  BY <2>2
<1>3. PICK g \in [N -> V] : \A l \in N : g[l] = c[<<l, ValueAt(g, L[l], b), ValueAt(g, R[l], b)>>]
  <2> HIDE DEF c, V
  <2> QED  BY <1>1, <1>2, TreeRecursion
<1>4. ASSUME NEW l \in N PROVE g[l] = PlaceAt(g, l, L, R, W)
  <2>1. L[l] \in N \cup {None} /\ R[l] \in N \cup {None} /\ None \notin N
    BY DEF SearchTree
  <2>2. ValueAt(g, L[l], b) \in V /\ ValueAt(g, R[l], b) \in V
    BY <1>2, <2>1 DEF ValueAt
  <2>3. g[l] = IF child(l) = None THEN <<l, side(l)>>
               ELSE IF l \in W THEN ValueAt(g, L[l], b) ELSE ValueAt(g, R[l], b)
    BY <1>3, <2>2
  <2> QED  BY <2>3 DEF ValueAt, PlaceAt
<1> QED  BY <1>3, <1>4 DEF PlaceMap

LEMMA PlaceFound ==
  ASSUME NEW N, NEW L, NEW R, NEW B, NEW T, SearchTree(N, L, R, B, T), NEW W,
         NEW g, \A l \in N : g[l] = PlaceAt(g, l, L, R, W), NEW n \in N
  PROVE  IsPlace(g[n], N, L, R, B, W, n)
<1> DEFINE side(l) == IF l \in W THEN "left" ELSE "right"
           child(l) == IF side(l) = "left" THEN L[l] ELSE R[l]
<1>1. \A l \in N : g[l] = IF child(l) = None THEN <<l, side(l)>> ELSE g[child(l)]
  BY DEF PlaceAt
<1> DEFINE P == {l \in N : IsPlace(g[l], N, L, R, B, W, l)}
<1>2. ASSUME NEW l \in N, L[l] \in P \cup {None}, R[l] \in P \cup {None}
      PROVE  IsPlace(g[l], N, L, R, B, W, l)
  <2>1. /\ B[l] = {l} \cup Of(B, L[l]) \cup Of(B, R[l]) /\ B[l] \subseteq N
        /\ l \notin Of(B, L[l]) /\ l \notin Of(B, R[l]) /\ Of(B, L[l]) \cap Of(B, R[l]) = {}
    <3>1. B[l] = {l} \cup Of(B, L[l]) \cup Of(B, R[l])
      BY DEF SearchTree
    <3> HIDE DEF P
    <3> QED  BY <3>1, Sides
  <2>2. /\ \A x \in Of(B, L[l]) : Of(B, L[x]) \subseteq Of(B, L[l])
                                  /\ Of(B, R[x]) \subseteq Of(B, L[l])
        /\ \A x \in Of(B, R[l]) : Of(B, L[x]) \subseteq Of(B, R[l])
                                  /\ Of(B, R[x]) \subseteq Of(B, R[l])
    <3>1. ASSUME NEW k \in {L[l], R[l]}, NEW x \in Of(B, k)
          PROVE  Of(B, L[x]) \subseteq Of(B, k) /\ Of(B, R[x]) \subseteq Of(B, k)
      <4>1. k \in N /\ Of(B, k) = B[k] /\ x \in B[k]
        BY DEF Of, SearchTree
      <4>2. x \in N /\ B[x] \subseteq B[k]
        BY <2>1, <4>1, Nested
      <4> QED  BY <4>1, <4>2, Sides
    <3> QED  BY <3>1
  <2>3. CASE child(l) = None
    <3>1. g[l] = <<l, side(l)>>
      BY <1>1, <2>3
    <3>2. \A x \in B[l] : l \notin Of(B, L[x]) /\ l \notin Of(B, R[x])
      BY <2>1, <2>2
    <3> QED  BY <2>1, <2>3, <3>1, <3>2 DEF IsPlace
  <2>4. CASE child(l) # None
    <3> DEFINE k == child(l)
    <3>1. k \in N /\ IsPlace(g[k], N, L, R, B, W, k) /\ g[l] = g[k] /\ Of(B, k) = B[k]
      BY <1>1, <1>2, <2>4 DEF Of
    <3> DEFINE p == g[l][1]
    <3>2. p \in B[k] /\ p \in Of(B, k)
      BY <3>1 DEF IsPlace
    <3>3. ASSUME NEW x \in B[l]
          PROVE  /\ p \in Of(B, L[x]) => x \in W
                 /\ p \in Of(B, R[x]) => x \notin W
      <4>1. CASE x = l
        <5>1. l \in W => k = L[l]
          OBVIOUS
        <5>2. l \notin W => k = R[l]
          OBVIOUS
        <5> HIDE DEF k
        <5> QED  BY <2>1, <3>2, <4>1, <5>1, <5>2
      <4>2. CASE x \in B[k]
        BY <3>1, <4>2 DEF IsPlace
      <4>3. CASE x # l /\ x \notin B[k]
        <5>1. CASE l \in W
          BY <2>1, <2>2, <3>1, <3>2, <4>3, <5>1
        <5>2. CASE l \notin W
          BY <2>1, <2>2, <3>1, <3>2, <4>3, <5>2
        <5> QED  BY <5>1, <5>2
      <4> QED  BY <4>1, <4>2, <4>3
    <3>4. p \in B[l]
      BY <2>1, <3>2
    <3> QED  BY <3>1, <3>3, <3>4 DEF IsPlace
  <2> QED  BY <2>3, <2>4
<1>3. \A l \in N : L[l] \in P \cup {None} /\ R[l] \in P \cup {None} => l \in P
  BY <1>2
<1> HIDE DEF P
<1>4. N \subseteq P
  BY <1>3, TreeInduction
<1> QED  BY <1>4 DEF P

LEMMA PlaceIs ==
  ASSUME NEW B, NEW T, SearchTree(linked, left, right, B, T), root \in linked, NEW end
  PROVE  IsPlace(Place(end), linked, left, right, B, {x \in linked : end <= start_page[x]}, root)
<1> DEFINE W == {x \in linked : end <= start_page[x]}
           F(f) == [l \in linked |->
                      LET side == IF GoesLeft(end, l) THEN "left" ELSE "right"
                          child == IF side = "left" THEN left[l] ELSE right[l] IN
                        IF child = None THEN <<l, side>> ELSE f[child]]
           g == CHOOSE f : f = F(f)
<1>1. \A l \in linked : GoesLeft(end, l) <=> l \in W
  BY DEF GoesLeft
<1> HIDE DEF W
<1>2. PICK h : PlaceMap(h, linked, left, right, W)
  <2>1. linked # {}
    OBVIOUS
  <2> QED  BY <2>1, PlaceExists
<1>3. h = F(h)
  BY <1>1, <1>2 DEF PlaceMap, PlaceAt
<1>4. g = F(g)
  BY <1>3
<1>5. \A l \in linked : g[l] = PlaceAt(g, l, left, right, W)
  <2> HIDE DEF g
  <2> QED  BY <1>1, <1>4 DEF PlaceAt
<1>6. Place(end) = g[root]
  BY DEF Place
<1> HIDE DEF g
<1>7. IsPlace(g[root], linked, left, right, B, W, root)
  BY <1>5, PlaceFound
<1> QED  BY <1>6, <1>7 DEF W

-----------------------------------------------------------------------------
(* The steps.                                                               *)

LEMMA InsertStep ==
  ASSUME TreeInd, NEW l \in Lp \ linked, NEW a, NEW b, log_page_insert(l, a, b),
         start_page' \in [Lp -> 0..NrPages], end_page' \in [Lp -> 0..NrPages + 1],
         Extents(linked \cup {l}, start_page', end_page'),
         \A x \in linked : /\ start_page'[x] = start_page[x] /\ end_page'[x] <= end_page[x]
                           /\ b <= start_page[x] => end_page'[l] <= start_page'[x]
                           /\ ~(b <= start_page[x]) => end_page'[x] <= start_page'[l]
  PROVE  TreeInd'
<1> DEFINE N == linked \cup {l}
           T == OrderOf(linked, start_page, end_page)
           U == OrderOf(N, start_page', end_page')
           W == {x \in linked : b <= start_page[x]}
<1>1. PICK B : SearchTree(linked, left, right, B, T) /\ Of(B, root) = linked
  BY IndGives
<1>2. /\ TreeTypes /\ None \notin linked /\ l # None /\ linked' = N /\ N \subseteq Lp
      /\ \A x \in Lp \ linked : left[x] = None /\ right[x] = None
  BY IndGives, LpTreeAssumption DEF TreeInd, TreeTypes, log_page_insert
<1>3. StrictOrder(N, U)
  BY ExtentOrder
<1>4. \A x, y \in linked : <<x, y>> \in T => <<x, y>> \in U
  <2>1. ASSUME NEW x \in linked, NEW y \in linked, end_page[x] <= start_page[y]
        PROVE  end_page'[x] <= start_page'[y]
    <3>1. /\ end_page'[x] \in Int /\ end_page[x] \in Int /\ start_page[y] \in Int
          /\ start_page'[y] = start_page[y] /\ end_page'[x] <= end_page[x]
      BY <1>2, LpTreeAssumption DEF TreeTypes
    <3> QED  BY <2>1, <3>1
  <2> QED  BY <2>1 DEF OrderOf
<1>5. \A x \in linked : /\ x \in W => <<l, x>> \in U
                        /\ x \notin W => <<x, l>> \in U
  BY DEF OrderOf
<1>6. CASE root = None
  <2>1. linked = {} /\ root' = l /\ left' = left /\ right' = right
    BY <1>1, <1>6 DEF Of, log_page_insert
  <2> HIDE DEF U
  <2>2. left[l] = None /\ right[l] = None /\ N = {l} /\ StrictOrder({l}, U)
    BY <1>2, <1>3, <2>1
  <2>3. PICK C : SearchTree({l}, left, right, C, U) /\ Of(C, l) = {l}
    BY <1>2, <2>2, TreeOfOne
  <2>4. TreeTypes'
    BY <1>2, <2>1 DEF TreeTypes
  <2> HIDE DEF U
  <2>5. SearchTree(linked', left', right', C, U) /\ Of(C, root') = linked'
    BY <1>2, <2>1, <2>2, <2>3
  <2>6. Extents(linked', start_page', end_page') /\ \A x \in Lp \ linked' : left'[x] = None /\ right'[x] = None
    BY <1>2, <2>1
  <2>7. U = OrderOf(linked', start_page', end_page')
    BY <1>2 DEF U
  <2> QED  BY <2>4, <2>5, <2>6, <2>7, GivesInd
<1>7. CASE root # None
  <2>1. root \in linked
    BY <1>2, <1>7 DEF TreeTypes
  <2>2. IsPlace(Place(b), linked, left, right, B, W, root)
    BY <1>1, <2>1, PlaceIs
  <2> DEFINE p == Place(b)[1]
             s == Place(b)[2]
  <2>3. /\ p \in linked /\ s \in {"left", "right"} /\ p # l
        /\ root' = root
        /\ left' = IF s = "left" THEN [left EXCEPT ![p] = l] ELSE left
        /\ right' = IF s = "right" THEN [right EXCEPT ![p] = l] ELSE right
    BY <1>2, <1>7, <2>2 DEF log_page_insert, IsPlace
  <2>4. /\ (IF s = "left" THEN left[p] ELSE right[p]) = None
        /\ s = "left" <=> p \in W
        /\ \A x \in linked : /\ p \in Of(B, left[x]) => x \in W
                             /\ p \in Of(B, right[x]) => x \notin W
    BY <1>1, <2>1, <2>2 DEF IsPlace, Of
  <2> HIDE DEF p, s, W
  <2>5. left \in [Lp -> linked \cup {None}] /\ right \in [Lp -> linked \cup {None}] /\ linked \subseteq Lp
    BY <1>2 DEF TreeTypes
  <2>6. /\ \A x \in Lp : /\ left'[x] = IF x = p /\ s = "left" THEN l ELSE left[x]
                         /\ right'[x] = IF x = p /\ s = "right" THEN l ELSE right[x]
        /\ left' \in [Lp -> N \cup {None}] /\ right' \in [Lp -> N \cup {None}]
    BY <2>3, <2>5
  <2>7. left'[l] = None /\ right'[l] = None
    BY <1>2, <2>3, <2>6
  <2>8. /\ \A x \in linked : /\ p \in Of(B, left[x]) => <<l, x>> \in U
                             /\ p \in Of(B, right[x]) => <<x, l>> \in U
        /\ s = "left" => <<l, p>> \in U
        /\ s = "right" => <<p, l>> \in U
    BY <1>5, <2>3, <2>4
  <2>9. \A x \in linked : /\ left'[x] = IF x = p /\ s = "left" THEN l ELSE left[x]
                          /\ right'[x] = IF x = p /\ s = "right" THEN l ELSE right[x]
    BY <2>5, <2>6
  <2> HIDE DEF U, T
  <2>a. NewLeaf(linked, left, right, B, T, l, p, s, U, left', right')
    BY <1>2, <1>3, <1>4, <2>3, <2>4, <2>7, <2>8, <2>9 DEF NewLeaf
  <2>b. linked' = linked \cup {l}
    BY <1>2
  <2> HIDE DEF N
  <2>10. PICK C : SearchTree(linked', left', right', C, U) /\ Of(C, root) = linked'
    BY <1>1, <2>1, <2>a, <2>b, TreeInsert
  <2>11. TreeTypes'
    BY <1>2, <2>3, <2>6 DEF TreeTypes, N
  <2>12. /\ Extents(linked', start_page', end_page')
         /\ \A x \in Lp \ linked' : left'[x] = None /\ right'[x] = None
    BY <1>2, <2>3, <2>6 DEF N
  <2>13. SearchTree(linked', left', right', C, OrderOf(linked', start_page', end_page'))
         /\ Of(C, root') = linked'
    BY <1>2, <2>3, <2>10 DEF U
  <2> QED  BY <2>11, <2>12, <2>13, GivesInd
<1> QED  BY <1>6, <1>7

\* The tree stays one when the order grows, or the extents shrink.
LEMMA SameOrder ==
  ASSUME NEW N, NEW L, NEW R, NEW B, NEW S, NEW E,
         SearchTree(N, L, R, B, OrderOf(N, S, E)),
         NEW U, NEW V, Extents(N, U, V), \A x, y \in N : E[x] <= S[y] => V[x] <= U[y]
  PROVE  SearchTree(N, L, R, B, OrderOf(N, U, V))
<1>1. StrictOrder(N, OrderOf(N, U, V))
  BY ExtentOrder
<1>2. \A x, y \in N : <<x, y>> \in OrderOf(N, S, E) => <<x, y>> \in OrderOf(N, U, V)
  BY DEF OrderOf
<1> HIDE DEF OrderOf
<1> QED  BY <1>1, <1>2, TreeOrder

LEMMA ShrinkStep ==
  ASSUME TreeInd, NEW l \in Lp, NEW p \in Page, ShrinkHead(l, p) \/ ShrinkTail(l, p)
  PROVE  TreeInd'
<1>1. PICK B : /\ SearchTree(linked, left, right, B, OrderOf(linked, start_page, end_page))
               /\ Of(B, root) = linked
  BY IndGives
<1>2. /\ Extents(linked, start_page, end_page) /\ TreeTypes /\ p \in Nat /\ p <= NrPages
      /\ \A x \in Lp \ linked : left[x] = None /\ right[x] = None
  BY IndGives, LpTreeAssumption DEF TreeInd, Page
<1>3. UNCHANGED <<root, left, right, linked>> /\ l \in linked
  BY DEF ShrinkHead, ShrinkTail, shape
<1>4. /\ \A x \in Lp : start_page[x] \in 0..NrPages /\ end_page[x] \in 0..NrPages + 1
      /\ NrPages \in Nat
  BY <1>2, LpTreeAssumption DEF TreeTypes
<1>5. /\ \A x \in Lp : /\ start_page'[x] \in 0..NrPages /\ end_page'[x] \in 0..NrPages + 1
                       /\ start_page'[x] >= start_page[x] /\ end_page'[x] <= end_page[x]
                       /\ start_page[x] < end_page[x] => start_page'[x] < end_page'[x]
      /\ start_page' \in [Lp -> 0..NrPages] /\ end_page' \in [Lp -> 0..NrPages + 1]
  <2>1. CASE ShrinkHead(l, p)
    BY <1>2, <1>4, <2>1 DEF ShrinkHead, TreeTypes
  <2>2. CASE ShrinkTail(l, p)
    BY <1>2, <1>4, <2>2 DEF ShrinkTail, TreeTypes
  <2> QED  BY <2>1, <2>2
<1>6. \A x, y \in linked : end_page[x] <= start_page[y] => end_page'[x] <= start_page'[y]
  <2> SUFFICES ASSUME NEW x \in linked, NEW y \in linked, end_page[x] <= start_page[y]
               PROVE  end_page'[x] <= start_page'[y]
    OBVIOUS
  <2>1. x \in Lp /\ y \in Lp
    BY <1>2 DEF TreeTypes
  <2> QED  BY <1>4, <1>5, <2>1
<1>7. Extents(linked, start_page', end_page')
  <2>1. \A x \in linked : x \in Lp
    BY <1>2 DEF TreeTypes
  <2>2. \A x \in linked : start_page'[x] \in Nat /\ end_page'[x] \in Nat
    BY <1>4, <1>5, <2>1
  <2> QED  BY <1>2, <1>5, <1>6, <2>1, <2>2 DEF Extents
<1>8. SearchTree(linked, left, right, B, OrderOf(linked, start_page', end_page'))
  BY <1>1, <1>6, <1>7, SameOrder
<1>9. TreeTypes'
  BY <1>2, <1>3, <1>5 DEF TreeTypes
<1> QED  BY <1>1, <1>2, <1>3, <1>7, <1>8, <1>9, GivesInd

LEMMA EraseStep ==
  ASSUME TreeInd, NEW l \in Lp, Erase(l)
  PROVE  TreeInd'
<1> DEFINE T == OrderOf(linked, start_page, end_page)
           k == IF left[l] = None THEN right[l] ELSE left[l]
<1>1. PICK B : SearchTree(linked, left, right, B, T) /\ Of(B, root) = linked
  BY IndGives
<1>2. /\ Extents(linked, start_page, end_page) /\ TreeTypes /\ None \notin linked
      /\ \A x \in Lp \ linked : left[x] = None /\ right[x] = None
  BY IndGives DEF TreeInd
<1>3. /\ l \in linked /\ linked' = linked \ {l} /\ linked' \subseteq Lp
      /\ None \in {left[l], right[l]}
      /\ root' = IF root = l THEN k ELSE root
      /\ UNCHANGED <<start_page, end_page>>
      /\ \A n \in Lp : /\ left'[n] = IF n = l THEN None ELSE IF left[n] = l THEN k ELSE left[n]
                       /\ right'[n] = IF n = l THEN None ELSE IF right[n] = l THEN k ELSE right[n]
      /\ left' = [n \in Lp |-> left'[n]] /\ right' = [n \in Lp |-> right'[n]]
  BY <1>2 DEF Erase, Replace, TreeTypes
<1>4. k \in linked' \cup {None}
  <2>1. left[l] # l /\ right[l] # l
    BY <1>1, <1>3, Sides
  <2> QED  BY <1>2, <1>3, <2>1 DEF TreeTypes
<1>5. TreeTypes'
  <2>1. \A n \in Lp : left[n] \in linked \cup {None} /\ right[n] \in linked \cup {None}
    BY <1>2 DEF TreeTypes
  <2>2. \A n \in Lp : left'[n] \in linked' \cup {None} /\ right'[n] \in linked' \cup {None}
    BY <1>3, <1>4, <2>1
  <2>3. root' \in linked' \cup {None}
    BY <1>2, <1>3, <1>4 DEF TreeTypes
  <2> HIDE DEF k
  <2> QED  BY <1>2, <1>3, <2>2, <2>3 DEF TreeTypes
<1>6. /\ root \in linked \cup {None} /\ linked \subseteq Lp
  BY <1>2 DEF TreeTypes
<1>7. \A n \in linked' : /\ left'[n] = IF left[n] = l THEN k ELSE left[n]
                         /\ right'[n] = IF right[n] = l THEN k ELSE right[n]
  BY <1>3
<1>a. k = IF left[l] = None THEN right[l] ELSE left[l]
  OBVIOUS
<1> HIDE DEF T, k
<1>8. PICK C : SearchTree(linked', left', right', C, T) /\ Of(C, IF root = l THEN k ELSE root) = linked'
  BY <1>1, <1>3, <1>6, <1>7, <1>a, TreeErase
<1>9. Extents(linked', start_page', end_page')
  BY <1>2, <1>3 DEF Extents
<1> DEFINE U == OrderOf(linked', start_page', end_page')
<1>10. StrictOrder(linked', U) /\ \A x, y \in linked' : <<x, y>> \in T => <<x, y>> \in U
  BY <1>3, <1>9, ExtentOrder DEF OrderOf, T
<1> HIDE DEF U
<1>11. SearchTree(linked', left', right', C, U)
  BY <1>8, <1>10, TreeOrder
<1>12. \A x \in Lp \ linked' : left'[x] = None /\ right'[x] = None
  BY <1>2, <1>3
<1> QED  BY <1>3, <1>5, <1>8, <1>9, <1>11, <1>12, GivesInd DEF U

\* A rotation, with either side for the left: the same lemma does for both.
Rotates(l, up, K, M, L, R) ==
  /\ l \in linked /\ up # None /\ up = R[l]
  /\ root' = IF root = l THEN up ELSE root
  /\ K = [n \in Lp |-> IF n = up THEN l ELSE IF L[n] = l THEN up ELSE L[n]]
  /\ M = [n \in Lp |-> IF n = l THEN L[up] ELSE IF R[n] = l THEN up ELSE R[n]]

LEMMA RotateTree ==
  ASSUME NEW l \in Lp, NEW up, NEW K, NEW M, NEW L, NEW R, Rotates(l, up, K, M, L, R),
         linked \subseteq Lp, None \notin Lp, root \in linked \cup {None},
         L \in [Lp -> linked \cup {None}], R \in [Lp -> linked \cup {None}],
         \A x \in Lp \ linked : L[x] = None /\ R[x] = None,
         NEW B, NEW T, SearchTree(linked, L, R, B, T), Of(B, root) = linked
  PROVE  /\ K \in [Lp -> linked \cup {None}] /\ M \in [Lp -> linked \cup {None}]
         /\ root' \in linked \cup {None}
         /\ \A x \in Lp \ linked : K[x] = None /\ M[x] = None
         /\ \E C : SearchTree(linked, K, M, C, T) /\ Of(C, root') = linked
<1>1. /\ l \in linked /\ up # None /\ up = R[l] /\ up \in linked /\ up \in Lp
      /\ root' = IF root = l THEN up ELSE root
      /\ \A n \in Lp : K[n] = IF n = up THEN l ELSE IF L[n] = l THEN up ELSE L[n]
      /\ \A n \in Lp : M[n] = IF n = l THEN L[up] ELSE IF R[n] = l THEN up ELSE R[n]
  BY DEF Rotates
<1>2. \A n \in Lp : L[n] \in linked \cup {None} /\ R[n] \in linked \cup {None}
  OBVIOUS
<1>3. K \in [Lp -> linked \cup {None}] /\ M \in [Lp -> linked \cup {None}]
  BY <1>1, <1>2 DEF Rotates
<1>4. \A x \in Lp \ linked : K[x] = None /\ M[x] = None
  BY <1>1
<1>5. \A n \in linked : /\ K[n] = IF n = up THEN l ELSE IF L[n] = l THEN up ELSE L[n]
                        /\ M[n] = IF n = l THEN L[up] ELSE IF R[n] = l THEN up ELSE R[n]
  BY <1>1
<1>6. \E C : SearchTree(linked, K, M, C, T) /\ Of(C, IF root = l THEN up ELSE root) = linked
  BY <1>1, <1>5, TreeRotate
<1> QED  BY <1>1, <1>3, <1>4, <1>6

LEMMA RotateStep ==
  ASSUME TreeInd, NEW l \in Lp, RotateLeft(l) \/ RotateRight(l)
  PROVE  TreeInd'
<1> DEFINE T == OrderOf(linked, start_page, end_page)
<1>1. PICK B : SearchTree(linked, left, right, B, T) /\ Of(B, root) = linked
  BY IndGives
<1>2. /\ Extents(linked, start_page, end_page) /\ TreeTypes
      /\ \A x \in Lp \ linked : left[x] = None /\ right[x] = None
  BY IndGives DEF TreeInd
<1>3. /\ root \in linked \cup {None} /\ linked \subseteq Lp /\ None \notin Lp
      /\ left \in [Lp -> linked \cup {None}] /\ right \in [Lp -> linked \cup {None}]
  BY <1>2, LpTreeAssumption DEF TreeTypes
<1>4. UNCHANGED <<start_page, end_page, linked>>
  BY DEF RotateLeft, RotateRight
<1>5. SUFFICES ASSUME /\ left' \in [Lp -> linked \cup {None}]
                      /\ right' \in [Lp -> linked \cup {None}]
                      /\ root' \in linked \cup {None}
                      /\ \A x \in Lp \ linked : left'[x] = None /\ right'[x] = None,
                      NEW C, SearchTree(linked, left', right', C, T), Of(C, root') = linked
               PROVE  TreeInd'
  <2> HIDE DEF T
  <2>1. CASE RotateLeft(l)
    <3>1. Rotates(l, right[l], left', right', left, right)
      BY <2>1 DEF RotateLeft, Rotates
    <3> QED  BY <1>1, <1>2, <1>3, <1>5, <3>1, RotateTree
  <2>2. CASE RotateRight(l)
    <3>1. Rotates(l, left[l], right', left', right, left)
      BY <2>2 DEF RotateRight, Rotates
    <3>2. SearchTree(linked, right, left, B, Flip(linked, T))
      BY <1>1, Mirror
    <3>3. PICK C : SearchTree(linked, right', left', C, Flip(linked, T)) /\ Of(C, root') = linked
      BY <1>1, <1>2, <1>3, <3>1, <3>2, RotateTree
    <3>4. SearchTree(linked, left', right', C, Flip(linked, Flip(linked, T)))
      BY <3>3, Mirror
    <3>5. /\ StrictOrder(linked, T)
          /\ \A x, y \in linked : <<x, y>> \in Flip(linked, Flip(linked, T)) => <<x, y>> \in T
      BY <1>1 DEF SearchTree, Flip
    <3>6. SearchTree(linked, left', right', C, T)
      BY <3>4, <3>5, TreeOrder
    <3> QED  BY <1>1, <1>2, <1>3, <1>5, <3>1, <3>2, <3>3, <3>6, RotateTree
  <2> QED  BY <2>1, <2>2
<1>6. TreeTypes'
  BY <1>2, <1>4, <1>5 DEF TreeTypes
<1>7. /\ Extents(linked', start_page', end_page') /\ Of(C, root') = linked'
      /\ \A x \in Lp \ linked' : left'[x] = None /\ right'[x] = None
      /\ SearchTree(linked', left', right', C, OrderOf(linked', start_page', end_page'))
  BY <1>2, <1>4, <1>5
<1> QED  BY <1>6, <1>7, GivesInd

LEMMA InsertKeeps ==
  ASSUME TreeInd, NEW l \in Lp, NEW a \in 1..NrPages + 1, NEW b \in 1..NrPages + 1,
         Insert(l, a, b)
  PROVE  TreeInd'
<1>1. /\ Extents(linked, start_page, end_page) /\ TreeTypes /\ NrPages \in Nat
      /\ linked \subseteq Lp
  BY IndGives, LpTreeAssumption DEF TreeInd, TreeTypes
<1>2. /\ \A x \in Lp : start_page[x] \in 0..NrPages /\ end_page[x] \in 0..NrPages + 1
      /\ \A x \in linked : start_page[x] < end_page[x]
  BY <1>1 DEF TreeTypes, Extents
<1>3. /\ l \notin linked /\ a < b /\ a <= NrPages /\ log_page_insert(l, a, b)
      /\ \A p \in a..b - 1, x \in linked : p \notin Extent(x)
  <2>1. a \in a..b - 1 /\ a \in Page
    BY DEF Insert
  <2> QED  BY <2>1 DEF Insert, Tracked, Page
<1>4. /\ start_page' \in [Lp -> 0..NrPages] /\ end_page' \in [Lp -> 0..NrPages + 1]
      /\ start_page'[l] = a /\ end_page'[l] = b
      /\ \A x \in linked : start_page'[x] = start_page[x] /\ end_page'[x] = end_page[x]
  BY <1>1, <1>3 DEF Insert, TreeTypes
<1>5. ASSUME NEW x \in linked, ~(b <= start_page[x]) PROVE end_page[x] <= a
  <2>1. /\ start_page[x] \in Nat /\ end_page[x] \in Nat /\ a \in Nat /\ b \in Nat
        /\ start_page[x] < end_page[x]
    BY <1>1, <1>2
  <2>2. a \in a..b - 1 /\ (start_page[x] \in a..b - 1 \/ start_page[x] < a)
    BY <1>3, <1>5, <2>1
  <2>3. a \notin Extent(x) /\ (start_page[x] \in a..b - 1 => start_page[x] \notin Extent(x))
    BY <1>3, <2>2
  <2> QED  BY <2>1, <2>2, <2>3 DEF Extent
<1>6. Extents(linked \cup {l}, start_page', end_page')
  <2>1. \A x \in linked \cup {l} :
          start_page'[x] \in Nat /\ end_page'[x] \in Nat /\ start_page'[x] < end_page'[x]
    BY <1>1, <1>2, <1>3, <1>4
  <2>2. \A x \in linked : b <= start_page[x] \/ end_page[x] <= a
    BY <1>5
  <2>3. \A x, y \in linked : x = y \/ end_page[x] <= start_page[y] \/ end_page[y] <= start_page[x]
    BY <1>1 DEF Extents
  <2> QED  BY <1>4, <2>1, <2>2, <2>3 DEF Extents
<1>7. \A x \in linked : /\ start_page'[x] = start_page[x] /\ end_page'[x] <= end_page[x]
                        /\ b <= start_page[x] => end_page'[l] <= start_page'[x]
                        /\ ~(b <= start_page[x]) => end_page'[x] <= start_page'[l]
  BY <1>1, <1>2, <1>4, <1>5
<1> QED  BY <1>3, <1>4, <1>6, <1>7, InsertStep

LEMMA SplitKeeps ==
  ASSUME TreeInd, NEW l \in Lp, NEW n \in Lp, NEW s \in Page, NEW e \in Page,
         Split(l, n, s, e)
  PROVE  TreeInd'
<1> DEFINE b == end_page[l]
<1>1. /\ Extents(linked, start_page, end_page) /\ TreeTypes /\ NrPages \in Nat
      /\ linked \subseteq Lp
  BY IndGives, LpTreeAssumption DEF TreeInd, TreeTypes
<1>2. /\ \A x \in Lp : start_page[x] \in 0..NrPages /\ end_page[x] \in 0..NrPages + 1
      /\ \A x \in linked : start_page[x] < end_page[x]
      /\ \A x, y \in linked : x = y \/ end_page[x] <= start_page[y] \/ end_page[y] <= start_page[x]
  BY <1>1 DEF TreeTypes, Extents
<1>3. /\ l \in linked /\ n \notin linked /\ log_page_insert(n, e, b)
      /\ start_page[l] < s /\ s < e /\ e < b /\ s \in Nat /\ e \in Nat
      /\ s <= NrPages /\ e <= NrPages
  BY DEF Split, Page
<1>4. /\ start_page' \in [Lp -> 0..NrPages] /\ end_page' \in [Lp -> 0..NrPages + 1]
      /\ start_page'[n] = e /\ end_page'[n] = b /\ end_page'[l] = s
      /\ \A x \in linked : start_page'[x] = start_page[x]
      /\ \A x \in linked \ {l} : end_page'[x] = end_page[x]
  <2>1. /\ start_page' = [start_page EXCEPT ![n] = e]
        /\ end_page' = [end_page EXCEPT ![n] = b, ![l] = s]
    BY DEF Split
  <2>2. b \in 0..NrPages + 1 /\ e \in 0..NrPages /\ s \in 0..NrPages + 1
    BY <1>1, <1>2, <1>3
  <2> HIDE DEF b
  <2> QED  BY <1>1, <1>3, <2>1, <2>2 DEF TreeTypes
<1>5. \A x \in linked : x # l /\ ~(b <= start_page[x]) => end_page[x] <= start_page[l]
  BY <1>2, <1>3
<1>6. \A x \in linked : start_page[x] \in Nat /\ end_page[x] \in Nat
  BY <1>1, <1>2
<1>7. \A x \in linked : /\ start_page'[x] = start_page[x] /\ end_page'[x] <= end_page[x]
                        /\ b <= start_page[x] => end_page'[n] <= start_page'[x]
                        /\ ~(b <= start_page[x]) => end_page'[x] <= start_page'[n]
  <2> SUFFICES ASSUME NEW x \in linked
               PROVE  /\ start_page'[x] = start_page[x] /\ end_page'[x] <= end_page[x]
                      /\ b <= start_page[x] => end_page'[n] <= start_page'[x]
                      /\ ~(b <= start_page[x]) => end_page'[x] <= start_page'[n]
    OBVIOUS
  <2>1. CASE x = l
    BY <1>3, <1>4, <1>6, <2>1
  <2>2. CASE x # l
    BY <1>3, <1>4, <1>5, <1>6, <2>2
  <2> QED  BY <2>1, <2>2
<1>8. Extents(linked \cup {n}, start_page', end_page')
  <2>1. \A x \in linked \cup {n} :
          start_page'[x] \in Nat /\ end_page'[x] \in Nat /\ start_page'[x] < end_page'[x]
    <3>1. start_page'[n] \in Nat /\ end_page'[n] \in Nat /\ start_page'[n] < end_page'[n]
      BY <1>3, <1>4, <1>6
    <3>2. ASSUME NEW x \in linked
          PROVE  start_page'[x] \in Nat /\ end_page'[x] \in Nat /\ start_page'[x] < end_page'[x]
      <4>1. CASE x = l
        BY <1>3, <1>4, <1>6, <4>1
      <4>2. CASE x # l
        BY <1>2, <1>4, <1>6, <4>2
      <4> QED  BY <4>1, <4>2
    <3> QED  BY <3>1, <3>2
  <2>2. \A x \in linked : end_page'[n] <= start_page'[x] \/ end_page'[x] <= start_page'[n]
    BY <1>7
  <2>3. \A x, y \in linked :
          x = y \/ end_page'[x] <= start_page'[y] \/ end_page'[y] <= start_page'[x]
    <3> SUFFICES ASSUME NEW x \in linked, NEW y \in linked, x # y
                 PROVE  end_page'[x] <= start_page'[y] \/ end_page'[y] <= start_page'[x]
      OBVIOUS
    <3>1. /\ end_page'[x] <= end_page[x] /\ end_page'[y] <= end_page[y]
          /\ start_page'[x] = start_page[x] /\ start_page'[y] = start_page[y]
          /\ end_page[x] <= start_page[y] \/ end_page[y] <= start_page[x]
      BY <1>2, <1>7
    <3>2. /\ end_page[x] \in Nat /\ start_page[x] \in Nat /\ end_page'[x] \in Nat
          /\ end_page[y] \in Nat /\ start_page[y] \in Nat /\ end_page'[y] \in Nat
      BY <1>6, <2>1
    <3> QED  BY <3>1, <3>2
  <2> QED  BY <2>1, <2>2, <2>3 DEF Extents
<1> HIDE DEF b
<1> QED  BY <1>3, <1>4, <1>7, <1>8, InsertStep

LEMMA TreeStart == TreeInit => TreeInd
<1> SUFFICES ASSUME TreeInit PROVE TreeInd
  OBVIOUS
<1>1. TreeTypes
  BY LpTreeAssumption DEF TreeInit, TreeTypes
<1>2. TreeShape
  BY FS_EmptySet DEF TreeInit, TreeShape, Below
<1> QED  BY <1>1, <1>2 DEF TreeInd

LEMMA TreeStep == TreeInd /\ [TreeNext]_treeVars => TreeInd'
<1> SUFFICES ASSUME TreeInd, [TreeNext]_treeVars PROVE TreeInd'
  OBVIOUS
<1>1. CASE UNCHANGED treeVars
  BY <1>1 DEF treeVars, shape, TreeInd, TreeTypes, TreeShape, Below, Precedes
<1>2. CASE TreeNext
  <2>1. PICK l \in Lp :
         \/ \E a, b \in 1..NrPages + 1 : Insert(l, a, b)
         \/ Erase(l) \/ RotateLeft(l) \/ RotateRight(l)
         \/ \E p \in Page : ShrinkHead(l, p) \/ ShrinkTail(l, p)
         \/ \E n \in Lp, s, e \in Page : Split(l, n, s, e)
    BY <1>2 DEF TreeNext
  <2>2. CASE \E a, b \in 1..NrPages + 1 : Insert(l, a, b)
    BY <2>2, InsertKeeps
  <2>3. CASE Erase(l)
    BY <2>3, EraseStep
  <2>4. CASE RotateLeft(l) \/ RotateRight(l)
    BY <2>4, RotateStep
  <2>5. CASE \E p \in Page : ShrinkHead(l, p) \/ ShrinkTail(l, p)
    BY <2>5, ShrinkStep
  <2>6. CASE \E n \in Lp, s, e \in Page : Split(l, n, s, e)
    BY <2>6, SplitKeeps
  <2> QED  BY <2>1, <2>2, <2>3, <2>4, <2>5, <2>6
<1> QED  BY <1>1, <1>2

-----------------------------------------------------------------------------
(* What follows of one state.                                               *)

LEMMA HasPlace ==
  ASSUME NEW N, NEW L, NEW R, NEW B, NEW T, SearchTree(N, L, R, B, T),
         NEW r \in N, Of(B, r) = N, NEW c \in N, c # r
  PROVE  \E n \in N : c \in {L[n], R[n]}
<1> DEFINE P == {k \in N : c \in B[k] => c = k \/ \E n \in N : c \in {L[n], R[n]}}
<1>1. ASSUME NEW k \in N, L[k] \in P \cup {None}, R[k] \in P \cup {None}
      PROVE  k \in P
  <2> SUFFICES ASSUME c \in B[k], c # k PROVE \E n \in N : c \in {L[n], R[n]}
    OBVIOUS
  <2>1. c \in Of(B, L[k]) \/ c \in Of(B, R[k])
    BY DEF SearchTree
  <2> QED  BY <1>1, <2>1 DEF Of
<1> HIDE DEF P
<1>2. N \subseteq P
  BY <1>1, TreeInduction
<1>3. B[r] = N
  BY DEF Of, SearchTree
<1> QED  BY <1>2, <1>3 DEF P

LEMMA TypesHold ==
  ASSUME TreeInd
  PROVE  LpTreeTypeOK
<1>1. PICK B : /\ SearchTree(linked, left, right, B, OrderOf(linked, start_page, end_page))
               /\ Of(B, root) = linked
  BY IndGives
<1>2. TreeTypes /\ root \in linked \cup {None}
  BY DEF TreeInd, TreeTypes
<1>3. ASSUME NEW l \in linked
      PROVE  Cardinality({n \in linked : left[n] = l}) + Cardinality({n \in linked : right[n] = l})
               = IF l = root THEN 0 ELSE 1
  <2> DEFINE A == {n \in linked : left[n] = l}
             D == {n \in linked : right[n] = l}
  <2>1. /\ l = root => \A n \in linked : left[n] # l /\ right[n] # l
        /\ \A n, j \in linked : l \in {left[n], right[n]} /\ l \in {left[j], right[j]} => n = j
        /\ \A n \in linked : ~(left[n] = l /\ right[n] = l)
    BY <1>1, <1>2, OnePlace
  <2>2. CASE l = root
    <3>1. A = {} /\ D = {}
      BY <2>1, <2>2
    <3> HIDE DEF A, D
    <3> QED  BY <2>2, <3>1, FS_EmptySet DEF A, D
  <2>3. CASE l # root
    <3>1. root \in linked
      BY <1>1, <1>2 DEF Of
    <3>2. PICK n \in linked : l \in {left[n], right[n]}
      BY <1>1, <2>3, <3>1, HasPlace
    <3>3. (A = {n} /\ D = {}) \/ (A = {} /\ D = {n})
      BY <2>1, <3>2
    <3> HIDE DEF A, D
    <3>4. Cardinality({n}) = 1 /\ Cardinality({}) = 0
      BY FS_EmptySet, FS_Singleton
    <3>5. (Cardinality(A) = 1 /\ Cardinality(D) = 0) \/ (Cardinality(A) = 0 /\ Cardinality(D) = 1)
      BY <3>3, <3>4
    <3>6. Cardinality(A) + Cardinality(D) = 1
      BY <3>5
    <3> QED  BY <2>3, <3>6 DEF A, D
  <2> QED  BY <2>2, <2>3
<1> QED  BY <1>2, <1>3 DEF LpTreeTypeOK, TreeTypes

\* A search for page p: a step, and the function.
FindAt(f, l, L, R, S, E, p) ==
  IF p < S[l] THEN f[L[l]] ELSE IF p >= E[l] THEN f[R[l]] ELSE l

FindMap(f, N, L, R, S, E, p) ==
  /\ f \in [N \cup {None} -> N \cup {None}] /\ f[None] = None
  /\ \A l \in N : f[l] = FindAt(f, l, L, R, S, E, p)

LEMMA FindExists ==
  ASSUME NEW N, NEW L, NEW R, NEW B, NEW T, SearchTree(N, L, R, B, T),
         NEW S, NEW E, NEW p
  PROVE  \E f : FindMap(f, N, L, R, S, E, p)
<1> DEFINE V == N \cup {None}
           c == [z \in N \X V \X V |->
                   IF p < S[z[1]] THEN z[2] ELSE IF p >= E[z[1]] THEN z[3] ELSE z[1]]
<1>1. Combines(c, N, V)
  BY DEF Combines
<1>2. None \in V
  OBVIOUS
<1>3. PICK g \in [N -> V] : \A l \in N : g[l] = c[<<l, ValueAt(g, L[l], None), ValueAt(g, R[l], None)>>]
  <2> HIDE DEF c, V
  <2> QED  BY <1>1, <1>2, TreeRecursion
<1> DEFINE f == [l \in N \cup {None} |-> ValueAt(g, l, None)]
<1>4. f[None] = None /\ f \in [N \cup {None} -> N \cup {None}]
  BY DEF ValueAt
<1>5. ASSUME NEW l \in N PROVE f[l] = FindAt(f, l, L, R, S, E, p)
  <2>1. L[l] \in N \cup {None} /\ R[l] \in N \cup {None} /\ l # None
    BY DEF SearchTree
  <2>2. /\ ValueAt(g, L[l], None) \in V /\ ValueAt(g, R[l], None) \in V
        /\ f[l] = g[l] /\ f[L[l]] = ValueAt(g, L[l], None) /\ f[R[l]] = ValueAt(g, R[l], None)
    BY <2>1 DEF ValueAt
  <2>3. g[l] = IF p < S[l] THEN ValueAt(g, L[l], None)
               ELSE IF p >= E[l] THEN ValueAt(g, R[l], None) ELSE l
    BY <1>3, <2>2
  <2> QED  BY <2>2, <2>3 DEF FindAt
<1> HIDE DEF f
<1> QED  BY <1>4, <1>5 DEF FindMap

Finds(x, N, B, n, S, E, p) ==
  /\ \A y \in B[n] : S[y] <= p /\ p < E[y] => x = y
  /\ x = None \/ (x \in B[n] /\ S[x] <= p /\ p < E[x])

LEMMA FindFound ==
  ASSUME NEW N, NEW L, NEW R, NEW B, NEW S, NEW E, Extents(N, S, E),
         SearchTree(N, L, R, B, OrderOf(N, S, E)), NEW p \in Nat,
         NEW g, g[None] = None, \A l \in N : g[l] = FindAt(g, l, L, R, S, E, p),
         NEW n \in N
  PROVE  Finds(g[n], N, B, n, S, E, p)
<1> DEFINE P == {l \in N : Finds(g[l], N, B, l, S, E, p)}
<1>1. ASSUME NEW l \in N, L[l] \in P \cup {None}, R[l] \in P \cup {None}
      PROVE  Finds(g[l], N, B, l, S, E, p)
  <2>1. /\ B[l] = {l} \cup Of(B, L[l]) \cup Of(B, R[l]) /\ B[l] \subseteq N
        /\ \A x \in Of(B, L[l]) : E[x] <= S[l]
        /\ \A x \in Of(B, R[l]) : E[l] <= S[x]
    BY DEF SearchTree, OrderOf
  <2>2. \A x \in B[l] : S[x] \in Nat /\ E[x] \in Nat /\ S[x] < E[x]
    BY <2>1 DEF Extents
  <2>3. l \in B[l] /\ l # None /\ S[l] \in Nat /\ E[l] \in Nat /\ S[l] < E[l]
    BY <2>1, <2>2 DEF SearchTree
  <2>4. CASE p < S[l]
    <3>1. g[l] = g[L[l]]
      BY <2>4 DEF FindAt
    <3>2. \A y \in B[l] : S[y] <= p /\ p < E[y] => y \in Of(B, L[l])
      BY <2>1, <2>2, <2>3, <2>4
    <3>3. CASE L[l] = None
      BY <3>1, <3>2, <3>3 DEF Finds, Of
    <3>4. CASE L[l] # None
      <4>1. Finds(g[L[l]], N, B, L[l], S, E, p) /\ Of(B, L[l]) = B[L[l]]
        BY <1>1, <3>4 DEF Of
      <4> QED  BY <2>1, <3>1, <3>2, <4>1 DEF Finds
    <3> QED  BY <3>3, <3>4
  <2>5. CASE ~(p < S[l]) /\ p >= E[l]
    <3>1. g[l] = g[R[l]]
      BY <2>5 DEF FindAt
    <3>2. \A y \in B[l] : S[y] <= p /\ p < E[y] => y \in Of(B, R[l])
      BY <2>1, <2>2, <2>3, <2>5
    <3>3. CASE R[l] = None
      BY <3>1, <3>2, <3>3 DEF Finds, Of
    <3>4. CASE R[l] # None
      <4>1. Finds(g[R[l]], N, B, R[l], S, E, p) /\ Of(B, R[l]) = B[R[l]]
        BY <1>1, <3>4 DEF Of
      <4> QED  BY <2>1, <3>1, <3>2, <4>1 DEF Finds
    <3> QED  BY <3>3, <3>4
  <2>6. CASE ~(p < S[l]) /\ ~(p >= E[l])
    <3>1. g[l] = l
      BY <2>6 DEF FindAt
    <3>2. \A y \in B[l] : S[y] <= p /\ p < E[y] => y = l
      BY <2>1, <2>2, <2>3, <2>6
    <3> QED  BY <2>3, <2>6, <3>1, <3>2 DEF Finds
  <2> QED  BY <2>4, <2>5, <2>6
<1>2. \A l \in N : L[l] \in P \cup {None} /\ R[l] \in P \cup {None} => l \in P
  BY <1>1
<1> HIDE DEF P
<1>3. N \subseteq P
  BY <1>2, TreeInduction
<1> QED  BY <1>3 DEF P

LEMMA FindHolds ==
  ASSUME TreeInd
  PROVE  FindExact
<1>1. PICK B : /\ SearchTree(linked, left, right, B, OrderOf(linked, start_page, end_page))
               /\ Of(B, root) = linked
  BY IndGives
<1>2. Extents(linked, start_page, end_page) /\ None \notin linked /\ root \in linked \cup {None}
  BY IndGives DEF TreeInd, TreeTypes
<1> SUFFICES ASSUME NEW p \in Page
             PROVE  LET holders == {l \in linked : p \in Extent(l)} IN
                      IF holders = {} THEN find_lp(p) = None ELSE holders = {find_lp(p)}
  BY DEF FindExact
<1> DEFINE F(f) == [l \in linked \cup {None} |->
                      IF l = None THEN None
                      ELSE IF p < start_page[l] THEN f[left[l]]
                      ELSE IF p >= end_page[l] THEN f[right[l]]
                      ELSE l]
           g == CHOOSE f : f = F(f)
<1>3. PICK h : FindMap(h, linked, left, right, start_page, end_page, p)
  BY <1>1, FindExists
<1>4. h = F(h)
  BY <1>2, <1>3 DEF FindMap, FindAt
<1>5. g = F(g)
  BY <1>4
<1>6. g[None] = None /\ \A l \in linked : g[l] = FindAt(g, l, left, right, start_page, end_page, p)
  <2> HIDE DEF g
  <2> QED  BY <1>2, <1>5 DEF FindAt
<1>7. find_lp(p) = g[root]
  BY DEF find_lp
<1> HIDE DEF g
<1>8. p \in Nat /\ \A l \in linked : p \in Extent(l) <=> start_page[l] <= p /\ p < end_page[l]
  BY <1>2 DEF Page, Extent, Extents
<1>9. CASE root = None
  BY <1>1, <1>6, <1>7, <1>9 DEF Of
<1>10. CASE root # None
  <2>1. root \in linked /\ B[root] = linked
    BY <1>1, <1>2, <1>10 DEF Of
  <2>2. Finds(g[root], linked, B, root, start_page, end_page, p)
    BY <1>1, <1>2, <1>6, <1>8, <2>1, FindFound
  <2> QED  BY <1>2, <1>7, <1>8, <2>1, <2>2 DEF Finds
<1> QED  BY <1>9, <1>10

\* The elements of X in the order T.
Sorted(s, X, T) ==
  /\ s \in Seq(X) /\ \A x \in X : \E i \in 1..Len(s) : s[i] = x
  /\ \A i, j \in 1..Len(s) : i < j => <<s[i], s[j]>> \in T

LEMMA SortedJoin ==
  ASSUME NEW X, NEW Y, NEW Z, Z = X \cup Y, NEW T, NEW s, NEW t,
         Sorted(s, X, T), Sorted(t, Y, T), \A x \in X, y \in Y : <<x, y>> \in T
  PROVE  Sorted(s \o t, Z, T)
<1> DEFINE u == s \o t
<1>1. s \in Seq(Z) /\ t \in Seq(Z) /\ s \in Seq(X) /\ t \in Seq(Y)
  BY DEF Sorted
<1>2. /\ u \in Seq(Z) /\ Len(u) = Len(s) + Len(t) /\ Len(s) \in Nat /\ Len(t) \in Nat
      /\ \A i \in 1..Len(s) + Len(t) : u[i] = IF i <= Len(s) THEN s[i] ELSE t[i - Len(s)]
  BY <1>1, ConcatProperties
<1> HIDE DEF u
<1>3. /\ \A i \in 1..Len(s) : u[i] = s[i] /\ i \in 1..Len(u) /\ s[i] \in X
      /\ \A i \in 1..Len(t) : u[i + Len(s)] = t[i] /\ i + Len(s) \in 1..Len(u) /\ t[i] \in Y
  <2>1. /\ \A i \in 1..Len(s) : s[i] \in X
        /\ \A i \in 1..Len(t) : t[i] \in Y
    BY <1>1
  <2>2. ASSUME NEW i \in 1..Len(s) PROVE u[i] = s[i] /\ i \in 1..Len(u)
    BY <1>2
  <2>3. ASSUME NEW i \in 1..Len(t) PROVE u[i + Len(s)] = t[i] /\ i + Len(s) \in 1..Len(u)
    <3>1. i + Len(s) \in 1..Len(s) + Len(t) /\ ~(i + Len(s) <= Len(s)) /\ (i + Len(s)) - Len(s) = i
      BY <1>2
    <3> QED  BY <1>2, <3>1
  <2> QED  BY <2>1, <2>2, <2>3
<1>4. ASSUME NEW z \in Z PROVE \E i \in 1..Len(u) : u[i] = z
  <2>1. CASE z \in X
    BY <1>3, <2>1 DEF Sorted
  <2>2. CASE z \in Y
    <3>1. PICK i \in 1..Len(t) : t[i] = z
      BY <2>2 DEF Sorted
    <3> QED  BY <1>3, <3>1
  <2> QED  BY <2>1, <2>2
<1>5. ASSUME NEW i \in 1..Len(u), NEW j \in 1..Len(u), i < j
      PROVE  <<u[i], u[j]>> \in T
  <2>1. CASE j <= Len(s)
    <3>1. i \in 1..Len(s) /\ j \in 1..Len(s)
      BY <1>2, <1>5, <2>1
    <3> QED  BY <1>3, <1>5, <3>1 DEF Sorted
  <2>2. CASE i <= Len(s) /\ ~(j <= Len(s))
    <3>1. /\ i \in 1..Len(s) /\ j - Len(s) \in 1..Len(t)
          /\ u[i] = s[i] /\ u[j] = t[j - Len(s)]
      BY <1>2, <1>5, <2>2
    <3> QED  BY <1>3, <3>1
  <2>3. CASE ~(i <= Len(s)) /\ ~(j <= Len(s))
    <3>1. /\ i - Len(s) \in 1..Len(t) /\ j - Len(s) \in 1..Len(t) /\ i - Len(s) < j - Len(s)
          /\ u[i] = t[i - Len(s)] /\ u[j] = t[j - Len(s)]
      BY <1>2, <1>5, <2>3
    <3> QED  BY <3>1 DEF Sorted
  <2> QED  BY <1>2, <1>5, <2>1, <2>2, <2>3
<1> QED  BY <1>2, <1>4, <1>5 DEF Sorted, u

\* The listing: a step, and the function.
OrderAt(f, l, L, R) == f[L[l]] \o <<l>> \o f[R[l]]

OrderMap(f, N, L, R) ==
  /\ f \in [N \cup {None} -> Seq(N)] /\ f[None] = <<>>
  /\ \A l \in N : f[l] = OrderAt(f, l, L, R)

LEMMA OrderExists ==
  ASSUME NEW N, NEW L, NEW R, NEW B, NEW T, SearchTree(N, L, R, B, T)
  PROVE  \E f : OrderMap(f, N, L, R)
<1> DEFINE V == Seq(N)
           c == [z \in N \X V \X V |-> z[2] \o <<z[1]>> \o z[3]]
<1>1. Combines(c, N, V)
  <2>1. \A n \in N, a, b \in V : a \o <<n>> \o b \in V
    OBVIOUS
  <2>2. \A z \in N \X V \X V : z[1] \in N /\ z[2] \in V /\ z[3] \in V
    OBVIOUS
  <2> HIDE DEF V
  <2>3. \A z \in N \X V \X V : z[2] \o <<z[1]>> \o z[3] \in V
    BY <2>1, <2>2
  <2> QED  BY <2>3 DEF Combines
<1>2. <<>> \in V
  OBVIOUS
<1>3. PICK g \in [N -> V] : \A l \in N : g[l] = c[<<l, ValueAt(g, L[l], <<>>), ValueAt(g, R[l], <<>>)>>]
  <2> HIDE DEF c, V
  <2> QED  BY <1>1, <1>2, TreeRecursion
<1> DEFINE f == [l \in N \cup {None} |-> ValueAt(g, l, <<>>)]
<1> HIDE DEF V
<1>4. f[None] = <<>> /\ f \in [N \cup {None} -> V]
  BY <1>2 DEF ValueAt
<1>5. ASSUME NEW l \in N PROVE f[l] = OrderAt(f, l, L, R)
  <2>1. L[l] \in N \cup {None} /\ R[l] \in N \cup {None} /\ l # None
    BY DEF SearchTree
  <2>2. /\ ValueAt(g, L[l], <<>>) \in V /\ ValueAt(g, R[l], <<>>) \in V
        /\ f[l] = g[l] /\ f[L[l]] = ValueAt(g, L[l], <<>>) /\ f[R[l]] = ValueAt(g, R[l], <<>>)
    BY <1>2, <2>1 DEF ValueAt
  <2>3. g[l] = ValueAt(g, L[l], <<>>) \o <<l>> \o ValueAt(g, R[l], <<>>)
    BY <1>3, <2>2
  <2> QED  BY <2>2, <2>3 DEF OrderAt
<1> HIDE DEF f
<1> QED  BY <1>4, <1>5 DEF OrderMap, V

LEMMA OrderSorted ==
  ASSUME NEW N, NEW L, NEW R, NEW B, NEW T, SearchTree(N, L, R, B, T),
         NEW g, g[None] = <<>>, \A l \in N : g[l] = OrderAt(g, l, L, R), NEW n \in N
  PROVE  Sorted(g[n], B[n], T)
<1> DEFINE P == {l \in N : Sorted(g[l], B[l], T)}
<1>1. ASSUME NEW l \in N, L[l] \in P \cup {None}, R[l] \in P \cup {None}
      PROVE  Sorted(g[l], B[l], T)
  <2>1. /\ B[l] = {l} \cup Of(B, L[l]) \cup Of(B, R[l]) /\ B[l] \subseteq N
        /\ \A x \in Of(B, L[l]) : <<x, l>> \in T
        /\ \A x \in Of(B, R[l]) : <<l, x>> \in T
        /\ StrictOrder(N, T)
    BY DEF SearchTree
  <2>2. \A x \in Of(B, L[l]), y \in Of(B, R[l]) : <<x, y>> \in T
    BY <2>1 DEF StrictOrder
  <2>3. Sorted(<<>>, {}, T)
    BY DEF Sorted
  <2>4. Sorted(g[L[l]], Of(B, L[l]), T)
    BY <1>1, <2>3 DEF Of
  <2>5. Sorted(g[R[l]], Of(B, R[l]), T)
    BY <1>1, <2>3 DEF Of
  <2>6. Sorted(<<l>>, {l}, T)
    BY DEF Sorted
  <2> HIDE DEF P
  <2>7. Sorted(g[L[l]] \o <<l>>, Of(B, L[l]) \cup {l}, T)
    BY <2>1, <2>4, <2>6, SortedJoin
  <2>8. Sorted((g[L[l]] \o <<l>>) \o g[R[l]], B[l], T)
    BY <2>1, <2>2, <2>5, <2>7, SortedJoin
  <2> QED  BY <2>8 DEF OrderAt
<1>2. \A l \in N : L[l] \in P \cup {None} /\ R[l] \in P \cup {None} => l \in P
  BY <1>1
<1> HIDE DEF P
<1>3. N \subseteq P
  BY <1>2, TreeInduction
<1> QED  BY <1>3 DEF P

LEMMA PrintHolds ==
  ASSUME TreeInd
  PROVE  PrintsAll
<1>1. PICK B : /\ SearchTree(linked, left, right, B, OrderOf(linked, start_page, end_page))
               /\ Of(B, root) = linked
  BY IndGives
<1>2. Extents(linked, start_page, end_page) /\ None \notin linked /\ root \in linked \cup {None}
  BY IndGives DEF TreeInd, TreeTypes
<1> SUFFICES ASSUME linked # {}
             PROVE  /\ ToSet(print_log_page_all) = linked /\ IsInjective(print_log_page_all)
                    /\ \A i \in 1..Len(print_log_page_all) - 1 :
                         end_page[print_log_page_all[i]] <= start_page[print_log_page_all[i + 1]]
  BY DEF PrintsAll
<1>3. root # None /\ root \in linked /\ B[root] = linked
  BY <1>1, <1>2 DEF Of
<1> DEFINE F(f) == [l \in linked \cup {None} |->
                      IF l = None THEN <<>> ELSE f[left[l]] \o <<l>> \o f[right[l]]]
           g == CHOOSE f : f = F(f)
<1>4. PICK h : OrderMap(h, linked, left, right)
  BY <1>1, OrderExists
<1>5. h = F(h)
  BY <1>2, <1>4 DEF OrderMap, OrderAt
<1>6. g = F(g)
  BY <1>5
<1>7. g[None] = <<>> /\ \A l \in linked : g[l] = OrderAt(g, l, left, right)
  <2> HIDE DEF g
  <2> QED  BY <1>2, <1>6 DEF OrderAt
<1>8. print_log_page_all = g[root]
  BY <1>3 DEF print_log_page_all, InOrder
<1> HIDE DEF g
<1> DEFINE all == print_log_page_all
<1>9. Sorted(all, linked, OrderOf(linked, start_page, end_page))
  BY <1>1, <1>3, <1>7, <1>8, OrderSorted
<1> HIDE DEF all
<1>10. all \in Seq(linked) /\ ToSet(all) = linked
  <2>1. DOMAIN all = 1..Len(all) /\ \A i \in 1..Len(all) : all[i] \in linked
    BY <1>9 DEF Sorted
  <2> QED  BY <1>9, <2>1 DEF Sorted, ToSet
<1>11. \A i, j \in 1..Len(all) : i < j => all[i] # all[j] /\ end_page[all[i]] <= start_page[all[j]]
  BY <1>2, <1>9, ExtentOrder DEF Sorted, OrderOf, StrictOrder
<1>12. IsInjective(all)
  BY <1>10, <1>11 DEF IsInjective
<1>13. \A i \in 1..Len(all) - 1 : end_page[all[i]] <= start_page[all[i + 1]]
  BY <1>10, <1>11
<1> QED  BY <1>10, <1>12, <1>13 DEF all

\* A search of the tree finds the record that holds the page, and the listing is every
\* record once and in order, however records were inserted, balanced, shrunk, split and
\* erased before.
THEOREM TreeInvCorrect == TreeSpec => []TreeInv
<1>1. TreeInd => TreeInv
  BY TypesHold, FindHolds, PrintHolds DEF TreeInv, TreeInd
<1> QED  BY <1>1, TreeStart, TreeStep, PTL DEF TreeSpec
=============================================================================
