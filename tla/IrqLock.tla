------------------------------- MODULE IrqLock -------------------------------
(***************************************************************************)
(* Who waits for whom in mem_leak/kerspace/huawei_log_page.c: lp_lock and  *)
(* lp_pool_lock are plain spin locks, taken by print_page and              *)
(* print_log_page_all with interrupts on, and by the probes' handlers,     *)
(* which run with interrupts off - in a task or in an interrupt.           *)
(*                                                                         *)
(* A context is a processor's task or the interrupt on top of it.  A spin  *)
(* lock is the queue of the contexts that have drawn a ticket for it; the  *)
(* first holds it.  What the critical sections do is in LogPage, LpTree    *)
(* and FreeList.                                                           *)
(***************************************************************************)
EXTENDS Integers, FiniteSets, Sequences, SequencesExt

CONSTANT Cpu

Level == {"task", "irq"}
Context == Cpu \X Level

VARIABLES
  lp_lock, lp_pool_lock,  \* queues of contexts
  place                   \* where every context is
lockVars == <<lp_lock, lp_pool_lock, place>>

InQuery == {"print_page", "print_log_page"}

LockInit == lp_lock = <<>> /\ lp_pool_lock = <<>> /\ place = [x \in Context |-> "idle"]

\* A context runs unless an interrupt has come on top of it.
Runs(x) == x[2] = "irq" \/ place[<<x[1], "irq">>] = "idle"

\* A handler runs with interrupts off; idle tasks and queries are interrupted.
MayBegin(x) == x[2] = "irq" => place[<<x[1], "task">>] \in {"idle"} \cup InQuery

Go(x, from, to) == Runs(x) /\ place[x] = from /\ place' = [place EXCEPT ![x] = to]
Begin(x, to) == Go(x, "idle", to) /\ MayBegin(x)

\* A ticket is drawn; its turn has come; the lock is given back.
Draw(lock, x) == lock' = Append(lock, x)
Turn(lock, x) == lock # <<>> /\ Head(lock) = x
Leave(lock) == lock' = Tail(lock)

-----------------------------------------------------------------------------
\* print_page: the record is printed under lp_lock.
print_page(x) ==
  /\ x[2] = "task"
  /\ \/ Begin(x, "print_page") /\ Draw(lp_lock, x)
     \/ Turn(lp_lock, x) /\ Go(x, "print_page", "print_log_page") /\ UNCHANGED lp_lock
     \/ Go(x, "print_log_page", "idle") /\ Leave(lp_lock)
  /\ UNCHANGED lp_pool_lock

\* The entry handler takes a record from the pool; the return handler of a call
\* that failed puts it back ...
EntryHandler(x) ==
  /\ \/ Begin(x, "__alloc_lp") /\ Draw(lp_pool_lock, x)
     \/ Turn(lp_pool_lock, x) /\ Go(x, "__alloc_lp", "idle") /\ Leave(lp_pool_lock)
  /\ UNCHANGED lp_lock

\* ... or links it.
RetHandler(x) ==
  /\ \/ Begin(x, "log_page_insert") /\ Draw(lp_lock, x)
     \/ Turn(lp_lock, x) /\ Go(x, "log_page_insert", "idle") /\ Leave(lp_lock)
  /\ UNCHANGED lp_pool_lock

\* Mutant: the record for a split is taken before lp_lock is.
do_log_page_freePoolFirst(x) ==
  \/ Begin(x, "do_log_page_free") /\ Draw(lp_pool_lock, x) /\ UNCHANGED lp_lock
  \/ /\ Turn(lp_pool_lock, x) /\ Go(x, "do_log_page_free", "loop")
     /\ UNCHANGED <<lp_lock, lp_pool_lock>>
  \/ Go(x, "loop", "alloc_lp") /\ Draw(lp_lock, x) /\ UNCHANGED lp_pool_lock
  \/ /\ Turn(lp_lock, x) /\ Go(x, "alloc_lp", "loop")
     /\ Leave(lp_lock) /\ UNCHANGED lp_pool_lock
  \/ Go(x, "loop", "idle") /\ Leave(lp_pool_lock) /\ UNCHANGED lp_lock

\* The loop of a free under lp_lock, with alloc_lp or free_lp inside it.
do_log_page_free(x) ==
  \/ Begin(x, "do_log_page_free") /\ Draw(lp_lock, x) /\ UNCHANGED lp_pool_lock
  \/ /\ Turn(lp_lock, x) /\ Go(x, "do_log_page_free", "loop")
     /\ UNCHANGED <<lp_lock, lp_pool_lock>>
  \/ Go(x, "loop", "alloc_lp") /\ Draw(lp_pool_lock, x) /\ UNCHANGED lp_lock
  \/ /\ Turn(lp_pool_lock, x) /\ Go(x, "alloc_lp", "loop")
     /\ Leave(lp_pool_lock) /\ UNCHANGED lp_lock
  \/ Go(x, "loop", "idle") /\ Leave(lp_lock) /\ UNCHANGED lp_pool_lock

Step(x) == print_page(x) \/ EntryHandler(x) \/ RetHandler(x) \/ do_log_page_free(x)

LockNext == \E x \in Context : Step(x)

LockSpec == LockInit /\ [][LockNext]_lockVars

-----------------------------------------------------------------------------
(* Properties.                                                              *)

\* A query that was interrupted with a ticket for lp_lock, by a handler that
\* wants the lock too: the processor spins for what only it can give back.
SelfLocked ==
  \E c \in Cpu : /\ place[<<c, "task">>] \in InQuery
                 /\ {<<c, "task">>, <<c, "irq">>} \subseteq ToSet(lp_lock)

\* Whom a context waits for: the interrupt on top of it, or the holder of the
\* lock it has a ticket for; itself if it can go on.
Ahead(x) ==
  IF ~Runs(x) THEN <<x[1], "irq">>
  ELSE IF \E q \in {lp_lock, lp_pool_lock} : x \in ToSet(q) /\ Head(q) # x
  THEN Head(CHOOSE q \in {lp_lock, lp_pool_lock} : x \in ToSet(q) /\ Head(q) # x)
  ELSE x

\* Whoever waits waits, in the end, for a context that can go on - unless some
\* query was interrupted by what needs its lock: the order of the two locks and
\* the handlers' interrupts, off while they hold one, make no other circle.
NoCircle ==
  SelfLocked \/
    \A waiting \in SUBSET Context :
      waiting # {} /\ (\A x \in waiting : Ahead(x) \in waiting)
        => \E x \in waiting : Ahead(x) = x

-----------------------------------------------------------------------------
(* Why: the tickets are where the contexts are, and who is past lp_lock has  *)
(* it.                                                                       *)

WithLpLock == InQuery \cup {"log_page_insert", "do_log_page_free", "loop", "alloc_lp"}
WithPoolLock == {"__alloc_lp", "alloc_lp"}

\* One ticket each, for the contexts at these places.
QueueOf(lock, places) ==
  /\ lock \in Seq(Context) /\ IsInjective(lock)
  /\ \A x \in Context : x \in ToSet(lock) <=> place[x] \in places

LockInv ==
  /\ place \in [Context -> {"idle"} \cup WithLpLock \cup WithPoolLock]
  /\ QueueOf(lp_lock, WithLpLock) /\ QueueOf(lp_pool_lock, WithPoolLock)
  /\ \A x \in Context :
       /\ place[x] \in {"print_log_page", "loop", "alloc_lp"} => Head(lp_lock) = x
       /\ place[x] # "idle" => MayBegin(x)
=============================================================================
