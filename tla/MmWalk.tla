-------------------------------- MODULE MmWalk --------------------------------
(***************************************************************************)
(* print_vaddr_of_paddr of mem_leak/userspace/huawei_user_space_mem.c: it  *)
(* goes round the kernel's list of tasks from the current one, raises the  *)
(* user count of each task's address space, walks its page tables under    *)
(* page_table_lock and prints the task through the static now_task.        *)
(*                                                                         *)
(* The kernel forks, execs, exits and frees tasks all the while: the walk  *)
(* holds neither tasklist_lock nor rcu_read_lock.  "lost" is a caller that *)
(* has followed a NULL pointer or one into freed memory; what it does from *)
(* there on is undefined and is not followed, but a page_table_lock it has *)
(* taken stays taken.  The walk of one address space is PageWalk.          *)
(***************************************************************************)
EXTENDS Integers, FiniteSets

CONSTANTS
  Task,     \* task structs
  Caller,   \* the tasks that may call print_vaddr_of_paddr
  Swapper,  \* init_task, the head of the kernel's list: it never goes
  Mm,       \* address spaces
  Maps,     \* those that map the page at paddr
  First,    \* the tasks at the start, with their address spaces ...
  Succ,     \* ... and the order in which they are linked
  None

ASSUME MmAssumption ==
  /\ Caller \subseteq Task /\ Maps \subseteq Mm
  /\ Swapper \in Task \ Caller
  /\ None \notin Task \cup Mm
  /\ IsFiniteSet(Task)
  /\ DOMAIN First \subseteq Task /\ Swapper \in DOMAIN First
  /\ First \in [DOMAIN First -> Mm \cup {None}]
  \* Succ goes round them once, from Swapper.
  /\ Succ \in [DOMAIN First -> DOMAIN First]
  /\ \E rank \in [DOMAIN First -> 0 .. Cardinality(DOMAIN First) - 1] :
       /\ \A t, u \in DOMAIN First : rank[t] = rank[u] => t = u
       /\ \A t \in DOMAIN First :
            rank[Succ[t]] = (rank[t] + 1) % Cardinality(DOMAIN First)
       /\ rank[Swapper] = 0

VARIABLES
  next,      \* tasks.next of every task
  task,      \* where a task is in its life: "unborn", "listed", "unlinked", "freed"
  tmm,       \* the mm of every task
  made,      \* (kernel) the address spaces there have been
  users,     \* mm_users
  torn,      \* the address spaces whose page tables were freed
  now_task,
  walk,      \* per caller: its locals
  due,       \* per caller: the tasks that have had an address space since its
             \* call began, and that it has not looked at
  used,      \* the pairs of a task and its address space there have been
  report,    \* the pair that has just been printed for the page
  alone      \* no two calls have been under way at once

kernelVars == <<next, task, tmm, made, torn, used>>
vars == <<next, task, tmm, made, users, torn, now_task, walk, due, used, report,
          alone>>

Idle == [pc |-> "idle", p |-> None, n |-> None, mm |-> None, safe |-> FALSE,
         target |-> None]
Count(m) == Cardinality({t \in Task : tmm[t] = m})

Init ==
  /\ next = [t \in Task |-> IF t \in DOMAIN Succ THEN Succ[t] ELSE None]
  /\ task = [t \in Task |-> IF t \in DOMAIN First THEN "listed" ELSE "unborn"]
  /\ tmm = [t \in Task |-> IF t \in DOMAIN First THEN First[t] ELSE None]
  /\ made = {m \in Mm : Count(m) > 0}
  /\ users = [m \in Mm |-> Count(m)]
  /\ torn = {} /\ now_task = None /\ report = None /\ alone = TRUE
  /\ walk = [c \in Caller |-> Idle]
  /\ due = [c \in Caller |-> {}]
  /\ used = {<<t, tmm[t]>> : t \in {u \in Task : tmm[u] # None}}

-----------------------------------------------------------------------------
(* print_vaddr_of_paddr.                                                    *)

Freed(t) == task[t] = "freed"

\* A fault: the target, if there is one, is the address space whose lock is kept.
Lose(c) ==
  walk' = [walk EXCEPT ![c] = [Idle EXCEPT !.pc = "lost", !.target = walk[c].target]]

\* list_for_each_safe: the successor is read before the body runs.
Start(c) ==
  /\ walk[c].pc = "idle" /\ task[c] = "listed"
  /\ walk' = [walk EXCEPT ![c] =
                [Idle EXCEPT !.pc = "test", !.p = next[c], !.n = next[next[c]]]]
  /\ due' = [due EXCEPT ![c] = {t \in Task \ {c} : tmm[t] # None}]
  /\ alone' = (alone /\ \A d \in Caller : walk[d].pc = "idle")
  /\ UNCHANGED <<kernelVars, users, now_task, report>>

\* Mutant: the next element is skipped.
AdvanceTwice(c) ==
  /\ due' = [due EXCEPT ![c] = @ \ {walk[c].p}]
  /\ LET n == walk[c].n IN
       IF Freed(n) THEN Lose(c)
       ELSE walk' = [walk EXCEPT ![c] =
              [Idle EXCEPT !.pc = "test", !.p = IF n = c THEN c ELSE next[n],
                           !.n = next[next[n]]]]

\* To the successor that was read before the body.
Advance(c) ==
  /\ due' = [due EXCEPT ![c] = @ \ {walk[c].p}]
  /\ LET n == walk[c].n IN
       IF Freed(n) THEN Lose(c)
       ELSE walk' = [walk EXCEPT ![c] =
                       [Idle EXCEPT !.pc = "test", !.p = n, !.n = next[n]]]

\* Back at the head; a task without an address space; or one with.
Test(c) ==
  LET p == walk[c].p IN
    /\ walk[c].pc = "test"
    /\ \/ p = c /\ walk' = [walk EXCEPT ![c] = Idle] /\ UNCHANGED due
       \/ p # c /\ Freed(p) /\ Lose(c) /\ UNCHANGED due
       \/ p # c /\ ~Freed(p) /\ tmm[p] = None /\ Advance(c)
       \/ /\ p # c /\ ~Freed(p) /\ tmm[p] # None
          /\ walk' = [walk EXCEPT ![c].pc = "take", ![c].mm = tmm[p]]
          /\ UNCHANGED due
    /\ UNCHANGED <<kernelVars, users, now_task, report, alone>>

\* mm = p->mm: the compiler may read it again or use what was tested.
Take(c) ==
  LET p == walk[c].p IN
    /\ walk[c].pc = "take"
    /\ \/ walk' = [walk EXCEPT ![c].pc = "count"]
       \/ IF Freed(p) \/ tmm[p] = None THEN Lose(c)
          ELSE walk' = [walk EXCEPT ![c].pc = "count", ![c].mm = tmm[p]]
    /\ UNCHANGED <<kernelVars, users, now_task, due, report, alone>>

\* Mutants: the count is not raised; now_task is the caller.
RaiseNot(c) ==
  LET m == walk[c].mm IN
    /\ walk[c].pc = "count"
    /\ now_task' = walk[c].p
    /\ walk' = [walk EXCEPT ![c].pc = "lock", ![c].safe = m \notin torn]
    /\ UNCHANGED <<kernelVars, users, due, report, alone>>

RaiseCurrent(c) ==
  LET m == walk[c].mm IN
    /\ walk[c].pc = "count"
    /\ users' = [users EXCEPT ![m] = @ + 1]
    /\ now_task' = c
    /\ walk' = [walk EXCEPT ![c].pc = "lock", ![c].safe = m \notin torn]
    /\ UNCHANGED <<kernelVars, due, report, alone>>

\* atomic_inc(&mm->mm_users), in a struct that may outlive its page tables;
\* now_task = p.
Raise(c) ==
  LET m == walk[c].mm IN
    /\ walk[c].pc = "count"
    /\ users' = [users EXCEPT ![m] = @ + 1]
    /\ now_task' = walk[c].p
    /\ walk' = [walk EXCEPT ![c].pc = "lock", ![c].safe = m \notin torn]
    /\ UNCHANGED <<kernelVars, due, report, alone>>

\* walk_mm_struct(p->mm, paddr): p->mm may be read once more; its
\* page_table_lock is taken ...
WalkBegin(c) ==
  LET p == walk[c].p IN
    /\ walk[c].pc = "lock"
    /\ \/ (Freed(p) \/ tmm[p] = None) /\ Lose(c)
       \/ \E m \in {walk[c].mm} \cup (IF Freed(p) THEN {} ELSE {tmm[p]} \ {None}) :
            /\ \A d \in Caller : walk[d].target # m
            /\ walk' = [walk EXCEPT ![c].pc = "walk", ![c].target = m]
    /\ UNCHANGED <<kernelVars, users, now_task, due, report, alone>>

\* Mutant: the lock is kept.
WalkEndKeepsLock(c) ==
  /\ walk[c].pc = "walk"
  /\ now_task' = None
  /\ UNCHANGED <<kernelVars, users, walk, due, report, alone>>

\* ... and the page, if it is there, printed with now_task; now_task = NULL.
WalkEnd(c) ==
  LET m == walk[c].target IN
    /\ walk[c].pc = "walk"
    /\ IF m \in torn \/ (m \in Maps /\ (now_task = None \/ Freed(now_task)))
       THEN Lose(c) /\ UNCHANGED <<report, now_task>>
       ELSE /\ report' = IF m \in Maps THEN <<now_task, m>> ELSE None
            /\ now_task' = None
            /\ walk' = [walk EXCEPT ![c].pc = "drop", ![c].target = None]
    /\ UNCHANGED <<kernelVars, users, due, alone>>

\* Mutant: the count of the task's address space, not of the one raised.
DropCurrent(c) ==
  LET m == tmm[walk[c].p] IN
    /\ walk[c].pc = "drop"
    /\ users' = IF m = None THEN users ELSE [users EXCEPT ![m] = @ - 1]
    /\ report' = None
    /\ Advance(c)
    /\ UNCHANGED <<kernelVars, now_task, alone>>

\* atomic_dec(&mm->mm_users): the last user does not tear the space down.
Drop(c) ==
  LET m == walk[c].mm IN
    /\ walk[c].pc = "drop"
    /\ users' = [users EXCEPT ![m] = @ - 1]
    /\ report' = None
    /\ Advance(c)
    /\ UNCHANGED <<kernelVars, now_task, alone>>

-----------------------------------------------------------------------------
(* The kernel.                                                              *)

Resting == {c \in Caller : walk[c].pc = "idle"}
CanExit(t) == task[t] = "listed" /\ t # Swapper /\ (t \in Caller => t \in Resting)

\* mmput: the last user frees the page tables.
Put(m) ==
  /\ users' = [users EXCEPT ![m] = @ - 1]
  /\ torn' = IF users[m] = 1 THEN torn \cup {m} ELSE torn

\* A thread of t's address space, a process with a new one, or a kernel thread,
\* linked at the tail of the list.
Fork(t, u, m) ==
  /\ task[t] = "listed" /\ (t \in Caller => t \in Resting) /\ task[u] = "unborn"
  /\ m \in {None, tmm[t]} \/ m \in Mm \ made
  /\ task' = [task EXCEPT ![u] = "listed"]
  /\ \E x \in Task : /\ task[x] = "listed" /\ next[x] = Swapper
                     /\ next' = [next EXCEPT ![x] = u, ![u] = Swapper]
  /\ tmm' = [tmm EXCEPT ![u] = m]
  /\ made' = made \cup ({m} \ {None})
  /\ users' = IF m = None THEN users ELSE [users EXCEPT ![m] = @ + 1]
  /\ used' = IF m = None THEN used ELSE used \cup {<<u, m>>}
  /\ UNCHANGED <<torn, now_task, walk, due, report, alone>>

\* exec: a new address space for the old one.
Exec(t, m) ==
  /\ CanExit(t) /\ tmm[t] # None /\ m \in Mm \ made
  /\ tmm' = [tmm EXCEPT ![t] = m]
  /\ made' = made \cup {m}
  /\ users' = [users EXCEPT ![m] = 1, ![tmm[t]] = @ - 1]
  /\ torn' = IF users[tmm[t]] = 1 THEN torn \cup {tmm[t]} ELSE torn
  /\ used' = used \cup {<<t, m>>}
  /\ UNCHANGED <<next, task, now_task, walk, due, report, alone>>

\* exit_mm.
ExitMm(t) ==
  /\ CanExit(t) /\ tmm[t] # None
  /\ tmm' = [tmm EXCEPT ![t] = None]
  /\ Put(tmm[t])
  /\ due' = [c \in Caller |-> due[c] \ {t}]
  /\ UNCHANGED <<next, task, made, now_task, walk, used, report, alone>>

\* release_task: list_del_rcu leaves the task's own next as it was.
Unlink(t) ==
  /\ CanExit(t) /\ tmm[t] = None
  /\ task' = [task EXCEPT ![t] = "unlinked"]
  /\ next' = [x \in Task |-> IF task[x] = "listed" /\ next[x] = t THEN next[t]
                             ELSE next[x]]
  /\ UNCHANGED <<tmm, made, users, torn, now_task, walk, due, used, report,
                 alone>>

\* The last reference goes; no reader of the list is waited for.
FreeTask(t) ==
  /\ task[t] = "unlinked"
  /\ task' = [task EXCEPT ![t] = "freed"]
  /\ UNCHANGED <<next, tmm, made, users, torn, now_task, walk, due, used, report,
                 alone>>

-----------------------------------------------------------------------------
CallerStep(c) ==
  \/ Start(c) \/ Test(c) \/ Take(c) \/ Raise(c)
  \/ WalkBegin(c) \/ WalkEnd(c) \/ Drop(c)

KernelStep ==
  \/ \E t, u \in Task, m \in Mm \cup {None} : Fork(t, u, m)
  \/ \E t \in Task, m \in Mm : Exec(t, m)
  \/ \E t \in Task : ExitMm(t) \/ Unlink(t) \/ FreeTask(t)

Next == KernelStep \/ \E c \in Caller : CallerStep(c)

Spec == Init /\ [][Next]_vars

\* A caller that has begun runs on, and a ticket for a page_table_lock gets its
\* turn, however often another caller takes the lock; nothing is assumed of the
\* kernel.
Fairness == \A c \in Caller :
  SF_vars(Test(c) \/ Take(c) \/ Raise(c) \/ WalkBegin(c) \/ WalkEnd(c) \/ Drop(c))

FairSpec == Spec /\ Fairness

-----------------------------------------------------------------------------
(* Properties.                                                              *)

\* Every variable has its type.
MmTypeOK ==
  /\ next \in [Task -> Task \cup {None}]
  /\ task \in [Task -> {"unborn", "listed", "unlinked", "freed"}]
  /\ tmm \in [Task -> Mm \cup {None}]
  /\ made \subseteq Mm /\ torn \subseteq made
  /\ users \in [Mm -> Nat]
  /\ now_task \in Task \cup {None}
  /\ walk \in [Caller ->
       [pc : {"idle", "test", "take", "count", "lock", "walk", "drop", "lost"},
        p : Task \cup {None}, n : Task \cup {None}, mm : Mm \cup {None},
        safe : BOOLEAN, target : Mm \cup {None}]]
  /\ due \in [Caller -> SUBSET Task]
  /\ used \subseteq Task \X Mm /\ report \in Task \X Mm \cup {None}
  /\ alone \in BOOLEAN

\* A call that comes back has looked at every other task that had an address
\* space throughout, whatever was forked, unlinked and freed under its cached
\* successor.
AllSeen ==
  \A c \in Caller : walk[c].pc = "idle" => due[c] = {}

\* Counted in time, an address space is not torn down before its count is
\* lowered, even if its task goes on to another one: what atomic_inc is for.
CountedStays ==
  \A c \in Caller :
    walk[c].pc \in {"lock", "walk", "drop"} /\ walk[c].safe =>
      walk[c].mm \notin torn

\* The count is raised and lowered on the same address space: it is never short
\* of the tasks that use it, and a call that comes back leaves nothing behind.
Counted(m) == {c \in Caller : walk[c].pc \in {"lock", "walk", "drop"} /\ walk[c].mm = m}

CountBalanced ==
  \A m \in Mm :
    LET held == Count(m) + Cardinality(Counted(m)) IN
      /\ users[m] >= held
      /\ (\A c \in Caller : walk[c].pc # "lost") => users[m] = held

\* While calls are made one at a time, a page is printed with a task that has
\* used it; two calls at once print each other's tasks.
ReportTrue == alone => report \in used \cup {None}

\* The page tables are not freed while they are walked: the comment at
\* huawei_user_space_mem.c:217.
TablesStay ==
  \A c \in Caller : walk[c].pc = "walk" => walk[c].target \notin torn

\* The lock a caller is about to take is that of a caller that has faulted.
Behind(c) ==
  /\ walk[c].pc = "lock"
  /\ \E d \in Caller :
       walk[d].pc = "lost" /\ walk[d].target \in {walk[c].mm, tmm[walk[c].p]} \ {None}

\* Every call comes back in the end, has followed a bad pointer, or waits for one
\* that has: no caller is in the middle of one for good.
CallEnds == \A c \in Caller : []<>(walk[c].pc \in {"idle", "lost"} \/ Behind(c))

-----------------------------------------------------------------------------
(* Why: an inductive invariant behind the above.                            *)

Walking(c) == walk[c].pc \notin {"idle", "lost"}
Listed == {t \in Task : task[t] = "listed"}
Born == {t \in Task : task[t] # "unborn"}

\* Address spaces belong to tasks on the list; one that is yet to be made has
\* no users.
MadeInv ==
  /\ \A t \in Task : tmm[t] # None => t \in Listed /\ <<t, tmm[t]>> \in used
  /\ \A t \in Task : tmm[t] \in made \cup {None}
  /\ \A c \in Caller : walk[c].mm \in made \cup {None}
  /\ \A m \in Mm \ made : users[m] = 0

\* A call's task is on the list; what it has read of p, p has had.
WalkInv ==
  \A c \in Caller : Walking(c) =>
    /\ c \in Listed /\ walk[c].p \in Born /\ walk[c].n \in Born
    /\ walk[c].pc # "test" => <<walk[c].p, walk[c].mm>> \in used
    /\ walk[c].pc = "walk" => <<walk[c].p, walk[c].target>> \in used

\* now_task is that of the one call there is.
AloneInv ==
  alone =>
    /\ \A c, d \in Caller : walk[c].pc # "idle" /\ walk[d].pc # "idle" => c = d
    /\ \A c \in Caller : walk[c].pc \in {"lock", "walk"} => now_task = walk[c].p

\* b comes between a and c, going round in the order of the numbers.
Between(a, b, c) == IF a < c THEN a < b /\ b < c ELSE a < b \/ b < c

\* The list goes round the tasks from Swapper in the order of their birth, and a
\* task that has left it still points to one that comes later, or to Swapper.
Ordered(rank) ==
  /\ Swapper \in Listed /\ rank[Swapper] = 0
  /\ \A t, u \in Born : rank[t] = rank[u] => t = u
  /\ \A t \in Born : next[t] \in Born /\ (next[t] = Swapper \/ rank[t] < rank[next[t]])
  /\ \A t \in Listed : next[t] \in Listed
  /\ \A t, u \in Listed : ~Between(rank[t], rank[u], rank[next[t]])

\* Going on from x, c meets every task of D before itself.
Meets(rank, c, x, D) ==
  IF x = c THEN D = {}
  ELSE \A t \in D : t = x \/ Between(rank[x], rank[t], rank[c])

\* From the successor it read, a call gets to all that is due, whatever has left
\* the list: R holds the tasks that were on it at some time of the call.
Ahead(c, rank) ==
  /\ \A t \in due[c] : tmm[t] # None
  /\ Meets(rank, c, walk[c].p, due[c])
  /\ Meets(rank, c, walk[c].n, due[c] \ {walk[c].p})
  /\ \E R \in SUBSET Born :
       /\ Listed \cup {walk[c].n} \subseteq R
       /\ \A x \in R : /\ next[x] \in R
                       /\ \A t \in due[c] \cup {c} :
                            ~Between(rank[x], rank[t], rank[next[x]])

OrderInv ==
  \E rank \in [Born -> 0 .. Cardinality(Born) - 1] :
    Ordered(rank) /\ \A c \in Caller : Walking(c) => Ahead(c, rank)

\* The counts are right, now_task is its caller's, and the list takes each caller
\* past all it is to see.
MmInv == /\ MmTypeOK /\ CountBalanced /\ MadeInv /\ WalkInv /\ AloneInv
         /\ OrderInv
=============================================================================
