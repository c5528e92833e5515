------------------------------ MODULE RmapQuery ------------------------------
(***************************************************************************)
(* get_process_info of mem_leak/rmap/rmap.c: which processes map a page.   *)
(* The vmas of an anonymous page are collected under the lock of its       *)
(* anon_vma, those of a file page from its i_mmap tree under no lock; an   *)
(* entry for each is put on the global list task_head, and the list is     *)
(* printed and its entries freed - but never unlinked.  The walk of i_mmap *)
(* is PrioTree; here it is a walk of the same vmas in some order.          *)
(*                                                                         *)
(* A freed entry may still be read and written (its translation is flushed *)
(* late), or the access faults; vmalloc may hand its address out again.    *)
(* "lost" is a call that has faulted.  Calls are made one at a time.       *)
(***************************************************************************)
EXTENDS Integers, Sequences, SequencesExt

CONSTANTS
  Node,       \* addresses of struct task_info
  task_head,  \* the head of their list
  Task,
  Page,
  AnonPages,  \* the anonymous ones; the others are of files
  MaxVmas,    \* how many vmas may map a page at once
  MaxCalls,
  None

ASSUME RmapAssumption ==
  /\ AnonPages \subseteq Page /\ task_head \notin Node
  /\ None \notin Task \cup Page \cup Node
  /\ MaxVmas \in Nat /\ MaxCalls \in Nat

VARIABLES
  next,       \* list.next of the head and of the entries
  pid,        \* the process of every entry
  mem,        \* "unused", "live" or "freed": the memory of every entry
  vmas,       \* per page, the owners of the vmas that map it, in order
  state,      \* "mapped", "unmapped", or "swapped": page->mapping is NULL
  gone,       \* the tasks whose struct was freed
  anonLock,   \* the page whose anon_vma is locked
  rcu,        \* inside rcu_read_lock
  call,       \* the locals of the call
  calls,
  moved,      \* the tree has changed since the walk of it began
  reused,     \* an address that was still linked has been handed out again
  stay, met,  \* the owners that mapped the page throughout, or at some time
  printed

kernelVars == <<vmas, state, gone, calls, moved, stay, met>>
vars == <<next, pid, mem, vmas, state, gone, anonLock, rcu, call, calls, moved,
          reused, stay, met, printed>>

Idle == [pc |-> "idle", page |-> None, i |-> 0, cur |-> task_head]
Owners(p) == ToSet(vmas[p]) \ {None}

Init ==
  /\ next = [n \in Node \cup {task_head} |-> task_head]
  /\ pid = [n \in Node |-> None] /\ mem = [n \in Node |-> "unused"]
  /\ vmas = [p \in Page |-> <<>>] /\ state = [p \in Page |-> "mapped"]
  /\ gone = {} /\ anonLock = None /\ rcu = FALSE
  /\ call = Idle /\ calls = 0 /\ moved = FALSE /\ reused = FALSE
  /\ stay = {} /\ met = {} /\ printed = {}

-----------------------------------------------------------------------------
(* The call.                                                                *)

\* rmap.c leaves with a fault: locks are never given back.
Lose == call' = [call EXCEPT !.pc = "lost"]

\* get_process_info: a page with no mapping is "swapped".
get_process_info(p) ==
  /\ call.pc = "idle" /\ calls < MaxCalls /\ calls' = calls + 1
  /\ call' = IF state[p] = "swapped" THEN Idle
             ELSE [Idle EXCEPT !.pc = "locate", !.page = p]
  /\ stay' = Owners(p) /\ met' = Owners(p) /\ printed' = {} /\ moved' = FALSE
  /\ UNCHANGED <<next, pid, mem, vmas, state, gone, anonLock, rcu, reused>>

\* PageAnon and page_locate_file read page->mapping again: where it has become
\* NULL the page passes for a file's, with a tree at no address.
Locate ==
  /\ call.pc = "locate"
  /\ \/ state[call.page] = "swapped" /\ Lose
     \/ /\ state[call.page] # "swapped" /\ call.page \in AnonPages
        /\ call' = [call EXCEPT !.pc = "lock"]
     \/ /\ state[call.page] # "swapped" /\ call.page \notin AnonPages
        /\ call' = [call EXCEPT !.pc = "collect", !.i = 1]
  /\ UNCHANGED <<next, pid, mem, kernelVars, anonLock, rcu, reused, printed>>

\* Mutants: the way out keeps rcu_read_lock; the anon_vma is not locked.
page_lock_anon_vma_userLeaks ==
  /\ call.pc = "lock"
  /\ rcu' = TRUE
  /\ IF state[call.page] = "mapped"
     THEN /\ anonLock' = call.page
          /\ call' = [call EXCEPT !.pc = "collect", !.i = 1]
     ELSE UNCHANGED anonLock /\ call' = Idle
  /\ UNCHANGED <<next, pid, mem, kernelVars, reused, printed>>

page_lock_anon_vma_userNoLock ==
  /\ call.pc = "lock"
  /\ IF state[call.page] = "mapped"
     THEN rcu' = TRUE /\ call' = [call EXCEPT !.pc = "collect", !.i = 1]
     ELSE UNCHANGED rcu /\ call' = Idle
  /\ UNCHANGED <<anonLock, next, pid, mem, kernelVars, reused, printed>>

\* page_lock_anon_vma_user: page->mapping and the map count are read again.
page_lock_anon_vma_user ==
  /\ call.pc = "lock"
  /\ IF state[call.page] = "mapped"
     THEN /\ rcu' = TRUE /\ anonLock' = call.page
          /\ call' = [call EXCEPT !.pc = "collect", !.i = 1]
     ELSE UNCHANGED <<rcu, anonLock>> /\ call' = Idle
  /\ UNCHANGED <<next, pid, mem, kernelVars, reused, printed>>

\* Mutant: one entry serves for every vma.
AddSame(n, t) ==
  /\ next' = [next EXCEPT ![n] = next[task_head], ![task_head] = n]
  /\ pid' = [pid EXCEPT ![n] = t]
  /\ mem' = [mem EXCEPT ![n] = "live"]
  /\ reused' = (reused \/ mem[n] = "freed")
  /\ call' = [call EXCEPT !.i = @ + 1]

\* vmalloc of an entry for t, and list_add: it writes to the entry that was
\* first.
Add(n, t) ==
  /\ mem[n] # "live"
  /\ next' = [next EXCEPT ![n] = next[task_head], ![task_head] = n]
  /\ pid' = [pid EXCEPT ![n] = t]
  /\ mem' = [mem EXCEPT ![n] = "live"]
  /\ reused' = (reused \/ mem[n] = "freed")
  /\ call' = [call EXCEPT !.i = @ + 1]

\* One vma of page_locate_anon or page_locate_file.  No memory, an owner that is
\* NULL, or a tree that has changed underfoot: the call faults.
Collect ==
  /\ call.pc = "collect" /\ call.i <= Len(vmas[call.page])
  /\ \/ Lose /\ UNCHANGED <<next, pid, mem, reused>>
     \/ /\ vmas[call.page][call.i] # None
        /\ \E n \in Node : Add(n, vmas[call.page][call.i])
  /\ UNCHANGED <<kernelVars, anonLock, rcu, printed>>

\* After the last vma, page_unlock_anon_vma_user for an anonymous page.
Collected ==
  /\ call.pc = "collect" /\ call.i > Len(vmas[call.page])
  /\ anonLock' = None /\ rcu' = FALSE
  /\ call' = [call EXCEPT !.pc = "print", !.cur = next[task_head]]
  /\ UNCHANGED <<next, pid, mem, kernelVars, reused, printed>>

\* One entry: its process is printed, through a pointer into the task struct for
\* the name ...
PrintEntry ==
  /\ call.pc = "print" /\ call.cur # task_head
  /\ \/ Lose /\ UNCHANGED printed
     \/ /\ printed' = printed \cup {pid[call.cur]}
        /\ call' = [call EXCEPT !.pc = "free"]
  /\ UNCHANGED <<next, pid, mem, kernelVars, anonLock, rcu, reused>>

\* ... it is vfreed, and then its next is read.
FreeEntry ==
  /\ call.pc = "free"
  /\ mem' = [mem EXCEPT ![call.cur] = "freed"]
  /\ Lose \/ call' = [call EXCEPT !.pc = "print", !.cur = next[call.cur]]
  /\ UNCHANGED <<next, pid, printed, kernelVars, anonLock, rcu, reused>>

\* Back at the head of the list.
Return ==
  /\ call.pc = "print" /\ call.cur = task_head
  /\ call' = [Idle EXCEPT !.page = call.page]
  /\ UNCHANGED <<next, pid, mem, kernelVars, anonLock, rcu, reused, printed>>

-----------------------------------------------------------------------------
(* The kernel: an anon_vma changes under its lock.                          *)

Asked(p) == call.pc # "idle" /\ p = call.page
Changing(p) == moved' = (moved \/ (Asked(p) /\ p \notin AnonPages))

MapVma(p, t) ==
  /\ anonLock # p /\ t \notin gone /\ Len(vmas[p]) < MaxVmas
  /\ state[p] = "mapped"
  /\ vmas' = [vmas EXCEPT ![p] = Append(@, t)]
  /\ met' = IF Asked(p) THEN met \cup {t} ELSE met
  /\ Changing(p)
  /\ UNCHANGED <<next, pid, mem, state, gone, anonLock, rcu, call, calls, reused,
                 stay, printed>>

UnmapVma(p, i) ==
  /\ anonLock # p /\ i \in DOMAIN vmas[p]
  /\ vmas' = [vmas EXCEPT ![p] = RemoveAt(@, i)]
  /\ stay' = IF Asked(p) THEN stay \cap ToSet(RemoveAt(vmas[p], i)) ELSE stay
  /\ Changing(p)
  /\ UNCHANGED <<next, pid, mem, state, gone, anonLock, rcu, call, calls, reused,
                 met, printed>>

\* The task exits.  If something else still uses its address space, the vmas
\* stay, with an mm that has no owner.
Exit(t) ==
  /\ t \notin gone
  /\ gone' = gone \cup {t}
  /\ stay' = IF call.pc = "idle" THEN stay ELSE stay \ {t}
  /\ vmas' = [p \in Page |-> [i \in DOMAIN vmas[p] |->
                IF vmas[p][i] = t THEN None ELSE vmas[p][i]]]
  /\ UNCHANGED <<next, pid, mem, state, anonLock, rcu, call, calls, moved, reused,
                 met, printed>>

\* Reclaim unmaps the page and takes it from its mapping; a fault brings it back.
Reclaim(p, s) ==
  /\ <<state[p], s>> \in {<<"mapped", "unmapped">>, <<"unmapped", "swapped">>,
                          <<"unmapped", "mapped">>, <<"swapped", "mapped">>}
  /\ state' = [state EXCEPT ![p] = s]
  /\ UNCHANGED <<next, pid, mem, vmas, gone, anonLock, rcu, call, calls, moved,
                 reused, stay, met, printed>>

-----------------------------------------------------------------------------
CallStep == Locate \/ page_lock_anon_vma_user \/ Collect \/ Collected
            \/ PrintEntry \/ FreeEntry \/ Return

\* Nothing is followed past a fault.
KernelStep ==
  /\ call.pc # "lost"
  /\ \/ \E p \in Page :
          \/ \E t \in Task : MapVma(p, t)
          \/ \E i \in 1..MaxVmas : UnmapVma(p, i)
          \/ \E s \in {"mapped", "unmapped", "swapped"} : Reclaim(p, s)
     \/ \E t \in Task : Exit(t)

Next == (\E p \in Page : get_process_info(p)) \/ CallStep \/ KernelStep

Spec == Init /\ [][Next]_vars

-----------------------------------------------------------------------------
(* Properties.                                                              *)

\* Every variable has its type.
RmapTypeOK ==
  /\ next \in [Node \cup {task_head} -> Node \cup {task_head}]
  /\ pid \in [Node -> Task \cup {None}]
  /\ mem \in [Node -> {"unused", "live", "freed"}]
  /\ vmas \in [Page -> Seq(Task \cup {None})]
  /\ \A p \in Page : Len(vmas[p]) <= MaxVmas
  /\ state \in [Page -> {"mapped", "unmapped", "swapped"}]
  /\ gone \subseteq Task /\ anonLock \in AnonPages \cup {None} /\ rcu \in BOOLEAN
  /\ call \in [pc : {"idle", "locate", "lock", "collect", "print", "free", "lost"},
               page : Page \cup {None}, i : 0..MaxVmas + 1, cur : Node \cup {task_head}]
  /\ calls \in 0..MaxCalls /\ moved \in BOOLEAN /\ reused \in BOOLEAN
  /\ stay \subseteq Task /\ met \subseteq Task /\ printed \subseteq Task

\* A call that comes back having printed (the list it went round has its head)
\* has printed every process that mapped the page from the call's start to now,
\* unless the file's tree changed under it.
AllRelated ==
  call.pc = "idle" /\ call.page # None /\ ~moved => stay \subseteq printed

\* The anon_vma is locked, inside an RCU section, while its vmas are collected
\* and at no other time, unless the call has faulted.
LockBalanced ==
  call.pc # "lost" =>
    LET held == call.pc = "collect" /\ call.page \in AnonPages IN
      rcu = held /\ anonLock = IF held THEN call.page ELSE None

\* As long as no linked entry has been handed out again, task_head is reached
\* again from itself (no entries it leads to lead to one another only): a call
\* that prints the list comes back, or faults.
ListEnds ==
  reused \/ ~\E X \in SUBSET Node : next[task_head] \in X /\ \A x \in X : next[x] \in X

\* Only processes that mapped the page during the call are printed: the comment
\* at rmap.c:348.
PrintedRelated == call.pc = "idle" => printed \subseteq met

-----------------------------------------------------------------------------
(* Why: an inductive invariant behind the above.                            *)

\* A call has a page until it comes back, only an anonymous one has a lock, and
\* its vmas are counted from 1.
PageInv ==
  /\ call.pc # "idle" => call.page \in Page
  /\ call.pc = "lock" => call.page \in AnonPages
  /\ call.pc = "collect" => call.i > 0

\* Only what has been handed out is linked, and it has a process.
EntryInv ==
  /\ \A n \in Node : mem[n] = "unused" => \A x \in Node \cup {task_head} : next[x] # n
  /\ \A n \in Node : mem[n] # "unused" => pid[n] \in Task
  /\ call.cur # task_head => mem[call.cur] # "unused"
  /\ call.pc = "free" => call.cur # task_head

\* f: the entries of this call as they were added, each linked to the one before.
Linked(f) == \A j \in DOMAIN f : j > 1 => next[f[j]] = f[j - 1]
Pids(f) == {pid[f[j]] : j \in DOMAIN f}
Left == {vmas[call.page][j] : j \in call.i..Len(vmas[call.page])}

\* While the vmas are collected the list begins with those entries, and they and
\* the vmas that are left hold every process that stays ...
Collecting ==
  \E f \in [1..call.i - 1 -> Node] :
    /\ Linked(f) /\ \A j \in DOMAIN f : mem[f[j]] = "live"
    /\ call.i > 1 => next[task_head] = f[call.i - 1]
    /\ ~moved => stay \subseteq Pids(f) \cup Left

\* ... and as it is printed, it is not left before the last of them.
Printing ==
  \E k \in 0..MaxVmas : \E f \in [1..k -> Node], j \in 0..k :
    /\ Linked(f) /\ (j > 0 => call.cur = f[j])
    /\ \A l \in 1..k : l > j \/ (l = j /\ call.pc = "free") => pid[f[l]] \in printed
    /\ ~moved => stay \subseteq Pids(f)

ChainInv ==
  /\ call.pc \in {"locate", "lock"} => stay \subseteq Owners(call.page)
  /\ call.pc = "collect" => Collecting
  /\ call.pc \in {"print", "free"} => Printing

\* A call holds the locks that it should, and its own entries come first on the
\* list.
RmapInv == RmapTypeOK /\ LockBalanced /\ PageInv /\ EntryInv /\ ChainInv
=============================================================================
