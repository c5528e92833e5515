---------------------------- MODULE RmapQueryProofs ----------------------------
(***************************************************************************)
(* Proofs about RmapQuery, for every set of entries, tasks and pages.      *)
(***************************************************************************)
EXTENDS RmapQuery, TLAPS

LEMMA RemoveAtFacts ==
  ASSUME NEW S, NEW s \in Seq(S), NEW i \in DOMAIN s
  PROVE  RemoveAt(s, i) \in Seq(S) /\ Len(RemoveAt(s, i)) <= Len(s)
<1>1. i \in 1..Len(s)
  OBVIOUS
<1>2. SubSeq(s, 1, i - 1) \in Seq(S) /\ Len(SubSeq(s, 1, i - 1)) = i - 1
  BY <1>1
<1>3. SubSeq(s, i + 1, Len(s)) \in Seq(S) /\ Len(SubSeq(s, i + 1, Len(s))) = Len(s) - i
  BY <1>1
<1> QED  BY <1>1, <1>2, <1>3 DEF RemoveAt

\* The owners after a task has exited.
LEMMA ExitFacts ==
  ASSUME RmapTypeOK, NEW t \in Task, Exit(t)
  PROVE  /\ vmas' \in [Page -> Seq(Task \cup {None})]
         /\ \A p \in Page :
              /\ Len(vmas'[p]) = Len(vmas[p])
              /\ \A i \in 1..Len(vmas[p]) :
                   vmas'[p][i] = IF vmas[p][i] = t THEN None ELSE vmas[p][i]
<1>1. ASSUME NEW p \in Page
      PROVE  /\ vmas'[p] \in Seq(Task \cup {None}) /\ Len(vmas'[p]) = Len(vmas[p])
             /\ \A i \in 1..Len(vmas[p]) :
                  vmas'[p][i] = IF vmas[p][i] = t THEN None ELSE vmas[p][i]
  <2>1. PICK s \in Seq(Task \cup {None}) : s = vmas[p]
    BY DEF RmapTypeOK
  <2>2. vmas'[p] = [i \in 1..Len(s) |-> IF s[i] = t THEN None ELSE s[i]]
    BY <2>1 DEF Exit
  <2>3. \A i \in 1..Len(s) : (IF s[i] = t THEN None ELSE s[i]) \in Task \cup {None}
    BY <2>1
  <2> QED  BY <2>1, <2>2, <2>3
<1> QED  BY <1>1 DEF Exit

-----------------------------------------------------------------------------
(* The invariant, conjunct by conjunct.                                     *)

Ind == RmapInv /\ AllRelated /\ ListEnds

Calls == [pc : {"idle", "locate", "lock", "collect", "print", "free", "lost"},
          page : Page \cup {None}, i : 0..MaxVmas + 1, cur : Node \cup {task_head}]

Asking(p) == [Idle EXCEPT !.pc = "locate", !.page = p]
Back(p) == [Idle EXCEPT !.page = p]

\* How a call begins, and comes back.
LEMMA CallFacts ==
  /\ Idle \in Calls /\ Idle.pc = "idle" /\ Idle.cur = task_head
  /\ \A p \in Page :
       Asking(p) \in Calls /\ Asking(p).pc = "locate" /\ Asking(p).page = p
       /\ Asking(p).cur = task_head
  /\ \A p \in Page \cup {None} :
       Back(p) \in Calls /\ Back(p).pc = "idle" /\ Back(p).page = p /\ Back(p).cur = task_head
<1>1. 0 \in 0..MaxVmas + 1 /\ 1 \in 0..MaxVmas + 1
  BY RmapAssumption
<1>2. Idle \in Calls /\ Idle.pc = "idle" /\ Idle.cur = task_head
  BY <1>1 DEF Calls, Idle
<1>3. ASSUME NEW p \in Page
      PROVE  Asking(p) \in Calls /\ Asking(p).pc = "locate" /\ Asking(p).page = p
             /\ Asking(p).cur = task_head
  BY <1>1 DEF Idle, Calls, Asking
<1>4. ASSUME NEW p \in Page \cup {None}
      PROVE  Back(p) \in Calls /\ Back(p).pc = "idle" /\ Back(p).page = p
             /\ Back(p).cur = task_head
  BY <1>1 DEF Idle, Calls, Back
<1> QED  BY <1>2, <1>3, <1>4

LEMMA AskFacts ==
  ASSUME NEW p \in Page, get_process_info(p)
  PROVE  call' \in {Idle, Asking(p)}
BY DEF get_process_info, Asking

\* What a call does that has its page.
LEMMA LocateFacts ==
  ASSUME RmapTypeOK, PageInv, Locate
  PROVE  /\ call.pc = "locate" /\ call.page \in Page /\ call' \in Calls
         /\ call'.page = call.page /\ call'.cur = call.cur
         /\ UNCHANGED <<next, pid, mem, vmas, stay, anonLock, rcu, reused, printed>>
         /\ \/ call'.pc = "lost"
            \/ call'.pc = "lock" /\ call.page \in AnonPages
            \/ call'.pc = "collect" /\ call'.i = 1 /\ call.page \notin AnonPages
<1>1. call.pc = "locate" /\ call.page \in Page /\ call \in Calls /\ 1 \in 0..MaxVmas + 1
  BY RmapAssumption DEF Locate, PageInv, RmapTypeOK, Calls
<1>2. UNCHANGED <<next, pid, mem, vmas, stay, anonLock, rcu, reused, printed>>
  BY DEF Locate, kernelVars
<1>3. CASE Lose
  BY <1>1, <1>2, <1>3 DEF Lose, Calls
<1>4. CASE call.page \in AnonPages /\ call' = [call EXCEPT !.pc = "lock"]
  BY <1>1, <1>2, <1>4 DEF Calls
<1>5. CASE call.page \notin AnonPages /\ call' = [call EXCEPT !.pc = "collect", !.i = 1]
  BY <1>1, <1>2, <1>5 DEF Calls
<1> QED  BY <1>3, <1>4, <1>5 DEF Locate

LEMMA TypeNext ==
  ASSUME RmapTypeOK, PageInv, EntryInv, Next
  PROVE  RmapTypeOK'
<1>1. ASSUME NEW p \in Page, get_process_info(p) PROVE RmapTypeOK'
  <2>1. Owners(p) \subseteq Task
    BY DEF Owners, ToSet, RmapTypeOK
  <2>2. call' \in Calls
    BY <1>1, AskFacts, CallFacts
  <2>3. calls' \in 0..MaxCalls
    BY <1>1, RmapAssumption DEF get_process_info, RmapTypeOK
  <2> QED  BY <1>1, <2>1, <2>2, <2>3 DEF get_process_info, RmapTypeOK, Calls
<1>2. CASE page_lock_anon_vma_user
  <2>1. 0 \in 0..MaxVmas + 1 /\ 1 \in 0..MaxVmas + 1
    BY RmapAssumption
  <2>2. /\ anonLock' \in AnonPages \cup {None} /\ rcu' \in BOOLEAN
        /\ call' \in {Idle, [call EXCEPT !.pc = "collect", !.i = 1]}
    BY <1>2 DEF page_lock_anon_vma_user, PageInv, RmapTypeOK
  <2>3. call' \in Calls
    <3>1. [call EXCEPT !.pc = "collect", !.i = 1] \in Calls
      BY <2>1 DEF Calls, RmapTypeOK
    <3> QED  BY <2>2, <3>1, CallFacts
  <2> QED  BY <1>2, <2>2, <2>3 DEF page_lock_anon_vma_user, RmapTypeOK, kernelVars, Calls
<1>3. CASE Collect
  <2>1. CASE Lose /\ UNCHANGED <<next, pid, mem, reused>>
    BY <1>3, <2>1 DEF Collect, Lose, RmapTypeOK, kernelVars
  <2>2. ASSUME NEW n \in Node, vmas[call.page][call.i] # None, Add(n, vmas[call.page][call.i])
        PROVE  RmapTypeOK'
    <3>1. call.page \in Page /\ call.i \in 0..Len(vmas[call.page])
      BY <1>3 DEF Collect, PageInv, RmapTypeOK
    <3>2. call.i + 1 \in 0..MaxVmas + 1
      BY <3>1, RmapAssumption DEF RmapTypeOK
    <3>3. PICK t \in Task : t = vmas[call.page][call.i]
      BY <1>3, <2>2, <3>1 DEF Collect, PageInv, RmapTypeOK
    <3> QED  BY <1>3, <2>2, <3>2, <3>3 DEF Collect, Add, RmapTypeOK, kernelVars
  <2> QED  BY <1>3, <2>1, <2>2 DEF Collect
<1>4. CASE Collected
  BY <1>4 DEF Collected, RmapTypeOK, kernelVars
<1>5. CASE PrintEntry
  <2>1. call.cur # task_head => pid[call.cur] \in Task
    BY DEF EntryInv, RmapTypeOK
  <2> QED  BY <1>5, <2>1 DEF PrintEntry, Lose, RmapTypeOK, kernelVars
<1>6. CASE FreeEntry
  BY <1>6 DEF FreeEntry, Lose, RmapTypeOK, kernelVars
<1>7. CASE Return
  BY <1>7, RmapAssumption DEF Return, Idle, RmapTypeOK, kernelVars
<1>8. ASSUME NEW p \in Page, NEW t \in Task, MapVma(p, t) PROVE RmapTypeOK'
  <2>1. /\ vmas[p] \in Seq(Task \cup {None}) /\ Len(vmas[p]) < MaxVmas
        /\ vmas' = [vmas EXCEPT ![p] = Append(vmas[p], t)]
    BY <1>8 DEF MapVma, RmapTypeOK
  <2>2. /\ Append(vmas[p], t) \in Seq(Task \cup {None})
        /\ Len(Append(vmas[p], t)) <= MaxVmas
    BY <2>1, RmapAssumption
  <2>3. /\ vmas' \in [Page -> Seq(Task \cup {None})]
        /\ \A q \in Page : Len(vmas'[q]) <= MaxVmas
    BY <2>1, <2>2 DEF RmapTypeOK
  <2> QED  BY <1>8, <2>3 DEF MapVma, Changing, RmapTypeOK
<1>9. ASSUME NEW p \in Page, NEW i \in 1..MaxVmas, UnmapVma(p, i) PROVE RmapTypeOK'
  <2>1. /\ vmas[p] \in Seq(Task \cup {None}) /\ i \in DOMAIN vmas[p]
        /\ vmas' = [vmas EXCEPT ![p] = RemoveAt(vmas[p], i)]
        /\ Len(vmas[p]) <= MaxVmas
    BY <1>9 DEF UnmapVma, RmapTypeOK
  <2>2. RemoveAt(vmas[p], i) \in Seq(Task \cup {None}) /\ Len(RemoveAt(vmas[p], i)) <= MaxVmas
    BY <2>1, RemoveAtFacts, RmapAssumption
  <2>3. /\ vmas' \in [Page -> Seq(Task \cup {None})]
        /\ \A q \in Page : Len(vmas'[q]) <= MaxVmas
    BY <2>1, <2>2 DEF RmapTypeOK
  <2> QED  BY <1>9, <2>3 DEF UnmapVma, Changing, RmapTypeOK
<1>10. ASSUME NEW t \in Task, Exit(t) PROVE RmapTypeOK'
  BY <1>10, ExitFacts DEF Exit, RmapTypeOK
<1>11. ASSUME NEW p \in Page, NEW s \in {"mapped", "unmapped", "swapped"}, Reclaim(p, s)
       PROVE  RmapTypeOK'
  BY <1>11 DEF Reclaim, RmapTypeOK
<1>12. CASE Locate
  <2>1. UNCHANGED <<next, pid, mem, kernelVars, anonLock, rcu, reused, printed>>
    BY <1>12 DEF Locate
  <2>2. call' \in Calls
    BY <1>12, LocateFacts
  <2> QED  BY <2>1, <2>2 DEF Calls, RmapTypeOK, kernelVars
<1> QED  BY <1>1, <1>2, <1>3, <1>4, <1>5, <1>6, <1>7, <1>8, <1>9, <1>10, <1>11, <1>12
            DEF Next, CallStep, KernelStep

\* The kernel touches nothing of a call's own.
LEMMA KernelFrame ==
  ASSUME KernelStep
  PROVE  UNCHANGED <<next, pid, mem, anonLock, rcu, call, calls, reused, printed>>
BY DEF KernelStep, MapVma, UnmapVma, Exit, Reclaim

\* The lock of the anon_vma is taken and given back by the call that holds it.
LEMMA LockNext ==
  ASSUME RmapTypeOK, PageInv, LockBalanced, Next
  PROVE  LockBalanced' /\ PageInv'
<1>1. CASE \E p \in Page : get_process_info(p)
  <2>1. PICK p \in Page : get_process_info(p)
    BY <1>1
  <2>2. UNCHANGED <<rcu, anonLock>> /\ rcu = FALSE /\ anonLock = None
    BY <2>1 DEF get_process_info, LockBalanced
  <2>3. \/ call'.pc = "idle"
        \/ call'.pc = "locate" /\ call'.page = p
    BY <2>1, AskFacts, CallFacts
  <2>4. LockBalanced'
    BY <2>2, <2>3 DEF LockBalanced
  <2>5. PageInv'
    BY <2>3 DEF PageInv
  <2> QED  BY <2>4, <2>5
<1>2. CASE page_lock_anon_vma_user
  <2>1. call.pc = "lock" /\ call.page \in Page /\ call.page \in AnonPages
    BY <1>2 DEF page_lock_anon_vma_user, PageInv
  <2>2. CASE state[call.page] = "mapped"
    <3>1. /\ call'.pc = "collect" /\ call'.page = call.page /\ call'.i = 1
          /\ rcu' = TRUE /\ anonLock' = call.page
      BY <1>2, <2>2 DEF page_lock_anon_vma_user, RmapTypeOK
    <3>2. LockBalanced'
      BY <2>1, <3>1 DEF LockBalanced
    <3>3. PageInv'
      BY <2>1, <3>1 DEF PageInv
    <3> QED  BY <3>2, <3>3
  <2>3. CASE state[call.page] # "mapped"
    <3>1. call'.pc = "idle" /\ rcu' = rcu /\ anonLock' = anonLock
      BY <1>2, <2>3, CallFacts DEF page_lock_anon_vma_user
    <3> QED  BY <2>1, <3>1 DEF LockBalanced, PageInv
  <2> QED  BY <2>2, <2>3
<1>3. CASE Collect
  <2>1. /\ call.pc = "collect" /\ UNCHANGED <<rcu, anonLock>> /\ call'.page = call.page
        /\ call'.pc = "lost" \/ (call'.pc = "collect" /\ call'.i = call.i + 1)
    BY <1>3 DEF Collect, Add, Lose, RmapTypeOK
  <2> QED  BY <2>1 DEF LockBalanced, PageInv, RmapTypeOK
<1>4. CASE Collected
  <2>1. rcu' = FALSE /\ anonLock' = None /\ call'.pc = "print" /\ call'.page = call.page
        /\ call.pc = "collect"
    BY <1>4 DEF Collected, RmapTypeOK
  <2> QED  BY <2>1 DEF LockBalanced, PageInv
<1>5. CASE PrintEntry \/ FreeEntry \/ Return
  <2>1. /\ UNCHANGED <<rcu, anonLock>> /\ call.pc \in {"print", "free"}
        /\ \/ call'.pc \in {"lost", "free", "print"} /\ call'.page = call.page
           \/ call'.pc = "idle"
    <3>1. CASE Return
      <4>1. call.page \in Page \cup {None}
        BY DEF RmapTypeOK
      <4> QED  BY <3>1, <4>1, CallFacts DEF Return, Back
    <3>2. CASE PrintEntry \/ FreeEntry
      BY <3>2 DEF PrintEntry, FreeEntry, Lose, RmapTypeOK
    <3> QED  BY <1>5, <3>1, <3>2
  <2> QED  BY <2>1 DEF LockBalanced, PageInv
<1>6. CASE KernelStep
  BY <1>6, KernelFrame DEF LockBalanced, PageInv
<1>7. CASE Locate
  <2>1. LockBalanced'
    BY <1>7, LocateFacts DEF LockBalanced
  <2>2. PageInv'
    BY <1>7, LocateFacts DEF PageInv
  <2> QED  BY <2>1, <2>2
<1> QED  BY <1>1, <1>2, <1>3, <1>4, <1>5, <1>6, <1>7 DEF Next, CallStep

\* Entries are handed out before they are linked.
LEMMA EntryNext ==
  ASSUME RmapTypeOK, PageInv, EntryInv, Next
  PROVE  EntryInv'
<1>1. CASE /\ UNCHANGED <<next, pid, mem>> /\ call'.cur \in {call.cur, task_head, next[task_head]}
           /\ call'.pc = "free" => call'.cur # task_head
  BY <1>1 DEF EntryInv, RmapTypeOK
<1>2. CASE \E p \in Page : get_process_info(p)
  <2>1. PICK p \in Page : get_process_info(p)
    BY <1>2
  <2>2. call'.cur = task_head /\ call'.pc \in {"idle", "locate"}
    BY <2>1, AskFacts, CallFacts
  <2> QED  BY <1>1, <2>1, <2>2 DEF get_process_info
<1>3. CASE Collect
  <2>1. CASE Lose /\ UNCHANGED <<next, pid, mem>>
    BY <1>1, <2>1 DEF Lose, RmapTypeOK
  <2>2. ASSUME NEW n \in Node, NEW t, t = vmas[call.page][call.i], t # None, Add(n, t)
        PROVE  EntryInv'
    <3>1. t \in Task
      <4>1. call.i \in 1..Len(vmas[call.page]) /\ call.page \in Page
        BY <1>3 DEF Collect, PageInv, RmapTypeOK
      <4> QED  BY <2>2, <4>1 DEF RmapTypeOK
    <3>2. call'.cur = call.cur /\ call'.pc = "collect"
      BY <1>3, <2>2 DEF Collect, Add, RmapTypeOK
    <3>3. /\ mem'[n] = "live" /\ pid'[n] = t /\ next'[task_head] = n
          /\ next'[n] = next[task_head]
          /\ \A m \in Node \ {n} : mem'[m] = mem[m] /\ pid'[m] = pid[m] /\ next'[m] = next[m]
      BY <2>2, RmapAssumption DEF Add, RmapTypeOK
    <3>4. /\ \A m \in Node : mem[m] = "unused" => \A x \in Node \cup {task_head} : next[x] # m
          /\ \A m \in Node : mem[m] # "unused" => pid[m] \in Task
          /\ call.cur \in Node \cup {task_head} /\ task_head \notin Node
          /\ call.cur # task_head => mem[call.cur] # "unused"
      BY RmapAssumption DEF EntryInv, RmapTypeOK
    <3>5. ASSUME NEW m \in Node, mem'[m] = "unused", NEW x \in Node \cup {task_head}
          PROVE  next'[x] # m
      BY <3>3, <3>4, <3>5
    <3>6. \A m \in Node : mem'[m] # "unused" => pid'[m] \in Task
      BY <3>1, <3>3, <3>4
    <3>7. call'.cur # task_head => mem'[call'.cur] # "unused"
      BY <3>2, <3>3, <3>4
    <3> QED  BY <3>2, <3>5, <3>6, <3>7 DEF EntryInv
  <2> QED  BY <1>3, <2>1, <2>2 DEF Collect
<1>4. CASE page_lock_anon_vma_user \/ Collected \/ PrintEntry \/ Return
  <2>1. UNCHANGED <<next, pid, mem>>
    BY <1>4 DEF page_lock_anon_vma_user, Collected, PrintEntry, Return
  <2>2. /\ call'.cur \in {call.cur, task_head, next[task_head]}
        /\ call'.pc = "free" => call'.cur # task_head
    <3>1. CASE page_lock_anon_vma_user
      <4>1. \/ call' = Idle
            \/ call'.cur = call.cur /\ call'.pc = "collect"
        BY <3>1 DEF page_lock_anon_vma_user, RmapTypeOK
      <4> QED  BY <4>1, CallFacts
    <3>2. CASE Collected \/ PrintEntry
      BY <3>2 DEF Collected, PrintEntry, Lose, RmapTypeOK
    <3>3. CASE Return
      <4>1. call.page \in Page \cup {None}
        BY DEF RmapTypeOK
      <4> QED  BY <3>3, <4>1, CallFacts DEF Return, Back
    <3> QED  BY <1>4, <3>1, <3>2, <3>3
  <2> QED  BY <1>1, <2>1, <2>2
<1>5. CASE FreeEntry
  <2>1. UNCHANGED <<next, pid>> /\ mem' = [mem EXCEPT ![call.cur] = "freed"]
    BY <1>5 DEF FreeEntry
  <2>2. call'.cur \in {call.cur, next[call.cur]} /\ call'.pc # "free"
    BY <1>5 DEF FreeEntry, Lose, RmapTypeOK
  <2>3. call.cur # task_head => pid[call.cur] \in Task
    BY DEF EntryInv, RmapTypeOK
  <2>4. /\ call.cur # task_head /\ call.cur \in Node
        /\ next[call.cur] # task_head => mem[next[call.cur]] # "unused"
    BY <1>5 DEF FreeEntry, EntryInv, RmapTypeOK
  <2> QED  BY <2>1, <2>2, <2>3, <2>4 DEF EntryInv, RmapTypeOK
<1>6. CASE KernelStep
  BY <1>1, <1>6, KernelFrame DEF EntryInv
<1>7. CASE Locate
  BY <1>1, <1>7, LocateFacts DEF Locate, EntryInv
<1> QED  BY <1>2, <1>3, <1>4, <1>5, <1>6, <1>7 DEF Next, CallStep

\* The kernel's changes to the vmas of a page under its lock, or unbeknown to
\* "moved", are the exits of their owners.
LEMMA VmasStay ==
  ASSUME RmapTypeOK, LockBalanced, PageInv, KernelStep, call.pc = "collect", ~moved'
  PROVE  /\ ~moved /\ call.page \in Page /\ Len(vmas'[call.page]) = Len(vmas[call.page])
         /\ \A j \in 1..Len(vmas[call.page]), t \in stay' :
              t \in stay /\ (vmas[call.page][j] = t => vmas'[call.page][j] = t)
<1>1. /\ call.page \in Page /\ Asked(call.page)
      /\ call.page \in AnonPages => anonLock = call.page
  BY DEF PageInv, LockBalanced, Asked
<1>2. ASSUME NEW p \in Page, NEW t \in Task, MapVma(p, t)
      PROVE  ~moved /\ stay' = stay /\ vmas'[call.page] = vmas[call.page]
  BY <1>1, <1>2 DEF MapVma, Changing, RmapTypeOK
<1>3. ASSUME NEW p \in Page, NEW i \in 1..MaxVmas, UnmapVma(p, i)
      PROVE  ~moved /\ stay' \subseteq stay /\ vmas'[call.page] = vmas[call.page]
  BY <1>1, <1>3 DEF UnmapVma, Changing, RmapTypeOK
<1>4. ASSUME NEW p \in Page, NEW s, Reclaim(p, s)
      PROVE  ~moved /\ stay' = stay /\ vmas'[call.page] = vmas[call.page]
  BY <1>4 DEF Reclaim
<1>5. ASSUME NEW t \in Task, Exit(t)
      PROVE  /\ ~moved /\ stay' = stay \ {t}
             /\ Len(vmas'[call.page]) = Len(vmas[call.page])
             /\ \A i \in 1..Len(vmas[call.page]) :
                  vmas'[call.page][i] = IF vmas[call.page][i] = t THEN None
                                        ELSE vmas[call.page][i]
  <2>1. ~moved /\ stay' = stay \ {t}
    BY <1>5 DEF Exit
  <2> QED  BY <1>1, <1>5, <2>1, ExitFacts
<1>6. CASE \E t \in Task : Exit(t)
  BY <1>1, <1>5, <1>6
<1>7. CASE ~\E t \in Task : Exit(t)
  <2>1. ~moved /\ stay' \subseteq stay /\ vmas'[call.page] = vmas[call.page]
    BY <1>2, <1>3, <1>4, <1>7 DEF KernelStep
  <2> QED  BY <1>1, <2>1
<1> QED  BY <1>6, <1>7

\* Who maps the page while the lock is waited for.
LEMMA OwnersStay ==
  ASSUME RmapTypeOK, PageInv, KernelStep, call.pc # "idle",
         stay \subseteq Owners(call.page)
  PROVE  stay' \subseteq Owners(call.page)'
<1> DEFINE q == call.page
<1>1. /\ q \in Page /\ Asked(q) /\ call' = call /\ None \notin Task
      /\ stay \subseteq Task
  BY KernelFrame, RmapAssumption DEF PageInv, Asked, RmapTypeOK
<1>2. \A x \in stay : x \in ToSet(vmas[q])
  BY DEF Owners
<1> SUFFICES ASSUME NEW x \in stay' PROVE x \in stay /\ x \in ToSet(vmas'[q])
  BY <1>1 DEF Owners
<1>3. ASSUME NEW p \in Page, NEW t \in Task, MapVma(p, t)
      PROVE  x \in stay /\ x \in ToSet(vmas'[q])
  <2>1. stay' = stay
    BY <1>3 DEF MapVma
  <2>2. vmas'[q] = vmas[q] \/ vmas'[q] = Append(vmas[q], t)
    BY <1>1, <1>3 DEF MapVma, RmapTypeOK
  <2>3. vmas[q] \in Seq(Task \cup {None})
    BY <1>1 DEF RmapTypeOK
  <2>4. PICK j \in 1..Len(vmas[q]) : vmas[q][j] = x
    BY <1>2, <2>1, <2>3 DEF ToSet
  <2>5. Append(vmas[q], t)[j] = x /\ j \in DOMAIN Append(vmas[q], t)
    BY <2>3, <2>4
  <2> QED  BY <1>2, <2>1, <2>2, <2>5 DEF ToSet
<1>4. ASSUME NEW p \in Page, NEW i \in 1..MaxVmas, UnmapVma(p, i)
      PROVE  x \in stay /\ x \in ToSet(vmas'[q])
  BY <1>1, <1>2, <1>4 DEF UnmapVma, RmapTypeOK
<1>5. ASSUME NEW p \in Page, NEW s, Reclaim(p, s)
      PROVE  x \in stay /\ x \in ToSet(vmas'[q])
  BY <1>2, <1>5 DEF Reclaim
<1>6. ASSUME NEW t \in Task, Exit(t)
      PROVE  x \in stay /\ x \in ToSet(vmas'[q])
  <2>1. x \in stay /\ x # t
    BY <1>1, <1>6 DEF Exit, Asked
  <2>2. vmas[q] \in Seq(Task \cup {None}) /\ vmas'[q] \in Seq(Task \cup {None})
    BY <1>1, <1>6, ExitFacts DEF RmapTypeOK
  <2>3. PICK j \in 1..Len(vmas[q]) : vmas[q][j] = x
    BY <1>2, <2>1, <2>2 DEF ToSet
  <2>4. Len(vmas'[q]) = Len(vmas[q]) /\ vmas'[q][j] = x
    BY <1>1, <1>6, <2>1, <2>3, ExitFacts
  <2> QED  BY <2>1, <2>2, <2>3, <2>4 DEF ToSet
<1> QED  BY <1>3, <1>4, <1>5, <1>6 DEF KernelStep

LEMMA StayShrinks ==
  ASSUME KernelStep
  PROVE  stay' \subseteq stay /\ (moved => moved')
<1>1. stay' \subseteq stay
  BY DEF KernelStep, MapVma, UnmapVma, Exit, Reclaim
<1>2. ASSUME moved PROVE moved'
  BY <1>2 DEF KernelStep, MapVma, UnmapVma, Exit, Reclaim, Changing
<1> QED  BY <1>1, <1>2

LEMMA ChainOfKernel ==
  ASSUME RmapTypeOK, LockBalanced, PageInv, ChainInv, KernelStep
  PROVE  ChainInv'
<1>1. UNCHANGED <<next, pid, mem, call, printed>>
  BY KernelFrame
<1>2. stay' \subseteq stay /\ (moved => moved')
  BY StayShrinks
<1>3. call.pc \in {"locate", "lock"} => stay' \subseteq Owners(call.page)'
  BY OwnersStay DEF ChainInv
<1>4. ASSUME call.pc = "collect" PROVE Collecting'
  <2>1. PICK f \in [1..call.i - 1 -> Node] :
          /\ Linked(f) /\ \A j \in DOMAIN f : mem[f[j]] = "live"
          /\ call.i > 1 => next[task_head] = f[call.i - 1]
          /\ ~moved => stay \subseteq Pids(f) \cup Left
    BY <1>4 DEF ChainInv, Collecting
  <2>2. ~moved' => stay' \subseteq Pids(f) \cup Left'
    <3> SUFFICES ASSUME ~moved', NEW t \in stay', t \notin Pids(f) PROVE t \in Left'
      OBVIOUS
    <3>1. t \in stay /\ t \in Left
      BY <1>2, <2>1
    <3>2. PICK j \in call.i..Len(vmas[call.page]) : vmas[call.page][j] = t
      BY <3>1 DEF Left
    <3>3. j \in 1..Len(vmas[call.page])
      BY <1>4, <3>2 DEF PageInv, RmapTypeOK
    <3>4. vmas'[call.page][j] = t /\ Len(vmas'[call.page]) = Len(vmas[call.page])
      BY <1>4, <3>2, <3>3, VmasStay
    <3> QED  BY <1>1, <3>2, <3>4 DEF Left
  <2>3. Linked(f)' /\ Pids(f)' = Pids(f)
    BY <1>1, <2>1 DEF Linked, Pids
  <2> QED  BY <1>1, <2>1, <2>2, <2>3 DEF Collecting
<1>5. ASSUME call.pc \in {"print", "free"} PROVE Printing'
  BY <1>1, <1>2, <1>5 DEF ChainInv, Printing, Linked, Pids
<1> QED  BY <1>1, <1>3, <1>4, <1>5 DEF ChainInv

\* An entry is handed out for the vma and put in front of the others.
LEMMA ChainOfCollect ==
  ASSUME RmapTypeOK, PageInv, ChainInv, Collect
  PROVE  ChainInv'
<1>1. CASE Lose
  <2>1. call'.pc = "lost"
    BY <1>1 DEF Lose, RmapTypeOK
  <2> QED  BY <2>1 DEF ChainInv
<1>2. CASE ~Lose
  <2>1. PICK n \in Node, t \in Task \cup {None} :
          t = vmas[call.page][call.i] /\ Add(n, t)
    <3>1. call.i \in 1..Len(vmas[call.page]) /\ vmas[call.page] \in Seq(Task \cup {None})
      BY DEF Collect, PageInv, RmapTypeOK
    <3> QED  BY <1>2, <3>1 DEF Collect
  <2>2. PICK i \in Nat : i = call.i
    BY DEF RmapTypeOK
  <2>3. /\ call.pc = "collect" /\ call'.pc = "collect" /\ call'.page = call.page
        /\ call'.i = i + 1 /\ i > 0 /\ i <= Len(vmas[call.page])
        /\ vmas' = vmas /\ stay' = stay /\ moved' = moved
    BY <2>1, <2>2 DEF Collect, Add, PageInv, RmapTypeOK, kernelVars
  <2>4. /\ mem[n] # "live" /\ mem'[n] = "live" /\ pid'[n] = t /\ next'[task_head] = n
        /\ next'[n] = next[task_head]
        /\ \A m \in Node \ {n} : mem'[m] = mem[m] /\ pid'[m] = pid[m] /\ next'[m] = next[m]
    BY <2>1, RmapAssumption DEF Add, RmapTypeOK
  <2>5. PICK f \in [1..i - 1 -> Node] :
          /\ Linked(f) /\ \A j \in DOMAIN f : mem[f[j]] = "live"
          /\ i > 1 => next[task_head] = f[i - 1]
          /\ ~moved => stay \subseteq Pids(f) \cup Left
    BY <2>2, <2>3 DEF ChainInv, Collecting
  <2>6. PICK g : g = [j \in 1..i |-> IF j = i THEN n ELSE f[j]]
    OBVIOUS
  <2>7. /\ g \in [1..i -> Node] /\ g[i] = n /\ DOMAIN g = 1..i
        /\ \A j \in 1..i - 1 : g[j] = f[j] /\ f[j] \in Node \ {n}
    BY <2>3, <2>4, <2>5, <2>6
  <2>8. Linked(g)'
    <3> SUFFICES ASSUME NEW j \in 1..i, j > 1 PROVE next'[g[j]] = g[j - 1]
      BY <2>7 DEF Linked
    <3>1. CASE j = i
      BY <2>4, <2>5, <2>7, <3>1
    <3>2. CASE j # i
      <4>1. j \in 1..i - 1 /\ j - 1 \in 1..i - 1
        BY <3>2
      <4>2. next[f[j]] = f[j - 1]
        BY <2>5, <4>1 DEF Linked
      <4> QED  BY <2>4, <2>7, <4>1, <4>2
    <3> QED  BY <3>1, <3>2
  <2>9. \A j \in 1..i : mem'[g[j]] = "live"
    BY <2>4, <2>5, <2>7
  <2>10. ~moved' => stay' \subseteq Pids(g)' \cup Left'
    <3> SUFFICES ASSUME ~moved, NEW x \in stay PROVE x \in Pids(g)' \cup Left'
      BY <2>3
    <3>1. CASE x \in Pids(f)
      <4>1. PICK j \in 1..i - 1 : pid[f[j]] = x
        BY <3>1 DEF Pids
      <4>2. pid'[g[j]] = x
        BY <2>4, <2>7, <4>1
      <4> QED  BY <2>7, <4>1, <4>2 DEF Pids
    <3>2. CASE x \in Left
      <4>1. PICK j \in i..Len(vmas[call.page]) : vmas[call.page][j] = x
        BY <2>2, <3>2 DEF Left
      <4>2. CASE j = i
        BY <2>1, <2>2, <2>3, <2>4, <2>7, <4>1, <4>2 DEF Pids
      <4>3. CASE j # i
        <5>1. j \in i + 1..Len(vmas[call.page])
          BY <4>1, <4>3
        <5> QED  BY <2>3, <4>1, <5>1 DEF Left
      <4> QED  BY <4>2, <4>3
    <3> QED  BY <2>5, <3>1, <3>2
  <2>11. i + 1 - 1 = i /\ i + 1 > 1
    BY <2>3
  <2>12. \E h \in [1..call'.i - 1 -> Node] :
           /\ Linked(h)' /\ \A j \in DOMAIN h : mem'[h[j]] = "live"
           /\ call'.i > 1 => next'[task_head] = h[call'.i - 1]
           /\ ~moved' => stay' \subseteq Pids(h)' \cup Left'
    BY <2>3, <2>4, <2>7, <2>8, <2>9, <2>10, <2>11
  <2> QED  BY <2>3, <2>12 DEF ChainInv, Collecting, Linked, Pids
<1> QED  BY <1>1, <1>2

\* Before the first vma, there are no entries.
LEMMA ChainAtFirst ==
  ASSUME RmapTypeOK, NEW p \in Page, call'.pc = "collect", call'.page = p, call'.i = 1,
         vmas' = vmas, stay' \subseteq Owners(p)
  PROVE  ChainInv'
<1>1. PICK f : f = [j \in 1..0 |-> task_head]
  OBVIOUS
<1>2. f \in [1..call'.i - 1 -> Node] /\ DOMAIN f = {}
  BY <1>1
<1>3. Owners(p) \subseteq Left'
  BY DEF Owners, ToSet, Left, RmapTypeOK
<1>4. /\ Linked(f)' /\ \A j \in DOMAIN f : mem'[f[j]] = "live"
      /\ ~(call'.i > 1)
  BY <1>2 DEF Linked
<1>5. Collecting'
  BY <1>2, <1>3, <1>4 DEF Collecting, Linked, Pids
<1> QED  BY <1>5 DEF ChainInv

LEMMA ChainOfCall ==
  ASSUME RmapTypeOK, PageInv, ChainInv, CallStep
  PROVE  ChainInv'
<1>1. CASE call'.pc \in {"idle", "lost"}
  BY <1>1 DEF ChainInv
<1>2. CASE page_lock_anon_vma_user
  <2>1. \/ call' = Idle
        \/ /\ call.page \in Page /\ call'.pc = "collect" /\ call'.page = call.page
           /\ call'.i = 1 /\ vmas' = vmas /\ stay' = stay /\ stay \subseteq Owners(call.page)
    BY <1>2 DEF page_lock_anon_vma_user, PageInv, ChainInv, RmapTypeOK, kernelVars
  <2> QED  BY <1>1, <2>1, ChainAtFirst, CallFacts
<1>3. CASE Collect
  BY <1>3, ChainOfCollect
<1>4. CASE Collected
  <2>1. PICK i \in Nat : i = call.i
    BY DEF RmapTypeOK
  <2>2. /\ call.pc = "collect" /\ i > Len(vmas[call.page]) /\ i > 0 /\ i - 1 \in 0..MaxVmas
        /\ call'.pc = "print" /\ call'.cur = next[task_head]
        /\ UNCHANGED <<next, pid, moved, stay, printed>>
    BY <1>4, <2>1, RmapAssumption DEF Collected, PageInv, RmapTypeOK, kernelVars
  <2>3. PICK f \in [1..i - 1 -> Node] :
          /\ Linked(f) /\ (i > 1 => next[task_head] = f[i - 1])
          /\ ~moved => stay \subseteq Pids(f) \cup Left
    BY <2>1, <2>2 DEF ChainInv, Collecting
  <2>4. Left = {}
    <3>1. Len(vmas[call.page]) \in Nat
      BY <2>2 DEF PageInv, RmapTypeOK
    <3> QED  BY <2>1, <2>2, <3>1 DEF Left
  <2>5. Linked(f)' /\ Pids(f)' = Pids(f)
    BY <2>2, <2>3 DEF Linked, Pids
  <2>6. PICK k \in 0..MaxVmas : k = i - 1
    BY <2>2
  <2>7. /\ f \in [1..k -> Node] /\ k \in 0..k
        /\ Linked(f)' /\ (k > 0 => call'.cur = f[k])
        /\ \A l \in 1..k : l > k \/ (l = k /\ call'.pc = "free") => pid'[f[l]] \in printed'
        /\ ~moved' => stay' \subseteq Pids(f)'
    BY <2>2, <2>3, <2>4, <2>5, <2>6
  <2>8. Printing'
    BY <2>7 DEF Printing, Linked, Pids
  <2> QED  BY <2>2, <2>8 DEF ChainInv
<1>5. CASE (PrintEntry \/ FreeEntry) /\ ~Lose
  <2>1. /\ call.pc \in {"print", "free"} /\ call'.pc \in {"print", "free"}
        /\ UNCHANGED <<next, pid, moved, stay>> /\ printed \subseteq printed'
    BY <1>5 DEF PrintEntry, FreeEntry, RmapTypeOK, kernelVars
  <2>2. PICK k \in 0..MaxVmas : \E f \in [1..k -> Node], j \in 0..k :
          /\ Linked(f) /\ (j > 0 => call.cur = f[j])
          /\ \A l \in 1..k : l > j \/ (l = j /\ call.pc = "free") => pid[f[l]] \in printed
          /\ ~moved => stay \subseteq Pids(f)
    BY <2>1 DEF ChainInv, Printing
  <2>3. PICK f \in [1..k -> Node], j \in 0..k :
          /\ Linked(f) /\ (j > 0 => call.cur = f[j])
          /\ \A l \in 1..k : l > j \/ (l = j /\ call.pc = "free") => pid[f[l]] \in printed
          /\ ~moved => stay \subseteq Pids(f)
    BY <2>2
  <2>4. Linked(f)' /\ Pids(f)' = Pids(f)
    BY <2>1, <2>3 DEF Linked, Pids
  <2>5. \E m \in 0..k :
          /\ m > 0 => call'.cur = f[m]
          /\ \A l \in 1..k : l > m \/ (l = m /\ call'.pc = "free") => pid'[f[l]] \in printed'
    <3>1. CASE PrintEntry
      <4>1. /\ call'.pc = "free" /\ call'.cur = call.cur
            /\ printed' = printed \cup {pid[call.cur]}
        BY <1>5, <3>1 DEF PrintEntry, RmapTypeOK
      <4> QED  BY <2>1, <2>3, <4>1
    <3>2. CASE FreeEntry
      <4>1. call.pc = "free" /\ call'.pc = "print" /\ call'.cur = next[call.cur]
        BY <1>5, <3>2 DEF FreeEntry, RmapTypeOK
      <4>2. CASE j = 0
        BY <2>1, <2>3, <4>1, <4>2
      <4>3. CASE j > 0
        <5>1. j - 1 \in 0..k /\ \A l \in 1..k : l > j - 1 => l > j \/ l = j
          BY <4>3, RmapAssumption
        <5>2. j - 1 > 0 => call'.cur = f[j - 1]
          BY <2>3, <4>1, <4>3 DEF Linked
        <5>3. \A l \in 1..k : l > j - 1 => pid'[f[l]] \in printed'
          BY <2>1, <2>3, <4>1, <5>1
        <5> QED  BY <4>1, <5>1, <5>2, <5>3
      <4> QED  BY <4>2, <4>3
    <3> QED  BY <1>5, <3>1, <3>2
  <2>6. Printing'
    BY <2>1, <2>3, <2>4, <2>5 DEF Printing, Linked, Pids
  <2> QED  BY <2>1, <2>6 DEF ChainInv
<1>6. CASE Lose
  <2>1. call'.pc = "lost"
    BY <1>6 DEF Lose, RmapTypeOK
  <2> QED  BY <1>1, <2>1
<1>7. CASE Return
  <2>1. call'.pc = "idle"
    BY <1>7, CallFacts DEF Return, Back, RmapTypeOK
  <2> QED  BY <1>1, <2>1
<1>8. CASE Locate /\ ~Lose
  <2>1. stay' \subseteq Owners(call.page) /\ Owners(call.page)' = Owners(call.page)
    BY <1>8, LocateFacts DEF ChainInv, Owners
  <2>2. CASE call'.pc = "lock"
    BY <1>8, <2>1, <2>2, LocateFacts DEF ChainInv
  <2>3. CASE call'.pc = "collect"
    BY <1>8, <2>1, <2>3, LocateFacts, ChainAtFirst
  <2> QED  BY <1>1, <1>8, <2>2, <2>3, LocateFacts
<1> QED  BY <1>2, <1>3, <1>4, <1>5, <1>6, <1>7, <1>8 DEF CallStep

LEMMA ChainNext ==
  ASSUME RmapTypeOK, LockBalanced, PageInv, ChainInv, Next
  PROVE  ChainInv'
<1>1. ASSUME NEW p \in Page, get_process_info(p) PROVE ChainInv'
  <2>1. vmas' = vmas /\ stay' = Owners(p) /\ Owners(p)' = Owners(p)
    BY <1>1 DEF get_process_info, Owners
  <2>2. CASE call' = Idle
    BY <2>2, CallFacts DEF ChainInv
  <2>3. CASE call' = Asking(p)
    <3>1. call'.pc = "locate" /\ call'.page = p
      BY <2>3, CallFacts
    <3>2. Owners(call.page)' = Owners(p)
      BY <2>1, <3>1 DEF Owners
    <3> QED  BY <2>1, <3>1, <3>2 DEF ChainInv
  <2> QED  BY <1>1, <2>2, <2>3, AskFacts
<1> QED  BY <1>1, ChainOfCall, ChainOfKernel DEF Next

\* All that stays has been printed by the time the list is left.
LEMMA RelatedNext ==
  ASSUME RmapTypeOK, PageInv, ChainInv, AllRelated, Next
  PROVE  AllRelated'
<1>1. CASE call'.pc # "idle"
  BY <1>1 DEF AllRelated
<1>2. CASE call' = Idle
  <2>1. Idle.page = None
    BY DEF Idle
  <2> QED  BY <1>2, <2>1 DEF AllRelated
<1>3. CASE KernelStep
  BY <1>3, KernelFrame, StayShrinks DEF AllRelated
<1>4. CASE Return
  <2>1. /\ call.pc = "print" /\ call.cur = task_head
        /\ UNCHANGED <<moved, stay, printed>>
    BY <1>4 DEF Return, kernelVars
  <2>2. PICK k \in 0..MaxVmas : \E f \in [1..k -> Node], j \in 0..k :
          /\ j > 0 => call.cur = f[j]
          /\ \A l \in 1..k : l > j => pid[f[l]] \in printed
          /\ ~moved => stay \subseteq Pids(f)
    BY <2>1 DEF ChainInv, Printing
  <2>3. PICK f \in [1..k -> Node], j \in 0..k :
          /\ j > 0 => call.cur = f[j]
          /\ \A l \in 1..k : l > j => pid[f[l]] \in printed
          /\ ~moved => stay \subseteq Pids(f)
    BY <2>2
  <2>4. j = 0
    BY <2>1, <2>3, RmapAssumption
  <2>5. Pids(f) \subseteq printed
    BY <2>3, <2>4 DEF Pids
  <2> QED  BY <2>1, <2>3, <2>5 DEF AllRelated
<1>5. CASE \E p \in Page : get_process_info(p)
  <2>1. PICK p \in Page : get_process_info(p)
    BY <1>5
  <2> QED  BY <1>1, <1>2, <2>1, AskFacts, CallFacts
<1>6. CASE page_lock_anon_vma_user
  <2>1. call' = Idle \/ call'.pc = "collect"
    BY <1>6 DEF page_lock_anon_vma_user, RmapTypeOK
  <2> QED  BY <1>1, <1>2, <2>1
<1>7. CASE Collect \/ Collected \/ PrintEntry \/ FreeEntry
  <2>1. call'.pc # "idle"
    BY <1>7 DEF Collect, Collected, PrintEntry, FreeEntry, Add, Lose, RmapTypeOK
  <2> QED  BY <1>1, <2>1
<1>8. CASE Locate
  BY <1>1, <1>8, LocateFacts
<1> QED  BY <1>3, <1>4, <1>5, <1>6, <1>7, <1>8 DEF Next, CallStep

\* An entry that was never on the list makes no circle.
LEMMA EndsNext ==
  ASSUME RmapTypeOK, PageInv, EntryInv, ListEnds, Next
  PROVE  ListEnds'
<1>1. CASE UNCHANGED <<next, reused>>
  BY <1>1 DEF ListEnds
<1>2. ASSUME NEW n \in Node, NEW t, Add(n, t) PROVE ListEnds'
  <2> SUFFICES ASSUME ~reused', NEW X \in SUBSET Node, next'[task_head] \in X,
                      \A x \in X : next'[x] \in X
               PROVE  FALSE
    BY DEF ListEnds
  <2>1. ~reused /\ mem[n] = "unused"
    <3>1. reused \/ mem[n] = "freed" => reused'
      BY <1>2 DEF Add
    <3>2. mem[n] \in {"unused", "freed"}
      BY <1>2 DEF Add, RmapTypeOK
    <3> QED  BY <3>1, <3>2
  <2>2. /\ next'[task_head] = n /\ next'[n] = next[task_head]
        /\ \A m \in Node \ {n} : next'[m] = next[m]
    BY <1>2, RmapAssumption DEF Add, RmapTypeOK
  <2>3. next[task_head] # n /\ \A x \in Node : next[x] # n
    BY <2>1 DEF EntryInv
  <2>4. next[task_head] \in X \ {n} /\ \A x \in X \ {n} : next[x] \in X \ {n}
    BY <2>2, <2>3
  <2>5. ~\E Y \in SUBSET Node : next[task_head] \in Y /\ \A x \in Y : next[x] \in Y
    BY <2>1 DEF ListEnds
  <2> QED  BY <2>4, <2>5
<1>3. CASE Collect
  BY <1>1, <1>2, <1>3 DEF Collect
<1> QED  BY <1>1, <1>3, KernelFrame
         DEF Next, CallStep, get_process_info, Locate, page_lock_anon_vma_user, Collected, PrintEntry,
             FreeEntry, Return

-----------------------------------------------------------------------------
(* The theorems.                                                            *)

LEMMA IndInit == Init => Ind
<1> SUFFICES ASSUME Init PROVE Ind
  OBVIOUS
<1>1. call = Idle /\ Idle.pc = "idle" /\ Idle.cur = task_head /\ Idle.page = None
  BY DEF Init, Idle
<1>2. RmapTypeOK
  <2>1. call \in Calls
    BY <1>1, CallFacts
  <2>2. vmas \in [Page -> Seq(Task \cup {None})] /\ \A p \in Page : Len(vmas[p]) <= MaxVmas
    <3>1. <<>> \in Seq(Task \cup {None}) /\ Len(<<>>) <= MaxVmas
      BY RmapAssumption
    <3>2. vmas = [p \in Page |-> <<>>]
      BY DEF Init
    <3> QED  BY <3>1, <3>2
  <2>3. 0 \in 0..MaxCalls
    BY RmapAssumption
  <2> QED  BY <2>1, <2>2, <2>3 DEF Init, RmapTypeOK, Calls
<1>3. LockBalanced /\ PageInv /\ ChainInv /\ AllRelated
  BY <1>1 DEF Init, LockBalanced, PageInv, ChainInv, AllRelated
<1>4. EntryInv
  BY <1>1, RmapAssumption DEF Init, EntryInv
<1>5. ListEnds
  BY RmapAssumption DEF Init, ListEnds
<1> QED  BY <1>2, <1>3, <1>4, <1>5 DEF Ind, RmapInv

LEMMA IndStep == Ind /\ [Next]_vars => Ind'
<1> SUFFICES ASSUME Ind, [Next]_vars PROVE Ind'
  OBVIOUS
<1>1. CASE Next
  BY <1>1, TypeNext, LockNext, EntryNext, ChainNext, RelatedNext, EndsNext DEF Ind, RmapInv
<1>2. CASE UNCHANGED vars
  <2>1. RmapTypeOK' /\ LockBalanced' /\ PageInv' /\ EntryInv' /\ AllRelated' /\ ListEnds'
    BY <1>2 DEF vars, Ind, RmapInv, RmapTypeOK, LockBalanced, PageInv, EntryInv, AllRelated,
                ListEnds
  <2>2. ChainInv'
    BY <1>2 DEF vars, Ind, RmapInv, ChainInv, Owners, Collecting, Printing, Linked, Pids, Left
  <2> QED  BY <2>1, <2>2 DEF Ind, RmapInv
<1> QED  BY <1>1, <1>2

LEMMA IndCorrect == Spec => []Ind
BY IndInit, IndStep, PTL DEF Spec

\* The anon_vma is locked for as long as its vmas are collected and no longer,
\* and the entries of a call come first on task_head.
THEOREM RmapInvCorrect == Spec => []RmapInv
BY IndCorrect, PTL DEF Ind

\* get_process_info has printed every process that mapped the page all along,
\* if no file's tree changed under it - even where freed entries of earlier
\* calls, that are still linked, have been handed out again.
THEOREM AllRelatedCorrect == Spec => []AllRelated
BY IndCorrect, PTL DEF Ind

\* task_head is reached again from itself, until the address of an entry that
\* was freed but not unlinked is handed out again.
THEOREM ListEndsCorrect == Spec => []ListEnds
BY IndCorrect, PTL DEF Ind

=============================================================================
