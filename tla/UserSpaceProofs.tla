---------------------------- MODULE UserSpaceProofs ----------------------------
(***************************************************************************)
(* Proofs about the search of user space: about MmWalk, for every set of   *)
(* tasks, callers and address spaces, and every list of tasks to begin     *)
(* with, and about PageWalk, for every size of the tables and every page   *)
(* directory.                                                              *)
(***************************************************************************)
EXTENDS MmWalk, PageWalk, FiniteSetTheorems, TLAPS

(* The tasks.                                                               *)

LEMMA TasksFinite == IsFiniteSet(Task) /\ IsFiniteSet(Caller)
BY FS_Subset, MmAssumption

-----------------------------------------------------------------------------
(* Counting.                                                                *)

\* A set that changes in one element at most.
LEMMA CountChange ==
  ASSUME NEW T, IsFiniteSet(T), NEW A \in SUBSET T, NEW B \in SUBSET T,
         NEW x \in T, \A y \in T \ {x} : y \in A <=> y \in B
  PROVE  /\ Cardinality(A) \in Nat /\ Cardinality(B) \in Nat
         /\ (x \in A <=> x \in B) => Cardinality(B) = Cardinality(A)
         /\ x \notin A /\ x \in B => Cardinality(B) = Cardinality(A) + 1
         /\ x \in A /\ x \notin B => Cardinality(B) = Cardinality(A) - 1
<1>1. IsFiniteSet(A) /\ IsFiniteSet(B)
  BY FS_Subset
<1>2. Cardinality(A) \in Nat /\ Cardinality(B) \in Nat
  BY <1>1, FS_CardinalityType
<1>3. CASE x \in A <=> x \in B
  <2>1. A = B
    BY <1>3
  <2> QED  BY <1>2, <1>3, <2>1
<1>4. CASE x \notin A /\ x \in B
  <2>1. B = A \cup {x}
    BY <1>4
  <2>2. Cardinality(A \cup {x}) = Cardinality(A) + 1
    BY <1>1, <1>4, FS_AddElement
  <2> QED  BY <1>2, <1>4, <2>1, <2>2
<1>5. CASE x \in A /\ x \notin B
  <2>1. B = A \ {x}
    BY <1>5
  <2>2. Cardinality(A \ {x}) = Cardinality(A) - 1
    BY <1>1, <1>5, FS_RemoveElement
  <2> QED  BY <1>2, <1>5, <2>1, <2>2
<1> QED  BY <1>3, <1>4, <1>5

\* What a task's new address space does to the counts.
LEMMA CountUpdate ==
  ASSUME NEW t \in Task, \A u \in Task \ {t} : tmm'[u] = tmm[u], NEW m \in Mm
  PROVE  /\ Count(m) \in Nat /\ Count(m)' \in Nat
         /\ (tmm[t] = m <=> tmm'[t] = m) => Count(m)' = Count(m)
         /\ tmm[t] # m /\ tmm'[t] = m => Count(m)' = Count(m) + 1
         /\ tmm[t] = m /\ tmm'[t] # m => Count(m)' = Count(m) - 1
<1> DEFINE A == {u \in Task : tmm[u] = m}
           B == {u \in Task : tmm'[u] = m}
<1>1. A \in SUBSET Task /\ B \in SUBSET Task /\ \A u \in Task \ {t} : u \in A <=> u \in B
  OBVIOUS
<1>2. (t \in A <=> tmm[t] = m) /\ (t \in B <=> tmm'[t] = m)
  OBVIOUS
<1>3. Count(m) = Cardinality(A) /\ Count(m)' = Cardinality(B)
  BY DEF Count
<1> HIDE DEF A, B
<1> QED  BY <1>1, <1>2, <1>3, CountChange, TasksFinite

\* What a caller's step does to the calls that count on an address space.
LEMMA CountedUpdate ==
  ASSUME NEW c \in Caller, \A d \in Caller \ {c} : walk'[d] = walk[d], NEW m \in Mm
  PROVE  LET n == Cardinality(Counted(m)) IN
         /\ n \in Nat /\ n' \in Nat
         /\ (c \in Counted(m) <=> c \in Counted(m)') => n' = n
         /\ c \notin Counted(m) /\ c \in Counted(m)' => n' = n + 1
         /\ c \in Counted(m) /\ c \notin Counted(m)' => n' = n - 1
<1> DEFINE A == Counted(m)
           B == {d \in Caller : walk'[d].pc \in {"lock", "walk", "drop"} /\ walk'[d].mm = m}
<1>1. A \in SUBSET Caller /\ B \in SUBSET Caller /\ \A d \in Caller \ {c} : d \in A <=> d \in B
  BY DEF Counted
<1>2. Counted(m)' = B
  BY DEF Counted
<1> HIDE DEF A, B
<1>3. /\ Cardinality(A) \in Nat /\ Cardinality(B) \in Nat
      /\ (c \in A <=> c \in B) => Cardinality(B) = Cardinality(A)
      /\ c \notin A /\ c \in B => Cardinality(B) = Cardinality(A) + 1
      /\ c \in A /\ c \notin B => Cardinality(B) = Cardinality(A) - 1
  BY <1>1, CountChange, TasksFinite
<1> QED  BY <1>2, <1>3 DEF A

-----------------------------------------------------------------------------
(* Going round.                                                             *)

LEMMA BetweenFacts ==
  ASSUME NEW a \in Nat, NEW b \in Nat, NEW c \in Nat, NEW t \in Nat
  PROVE  \* past b, what was before c is still before it ...
         /\ Between(a, t, c) /\ ~Between(a, t, b) /\ ~Between(a, c, b) /\ t # b =>
              b # c /\ Between(b, t, c)
         \* ... a whole turn begins at the successor ...
         /\ ~Between(c, t, b) /\ t # c /\ t # b /\ b # c => Between(b, t, c)
         \* ... and two stretches with b between them make one.
         /\ a < b /\ (c = 0 \/ b < c) /\ ~Between(a, t, b) /\ ~Between(b, t, c) /\ t # b =>
              ~Between(a, t, c)
         \* Nothing comes after the last.
         /\ ~Between(a, t, 0) <=> t <= a
         /\ t <= a /\ a < b => ~Between(a, t, b)
BY DEF Between

-----------------------------------------------------------------------------
(* What a step does to the locals of the calls.                             *)

Local == [pc : {"idle", "test", "take", "count", "lock", "walk", "drop", "lost"},
          p : Task \cup {None}, n : Task \cup {None}, mm : Mm \cup {None},
          safe : BOOLEAN, target : Mm \cup {None}]

\* The list is closed, whatever has left it.
LEMMA NextBorn ==
  ASSUME OrderInv, NEW t \in Born
  PROVE  next[t] \in Born
BY DEF OrderInv, Ordered

\* One caller's locals get new values; the others keep theirs.
LEMMA LocalUpdate ==
  ASSUME MmTypeOK, NEW c \in Caller, NEW v \in Local, walk' = [walk EXCEPT ![c] = v]
  PROVE  /\ walk' \in [Caller -> Local] /\ walk'[c] = v
         /\ \A d \in Caller \ {c} : walk'[d] = walk[d]
BY DEF MmTypeOK, Local

LEMMA LoseFacts ==
  ASSUME MmTypeOK, NEW c \in Caller, Lose(c)
  PROVE  /\ walk' \in [Caller -> Local]
         /\ walk'[c].pc = "lost" /\ walk'[c].mm = None /\ walk'[c].safe = FALSE
         /\ \A d \in Caller \ {c} : walk'[d] = walk[d]
<1> DEFINE v == [Idle EXCEPT !.pc = "lost", !.target = walk[c].target]
<1>1. v \in Local /\ v.pc = "lost" /\ v.mm = None /\ v.safe = FALSE
  BY DEF MmTypeOK, Local, Idle
<1>2. walk' = [walk EXCEPT ![c] = v]
  BY DEF Lose
<1> HIDE DEF v
<1> QED  BY <1>1, <1>2, LocalUpdate

LEMMA StartFacts ==
  ASSUME MmTypeOK, OrderInv, NEW c \in Caller, Start(c)
  PROVE  /\ walk' \in [Caller -> Local]
         /\ walk[c].pc = "idle" /\ c \in Listed /\ c \in Born
         /\ walk'[c].pc = "test" /\ walk'[c].p = next[c] /\ walk'[c].n = next[next[c]]
         /\ walk'[c].mm = None /\ walk'[c].safe = FALSE
         /\ next[c] \in Born /\ next[next[c]] \in Born
         /\ \A d \in Caller \ {c} : walk'[d] = walk[d]
<1> DEFINE v == [Idle EXCEPT !.pc = "test", !.p = next[c], !.n = next[next[c]]]
<1>1. c \in Listed /\ c \in Born /\ walk[c].pc = "idle"
  BY MmAssumption DEF Start, Listed, Born
<1>2. next[c] \in Born /\ next[next[c]] \in Born
  BY <1>1, NextBorn
<1>3. v \in Local /\ v.pc = "test" /\ v.p = next[c] /\ v.n = next[next[c]] /\ v.mm = None
      /\ v.safe = FALSE
  BY <1>2 DEF Local, Idle, Born
<1>4. walk' = [walk EXCEPT ![c] = v]
  BY DEF Start
<1> HIDE DEF v
<1> QED  BY <1>1, <1>2, <1>3, <1>4, LocalUpdate

\* On to the cached successor, unless that is freed memory.
LEMMA AdvanceFacts ==
  ASSUME MmTypeOK, OrderInv, NEW c \in Caller, walk[c].n \in Born, Advance(c)
  PROVE  /\ walk' \in [Caller -> Local]
         /\ due' = [due EXCEPT ![c] = @ \ {walk[c].p}]
         /\ walk'[c].mm = None /\ walk'[c].safe = FALSE
         /\ \/ walk'[c].pc = "lost"
            \/ /\ walk'[c].pc = "test" /\ walk'[c].p = walk[c].n
               /\ walk'[c].n = next[walk[c].n] /\ next[walk[c].n] \in Born
         /\ \A d \in Caller \ {c} : walk'[d] = walk[d]
<1>1. CASE Freed(walk[c].n)
  BY <1>1, LoseFacts DEF Advance
<1>2. CASE ~Freed(walk[c].n)
  <2> DEFINE n == walk[c].n
             v == [Idle EXCEPT !.pc = "test", !.p = n, !.n = next[n]]
  <2>1. next[n] \in Born
    BY NextBorn
  <2>2. /\ v \in Local /\ v.pc = "test" /\ v.p = n /\ v.n = next[n] /\ v.mm = None
        /\ v.safe = FALSE
    BY <2>1 DEF Local, Idle, Born
  <2>3. walk' = [walk EXCEPT ![c] = v] /\ due' = [due EXCEPT ![c] = @ \ {walk[c].p}]
    BY <1>2 DEF Advance
  <2> HIDE DEF v
  <2> QED  BY <2>1, <2>2, <2>3, LocalUpdate
<1> QED  BY <1>1, <1>2

\* The four ways on from an element of the list.
LEMMA TestFacts ==
  ASSUME MmTypeOK, OrderInv, WalkInv, NEW c \in Caller, Test(c)
  PROVE  LET v == walk[c]  w == walk'[c] IN
         /\ walk' \in [Caller -> Local] /\ v.pc = "test"
         /\ c \in Listed /\ v.p \in Born /\ v.n \in Born
         /\ \A d \in Caller \ {c} : walk'[d] = walk[d]
         /\ \/ v.p = c /\ w.pc = "idle" /\ w.mm = None /\ due' = due
            \/ w.pc = "lost" /\ w.mm = None /\ due' \in {due, [due EXCEPT ![c] = @ \ {v.p}]}
            \/ /\ v.p # c /\ tmm[v.p] = None
               /\ w.pc = "test" /\ w.p = v.n /\ w.n = next[v.n] /\ w.n \in Born
               /\ w.mm = None /\ due' = [due EXCEPT ![c] = @ \ {v.p}]
            \/ /\ v.p # c /\ tmm[v.p] \in Mm
               /\ w.pc = "take" /\ w.p = v.p /\ w.n = v.n /\ w.mm = tmm[v.p]
               /\ due' = due
<1> DEFINE v == walk[c]
           p == walk[c].p
<1>1. /\ v \in Local /\ v.pc = "test" /\ c \in Listed /\ v.p \in Born /\ v.n \in Born
  BY DEF MmTypeOK, Local, WalkInv, Walking, Test
<1>2. CASE p = c /\ walk' = [walk EXCEPT ![c] = Idle] /\ UNCHANGED due
  <2>1. Idle \in Local /\ Idle.pc = "idle" /\ Idle.mm = None
    BY DEF Idle, Local
  <2> QED  BY <1>1, <1>2, <2>1, LocalUpdate
<1>3. CASE p # c /\ Freed(p) /\ Lose(c) /\ UNCHANGED due
  BY <1>1, <1>3, LoseFacts
<1>4. CASE p # c /\ ~Freed(p) /\ tmm[p] = None /\ Advance(c)
  BY <1>1, <1>4, AdvanceFacts
<1>5. CASE /\ p # c /\ ~Freed(p) /\ tmm[p] # None
           /\ walk' = [walk EXCEPT ![c].pc = "take", ![c].mm = tmm[p]]
           /\ UNCHANGED due
  <2> DEFINE u == [v EXCEPT !.pc = "take", !.mm = tmm[p]]
  <2>1. tmm[p] \in Mm
    BY <1>1, <1>5 DEF MmTypeOK, Born
  <2>2. u \in Local /\ u.pc = "take" /\ u.p = v.p /\ u.n = v.n /\ u.mm = tmm[p]
    BY <1>1, <2>1 DEF Local
  <2>3. walk' = [walk EXCEPT ![c] = u]
    BY <1>5
  <2> HIDE DEF u
  <2>4. /\ walk' \in [Caller -> Local] /\ walk'[c] = u
        /\ \A d \in Caller \ {c} : walk'[d] = walk[d]
    BY <2>2, <2>3, LocalUpdate
  <2> QED  BY <1>1, <1>5, <2>1, <2>2, <2>4
<1> QED  BY <1>2, <1>3, <1>4, <1>5 DEF Test

LEMMA TakeFacts ==
  ASSUME MmTypeOK, OrderInv, MadeInv, WalkInv, NEW c \in Caller, Take(c)
  PROVE  LET v == walk[c]  w == walk'[c] IN
         /\ walk' \in [Caller -> Local] /\ v.pc = "take"
         /\ c \in Listed /\ v.p \in Born /\ v.n \in Born
         /\ \A d \in Caller \ {c} : walk'[d] = walk[d]
         /\ \/ w.pc = "lost" /\ w.mm = None
            \/ /\ w.pc = "count" /\ w.p = v.p /\ w.n = v.n
               /\ w.mm = v.mm \/ w.mm = tmm[v.p]
               /\ w.mm \in Mm
<1> DEFINE v == walk[c]
           p == walk[c].p
           u(m) == [v EXCEPT !.pc = "count", !.mm = m]
<1>1. /\ v \in Local /\ v.pc = "take" /\ c \in Listed /\ v.p \in Born /\ v.n \in Born
  BY DEF MmTypeOK, Local, WalkInv, Walking, Take
<1>2. \A m \in Mm \cup {None} :
        u(m) \in Local /\ u(m).pc = "count" /\ u(m).p = p /\ u(m).n = v.n /\ u(m).mm = m
  BY <1>1 DEF Local
<1>3. CASE walk' = [walk EXCEPT ![c].pc = "count"]
  <2>1. walk' = [walk EXCEPT ![c] = u(v.mm)]
    <3>1. [v EXCEPT !.pc = "count"] = u(v.mm)
      BY <1>1 DEF Local
    <3> QED  BY <1>3, <3>1
  <2>2. v.mm \in Mm
    BY <1>1 DEF WalkInv, Walking, MmTypeOK
  <2> HIDE DEF u
  <2> QED  BY <1>1, <1>2, <2>1, <2>2, LocalUpdate
<1>4. CASE Lose(c)
  BY <1>1, <1>4, LoseFacts
<1>5. CASE tmm[p] # None /\ walk' = [walk EXCEPT ![c].pc = "count", ![c].mm = tmm[p]]
  <2>1. tmm[p] \in Mm
    BY <1>1, <1>5 DEF MmTypeOK, Born
  <2>2. walk' = [walk EXCEPT ![c] = u(tmm[p])]
    BY <1>5
  <2> HIDE DEF u
  <2> QED  BY <1>1, <1>2, <2>1, <2>2, LocalUpdate
<1> QED  BY <1>3, <1>4, <1>5 DEF Take

\* atomic_inc, the walk under its lock, atomic_dec: the same p and mm throughout.
LEMMA RaiseFacts ==
  ASSUME MmTypeOK, WalkInv, NEW c \in Caller, Raise(c)
  PROVE  LET v == walk[c]  w == walk'[c] IN
         /\ walk' \in [Caller -> Local] /\ v.pc = "count"
         /\ c \in Listed /\ v.p \in Born /\ v.n \in Born /\ v.mm \in Mm
         /\ \A d \in Caller \ {c} : walk'[d] = walk[d]
         /\ w.pc = "lock" /\ w.p = v.p /\ w.n = v.n /\ w.mm = v.mm
         /\ w.safe = (v.mm \notin torn)
<1> DEFINE v == walk[c]
           u == [v EXCEPT !.pc = "lock", !.safe = v.mm \notin torn]
<1>1. /\ v \in Local /\ v.pc = "count" /\ c \in Listed /\ v.p \in Born /\ v.n \in Born
      /\ v.mm \in Mm
  BY DEF MmTypeOK, Local, WalkInv, Walking, Raise
<1>2. /\ u \in Local /\ u.pc = "lock" /\ u.p = v.p /\ u.n = v.n /\ u.mm = v.mm
      /\ u.safe = (v.mm \notin torn)
  BY <1>1 DEF Local
<1>3. walk' = [walk EXCEPT ![c] = u]
  BY DEF Raise
<1> HIDE DEF u
<1>4. /\ walk' \in [Caller -> Local] /\ walk'[c] = u
      /\ \A d \in Caller \ {c} : walk'[d] = walk[d]
  BY <1>2, <1>3, LocalUpdate
<1> QED  BY <1>1, <1>2, <1>4

LEMMA WalkBeginFacts ==
  ASSUME MmTypeOK, WalkInv, NEW c \in Caller, WalkBegin(c)
  PROVE  LET v == walk[c]  w == walk'[c] IN
         /\ walk' \in [Caller -> Local] /\ v.pc = "lock"
         /\ c \in Listed /\ v.p \in Born /\ v.n \in Born /\ v.mm \in Mm
         /\ \A d \in Caller \ {c} : walk'[d] = walk[d]
         /\ \/ w.pc = "lost" /\ w.mm = None
            \/ /\ w.pc = "walk" /\ w.p = v.p /\ w.n = v.n /\ w.mm = v.mm
               /\ w.safe = v.safe
               /\ w.target = v.mm \/ (w.target = tmm[v.p] /\ tmm[v.p] # None)
               /\ w.target \in Mm
<1> DEFINE v == walk[c]
<1>1. /\ v \in Local /\ v.pc = "lock" /\ c \in Listed /\ v.p \in Born /\ v.n \in Born
      /\ v.mm \in Mm
  BY DEF MmTypeOK, Local, WalkInv, Walking, WalkBegin
<1>2. CASE Lose(c)
  BY <1>1, <1>2, LoseFacts
<1>3. CASE ~Lose(c)
  <2>1. PICK m \in {v.mm} \cup ({tmm[v.p]} \ {None}) :
          walk' = [walk EXCEPT ![c].pc = "walk", ![c].target = m]
    BY <1>3 DEF WalkBegin
  <2> DEFINE u == [v EXCEPT !.pc = "walk", !.target = m]
  <2>2. m \in Mm
    BY <1>1, <2>1 DEF MmTypeOK, Born
  <2>3. /\ u \in Local /\ u.pc = "walk" /\ u.p = v.p /\ u.n = v.n /\ u.mm = v.mm
        /\ u.safe = v.safe /\ u.target = m
    BY <1>1, <2>2 DEF Local
  <2>4. walk' = [walk EXCEPT ![c] = u]
    BY <2>1
  <2> HIDE DEF u
  <2>5. /\ walk' \in [Caller -> Local] /\ walk'[c] = u
        /\ \A d \in Caller \ {c} : walk'[d] = walk[d]
    BY <2>3, <2>4, LocalUpdate
  <2> QED  BY <1>1, <2>2, <2>3, <2>5
<1> QED  BY <1>2, <1>3

LEMMA WalkEndFacts ==
  ASSUME MmTypeOK, WalkInv, NEW c \in Caller, WalkEnd(c)
  PROVE  LET v == walk[c]  w == walk'[c] IN
         /\ walk' \in [Caller -> Local] /\ v.pc = "walk"
         /\ c \in Listed /\ v.p \in Born /\ v.n \in Born /\ v.mm \in Mm
         /\ \A d \in Caller \ {c} : walk'[d] = walk[d]
         /\ \/ w.pc = "lost" /\ w.mm = None /\ UNCHANGED <<report, now_task>>
            \/ /\ w.pc = "drop" /\ w.p = v.p /\ w.n = v.n /\ w.mm = v.mm
               /\ w.safe = v.safe
               /\ now_task' = None
               /\ report' = None \/ (report' = <<now_task, v.target>>
                                     /\ now_task \in Task /\ v.target \in Mm)
<1> DEFINE v == walk[c]
           u == [v EXCEPT !.pc = "drop", !.target = None]
<1>1. /\ v \in Local /\ v.pc = "walk" /\ c \in Listed /\ v.p \in Born /\ v.n \in Born
      /\ v.mm \in Mm /\ v.target \in Mm
  BY DEF MmTypeOK, Local, WalkInv, Walking, WalkEnd
<1>2. CASE Lose(c) /\ UNCHANGED <<report, now_task>>
  BY <1>1, <1>2, LoseFacts
<1>3. CASE ~(Lose(c) /\ UNCHANGED <<report, now_task>>)
  <2>1. /\ ~(v.target \in Maps /\ now_task = None)
        /\ report' = IF v.target \in Maps THEN <<now_task, v.target>> ELSE None
        /\ now_task' = None
        /\ walk' = [walk EXCEPT ![c] = u]
    BY <1>3 DEF WalkEnd
  <2>2. /\ u \in Local /\ u.pc = "drop" /\ u.p = v.p /\ u.n = v.n /\ u.mm = v.mm
        /\ u.safe = v.safe
    BY <1>1 DEF Local
  <2> HIDE DEF u
  <2>3. /\ walk' \in [Caller -> Local] /\ walk'[c] = u
        /\ \A d \in Caller \ {c} : walk'[d] = walk[d]
    BY <2>1, <2>2, LocalUpdate
  <2>4. report' = None \/ (report' = <<now_task, v.target>> /\ now_task \in Task)
    BY <2>1 DEF MmTypeOK
  <2> QED  BY <1>1, <2>1, <2>2, <2>3, <2>4
<1> QED  BY <1>2, <1>3

LEMMA DropFacts ==
  ASSUME MmTypeOK, OrderInv, WalkInv, NEW c \in Caller, Drop(c)
  PROVE  LET v == walk[c]  w == walk'[c] IN
         /\ walk' \in [Caller -> Local] /\ v.pc = "drop"
         /\ c \in Listed /\ v.p \in Born /\ v.n \in Born /\ v.mm \in Mm
         /\ \A d \in Caller \ {c} : walk'[d] = walk[d]
         /\ w.mm = None /\ w.safe = FALSE
         /\ due' = [due EXCEPT ![c] = @ \ {v.p}]
         /\ \/ w.pc = "lost"
            \/ w.pc = "test" /\ w.p = v.n /\ w.n = next[v.n] /\ w.n \in Born
<1>1. /\ walk[c].pc = "drop" /\ c \in Listed /\ walk[c].p \in Born /\ walk[c].n \in Born
      /\ walk[c].mm \in Mm
  BY DEF MmTypeOK, WalkInv, Walking, Drop
<1> QED  BY <1>1, AdvanceFacts DEF Drop

-----------------------------------------------------------------------------
(* The invariant, conjunct by conjunct.                                     *)

Ind == MmInv /\ AllSeen /\ CountedStays /\ ReportTrue

LEMMA CallerFrame ==
  ASSUME NEW c \in Caller, CallerStep(c)
  PROVE  UNCHANGED <<next, task, tmm, made, torn, used>>
BY DEF CallerStep, Start, Test, Take, Raise, WalkBegin, WalkEnd, Drop, kernelVars

LEMMA KernelFrame ==
  ASSUME KernelStep
  PROVE  UNCHANGED <<walk, now_task, report, alone>>
BY DEF KernelStep, Fork, Exec, ExitMm, Unlink, FreeTask

\* A call that counts on an address space has a share of its users ...
LEMMA CallIsUser ==
  ASSUME MmTypeOK, CountBalanced, NEW c \in Caller,
         walk[c].pc \in {"lock", "walk", "drop"}, walk[c].mm \in Mm
  PROVE  LET m == walk[c].mm IN Count(m) \in Nat /\ users[m] \in Nat /\ users[m] >= Count(m) + 1
<1> DEFINE m == walk[c].mm
<1>1. c \in Counted(m) /\ IsFiniteSet(Counted(m))
  BY TasksFinite, FS_Subset DEF Counted
<1>2. Cardinality(Counted(m)) \in Nat /\ Cardinality(Counted(m)) # 0
  BY <1>1, FS_CardinalityType, FS_EmptySet
<1>3. Count(m) \in Nat
  BY TasksFinite, FS_Subset, FS_CardinalityType DEF Count
<1>4. users[m] >= Count(m) + Cardinality(Counted(m))
  BY DEF CountBalanced
<1>5. users[m] \in Nat
  BY DEF MmTypeOK
<1> HIDE DEF m
<1> QED  BY <1>2, <1>3, <1>4, <1>5 DEF m

\* ... and so has a task.
LEMMA TaskIsUser ==
  ASSUME MmTypeOK, CountBalanced, NEW t \in Task, tmm[t] # None
  PROVE  LET m == tmm[t]  n == Cardinality(Counted(m)) IN
           m \in Mm /\ n \in Nat /\ users[m] \in Nat /\ users[m] >= n + 1
<1> DEFINE m == tmm[t]
           A == {u \in Task : tmm[u] = m}
<1>1. t \in A /\ IsFiniteSet(A) /\ Count(m) = Cardinality(A)
  BY TasksFinite, FS_Subset DEF Count
<1>2. Count(m) \in Nat /\ Count(m) # 0
  BY <1>1, FS_CardinalityType, FS_EmptySet
<1>3. Cardinality(Counted(m)) \in Nat
  BY TasksFinite, FS_Subset, FS_CardinalityType DEF Counted
<1>4. m \in Mm
  BY DEF MmTypeOK
<1>5. users[m] \in Nat /\ users[m] >= Count(m) + Cardinality(Counted(m))
  BY <1>4 DEF MmTypeOK, CountBalanced
<1> HIDE DEF m
<1> QED  BY <1>2, <1>3, <1>4, <1>5 DEF m

LEMMA TypeOfCaller ==
  ASSUME Ind, NEW c \in Caller, CallerStep(c)
  PROVE  MmTypeOK'
<1>1. UNCHANGED <<next, task, tmm, made, torn, used>> /\ MmTypeOK
  BY CallerFrame DEF Ind, MmInv
<1> SUFFICES /\ users' \in [Mm -> Nat] /\ now_task' \in Task \cup {None}
             /\ walk' \in [Caller -> Local] /\ due' \in [Caller -> SUBSET Task]
             /\ report' \in Task \X Mm \cup {None} /\ alone' \in BOOLEAN
  BY <1>1 DEF MmTypeOK, Local
<1>2. CASE Start(c)
  <2>1. walk' \in [Caller -> Local]
    BY <1>2, StartFacts DEF Ind, MmInv
  <2> QED  BY <1>2, <2>1 DEF Start, MmTypeOK, Ind, MmInv
<1>3. CASE Test(c)
  <2>1. /\ walk' \in [Caller -> Local]
        /\ due' \in {due, [due EXCEPT ![c] = @ \ {walk[c].p}]}
    BY <1>3, TestFacts DEF Ind, MmInv
  <2> QED  BY <1>3, <2>1 DEF Test, MmTypeOK, Ind, MmInv
<1>4. CASE Take(c)
  <2>1. walk' \in [Caller -> Local]
    BY <1>4, TakeFacts DEF Ind, MmInv
  <2> QED  BY <1>4, <2>1 DEF Take, MmTypeOK, Ind, MmInv
<1>5. CASE Raise(c)
  <2>1. walk' \in [Caller -> Local] /\ walk[c].p \in Task /\ walk[c].mm \in Mm
    BY <1>5, RaiseFacts DEF Ind, MmInv, Born
  <2> QED  BY <1>5, <2>1 DEF Raise, MmTypeOK, Ind, MmInv
<1>6. CASE WalkBegin(c)
  <2>1. walk' \in [Caller -> Local]
    BY <1>6, WalkBeginFacts DEF Ind, MmInv
  <2> QED  BY <1>6, <2>1 DEF WalkBegin, MmTypeOK, Ind, MmInv
<1>7. CASE WalkEnd(c)
  <2>1. /\ walk' \in [Caller -> Local] /\ now_task' \in {now_task, None}
        /\ report' \in Task \X Mm \cup {None}
    BY <1>7, WalkEndFacts DEF Ind, MmInv, MmTypeOK
  <2> QED  BY <1>7, <2>1 DEF WalkEnd, MmTypeOK, Ind, MmInv
<1>8. CASE Drop(c)
  <2> DEFINE m == walk[c].mm
  <2>1. /\ walk' \in [Caller -> Local] /\ walk[c].pc = "drop" /\ m \in Mm
        /\ due' = [due EXCEPT ![c] = @ \ {walk[c].p}]
    BY <1>8, DropFacts DEF Ind, MmInv
  <2>2. users[m] \in Nat /\ users[m] >= 1
    BY <2>1, CallIsUser DEF Ind, MmInv
  <2>3. users' = [users EXCEPT ![m] = @ - 1]
    BY <1>8 DEF Drop
  <2> HIDE DEF m
  <2>4. users' \in [Mm -> Nat]
    BY <1>1, <2>1, <2>2, <2>3 DEF MmTypeOK
  <2> QED  BY <1>8, <2>1, <2>4 DEF Drop, MmTypeOK, Ind, MmInv
<1> QED  BY <1>2, <1>3, <1>4, <1>5, <1>6, <1>7, <1>8 DEF CallerStep

LEMMA TypeOfKernel ==
  ASSUME Ind, KernelStep
  PROVE  MmTypeOK'
<1>0. MmTypeOK /\ UNCHANGED <<walk, now_task, report, alone>>
  BY KernelFrame DEF Ind, MmInv
<1>1. ASSUME NEW t \in Task, NEW u \in Task, NEW m \in Mm \cup {None}, Fork(t, u, m)
      PROVE  MmTypeOK'
  <2>1. Swapper \in Task
    BY MmAssumption
  <2>2. next' \in [Task -> Task \cup {None}]
    BY <1>0, <1>1, <2>1 DEF Fork, MmTypeOK
  <2>3. users' \in [Mm -> Nat] /\ made' \subseteq Mm /\ made \subseteq made'
    BY <1>0, <1>1 DEF Fork, MmTypeOK
  <2>4. used' \subseteq Task \X Mm
    BY <1>0, <1>1 DEF Fork, MmTypeOK
  <2> QED  BY <1>0, <1>1, <2>2, <2>3, <2>4 DEF Fork, MmTypeOK
<1>2. ASSUME NEW t \in Task, NEW m \in Mm, Exec(t, m)
      PROVE  MmTypeOK'
  <2>1. tmm[t] \in Mm /\ tmm[t] \in made /\ m # tmm[t] /\ users[tmm[t]] \in Nat
        /\ users[tmm[t]] >= 1
    <3>1. tmm[t] # None
      BY <1>2 DEF Exec
    <3>2. tmm[t] \in made
      BY <3>1 DEF Ind, MmInv, MadeInv
    <3> QED  BY <1>2, <3>1, <3>2, TaskIsUser DEF Ind, MmInv, Exec
  <2>2. users' \in [Mm -> Nat]
    BY <1>0, <1>2, <2>1 DEF Exec, MmTypeOK
  <2>3. torn' \subseteq made' /\ made' \subseteq Mm
    BY <1>0, <1>2, <2>1 DEF Exec, MmTypeOK
  <2> QED  BY <1>0, <1>2, <2>2, <2>3 DEF Exec, MmTypeOK
<1>3. ASSUME NEW t \in Task, ExitMm(t)
      PROVE  MmTypeOK'
  <2>1. tmm[t] # None /\ tmm[t] \in made
    BY <1>3 DEF ExitMm, Ind, MmInv, MadeInv
  <2>2. tmm[t] \in Mm /\ users[tmm[t]] \in Nat /\ users[tmm[t]] >= 1
    BY <2>1, TaskIsUser DEF Ind, MmInv
  <2>3. users' \in [Mm -> Nat] /\ torn' \subseteq made
    BY <1>0, <1>3, <2>1, <2>2 DEF ExitMm, Put, MmTypeOK
  <2> QED  BY <1>0, <1>3, <2>3 DEF ExitMm, MmTypeOK
<1>4. ASSUME NEW t \in Task, Unlink(t) \/ FreeTask(t)
      PROVE  MmTypeOK'
  BY <1>0, <1>4 DEF Unlink, FreeTask, MmTypeOK
<1> QED  BY <1>1, <1>2, <1>3, <1>4 DEF KernelStep

\* Nothing is followed past a bad pointer: a caller that is lost stays lost.
LEMMA LostStays ==
  ASSUME Ind, NEW c \in Caller, CallerStep(c), \A d \in Caller : walk'[d].pc # "lost"
  PROVE  \A d \in Caller : walk[d].pc # "lost"
<1>1. walk[c].pc # "lost"
  BY DEF CallerStep, Start, Test, Take, Raise, WalkBegin, WalkEnd, Drop
<1>2. \A d \in Caller \ {c} : walk'[d] = walk[d]
  BY StartFacts, TestFacts, TakeFacts, RaiseFacts, WalkBeginFacts, WalkEndFacts, DropFacts
     DEF CallerStep, Ind, MmInv
<1> QED  BY <1>1, <1>2

\* Each space keeps its users: each step moves the count and the shares of it
\* together, but for a lost caller's, which is never given back.
LEMMA CountOfCaller ==
  ASSUME Ind, NEW c \in Caller, CallerStep(c)
  PROVE  CountBalanced'
<1> SUFFICES ASSUME NEW m \in Mm
             PROVE  LET held == Count(m) + Cardinality(Counted(m)) IN
                    /\ users'[m] >= held'
                    /\ (\A d \in Caller : walk'[d].pc # "lost") => users'[m] = held'
  BY DEF CountBalanced
<1> DEFINE n == Cardinality(Counted(m))
           lost == \E d \in Caller : walk[d].pc = "lost"
           lostNext == \E d \in Caller : walk'[d].pc = "lost"
<1>1. /\ Count(m) \in Nat /\ users[m] \in Nat /\ users[m] >= Count(m) + n
      /\ ~lost => users[m] = Count(m) + n
  <2>1. Count(m) \in Nat
    BY TasksFinite, FS_Subset, FS_CardinalityType DEF Count
  <2> QED  BY <2>1 DEF Ind, MmInv, CountBalanced, MmTypeOK
<1>2. Count(m)' = Count(m)
  BY CallerFrame DEF Count
<1>3. ~lostNext => ~lost
  BY LostStays
<1>4. \A d \in Caller \ {c} : walk'[d] = walk[d]
  BY StartFacts, TestFacts, TakeFacts, RaiseFacts, WalkBeginFacts, WalkEndFacts, DropFacts
     DEF CallerStep, Ind, MmInv
<1>5. /\ n \in Nat /\ n' \in Nat
      /\ (c \in Counted(m) <=> c \in Counted(m)') => n' = n
      /\ c \notin Counted(m) /\ c \in Counted(m)' => n' = n + 1
      /\ c \in Counted(m) /\ c \notin Counted(m)' => n' = n - 1
  BY <1>4, CountedUpdate
<1>6. /\ c \in Counted(m) <=> walk[c].pc \in {"lock", "walk", "drop"} /\ walk[c].mm = m
      /\ c \in Counted(m)' <=> walk'[c].pc \in {"lock", "walk", "drop"} /\ walk'[c].mm = m
  BY DEF Counted
<1>7. walk'[c].pc = "lost" => lostNext
  OBVIOUS
<1> SUFFICES /\ users'[m] >= Count(m) + n'
             /\ ~lostNext => users'[m] = Count(m) + n'
  BY <1>2
<1> HIDE DEF n, lost, lostNext
<1>8. CASE Start(c) \/ Test(c) \/ Take(c)
  <2>1. c \notin Counted(m) /\ c \notin Counted(m)' /\ users' = users
    <3>1. walk[c].pc \in {"idle", "test", "take"}
      BY <1>8 DEF Start, Test, Take
    <3>2. walk'[c].pc \in {"idle", "test", "take", "count", "lost"}
      BY <1>8, StartFacts, TestFacts, TakeFacts DEF Ind, MmInv
    <3>3. users' = users
      BY <1>8 DEF Start, Test, Take
    <3> QED  BY <1>6, <3>1, <3>2, <3>3
  <2> QED  BY <1>1, <1>3, <1>5, <2>1
<1>9. CASE Raise(c)
  <2>1. /\ walk[c].pc = "count" /\ walk[c].mm \in Mm
        /\ walk'[c].pc = "lock" /\ walk'[c].mm = walk[c].mm
    BY <1>9, RaiseFacts DEF Ind, MmInv
  <2>2. users'[m] = IF walk[c].mm = m THEN users[m] + 1 ELSE users[m]
    BY <1>9, <2>1 DEF Raise, Ind, MmInv, MmTypeOK
  <2> QED  BY <1>1, <1>3, <1>5, <1>6, <2>1, <2>2
<1>10. CASE WalkBegin(c) \/ WalkEnd(c)
  <2>1. /\ walk[c].pc \in {"lock", "walk"}
        /\ \/ walk'[c].pc = "lost"
           \/ walk'[c].pc \in {"walk", "drop"} /\ walk'[c].mm = walk[c].mm
    BY <1>10, WalkBeginFacts, WalkEndFacts DEF Ind, MmInv
  <2>2. users' = users
    BY <1>10 DEF WalkBegin, WalkEnd
  <2> QED  BY <1>1, <1>3, <1>5, <1>6, <1>7, <2>1, <2>2
<1>11. CASE Drop(c)
  <2>1. /\ walk[c].pc = "drop" /\ walk[c].mm \in Mm
        /\ walk'[c].pc \in {"lost", "test"}
    BY <1>11, DropFacts DEF Ind, MmInv
  <2>2. users'[m] = IF walk[c].mm = m THEN users[m] - 1 ELSE users[m]
    BY <1>11, <2>1 DEF Drop, Ind, MmInv, MmTypeOK
  <2> QED  BY <1>1, <1>3, <1>5, <1>6, <2>1, <2>2
<1> QED  BY <1>8, <1>9, <1>10, <1>11 DEF CallerStep

LEMMA CountOfKernel ==
  ASSUME Ind, KernelStep
  PROVE  CountBalanced'
<1> SUFFICES ASSUME NEW m \in Mm
             PROVE  users'[m] - Count(m)' = users[m] - Count(m)
                    /\ users'[m] \in Nat /\ Count(m)' \in Nat
  <2>1. walk' = walk
    BY KernelFrame
  <2>2. ASSUME NEW k \in Mm PROVE Counted(k)' = Counted(k)
    BY <2>1 DEF Counted
  <2>3. ASSUME NEW k \in Mm
        PROVE  users[k] \in Nat /\ Count(k) \in Nat /\ Cardinality(Counted(k)) \in Nat
    BY TasksFinite, FS_Subset, FS_CardinalityType DEF Ind, MmInv, MmTypeOK, Count, Counted
  <2> QED  BY <2>1, <2>2, <2>3 DEF CountBalanced, Ind, MmInv
<1>0. MmTypeOK /\ MmTypeOK'
  BY TypeOfKernel DEF Ind, MmInv
<1>1. users[m] \in Nat /\ users'[m] \in Nat
  BY <1>0 DEF MmTypeOK
<1>2. ASSUME NEW t \in Task, NEW u \in Task, NEW k \in Mm \cup {None}, Fork(t, u, k)
      PROVE  users'[m] - Count(m)' = users[m] - Count(m) /\ Count(m)' \in Nat
  <2>1. tmm[u] = None /\ tmm'[u] = k /\ \A x \in Task \ {u} : tmm'[x] = tmm[x]
    <3>1. u \notin Listed
      BY <1>2 DEF Fork, Listed
    <3>2. tmm[u] = None
      BY <3>1 DEF Ind, MmInv, MadeInv
    <3>3. tmm' = [tmm EXCEPT ![u] = k]
      BY <1>2 DEF Fork
    <3> QED  BY <1>0, <3>2, <3>3 DEF MmTypeOK
  <2>2. users'[m] = IF k = m THEN users[m] + 1 ELSE users[m]
    BY <1>0, <1>2, MmAssumption DEF Fork, MmTypeOK
  <2>3. /\ Count(m) \in Nat /\ Count(m)' \in Nat
        /\ k # m => Count(m)' = Count(m)
        /\ k = m => Count(m)' = Count(m) + 1
    BY <2>1, CountUpdate, MmAssumption
  <2> QED  BY <1>1, <2>2, <2>3
<1>3. ASSUME NEW t \in Task, NEW k \in Mm, Exec(t, k)
      PROVE  users'[m] - Count(m)' = users[m] - Count(m) /\ Count(m)' \in Nat
  <2>1. tmm[t] # None /\ tmm'[t] = k /\ \A x \in Task \ {t} : tmm'[x] = tmm[x]
    BY <1>0, <1>3 DEF Exec, MmTypeOK
  <2>2. tmm[t] \in made /\ k \notin made /\ tmm[t] \in Mm /\ users[k] = 0 /\ tmm[t] # k
    BY <1>0, <1>3, <2>1 DEF Exec, Ind, MmInv, MadeInv, MmTypeOK
  <2>3. users'[m] = IF m = k THEN users[m] + 1
                    ELSE IF m = tmm[t] THEN users[m] - 1 ELSE users[m]
    BY <1>0, <1>3, <2>2 DEF Exec, MmTypeOK
  <2>4. /\ Count(m) \in Nat /\ Count(m)' \in Nat
        /\ m # k /\ m # tmm[t] => Count(m)' = Count(m)
        /\ m = k => Count(m)' = Count(m) + 1
        /\ m = tmm[t] => Count(m)' = Count(m) - 1
    BY <2>1, <2>2, CountUpdate
  <2> QED  BY <1>1, <2>2, <2>3, <2>4
<1>4. ASSUME NEW t \in Task, ExitMm(t)
      PROVE  users'[m] - Count(m)' = users[m] - Count(m) /\ Count(m)' \in Nat
  <2>1. tmm[t] # None /\ tmm'[t] = None /\ \A x \in Task \ {t} : tmm'[x] = tmm[x]
    BY <1>0, <1>4 DEF ExitMm, MmTypeOK
  <2>2. users'[m] = IF m = tmm[t] THEN users[m] - 1 ELSE users[m]
    BY <1>0, <1>4 DEF ExitMm, Put, MmTypeOK
  <2>3. /\ Count(m) \in Nat /\ Count(m)' \in Nat
        /\ m # tmm[t] => Count(m)' = Count(m)
        /\ m = tmm[t] => Count(m)' = Count(m) - 1
    BY <2>1, CountUpdate, MmAssumption
  <2> QED  BY <1>1, <2>2, <2>3
<1>5. ASSUME NEW t \in Task, Unlink(t) \/ FreeTask(t)
      PROVE  users'[m] - Count(m)' = users[m] - Count(m) /\ Count(m)' \in Nat
  <2>1. users' = users /\ Count(m)' = Count(m)
    BY <1>5 DEF Unlink, FreeTask, Count
  <2>2. Count(m) \in Nat
    BY TasksFinite, FS_Subset, FS_CardinalityType DEF Count
  <2> QED  BY <2>1, <2>2
<1> QED  BY <1>1, <1>2, <1>3, <1>4, <1>5 DEF KernelStep

\* An address space has users as soon as it is made, and none before.
LEMMA MadeOfCaller ==
  ASSUME Ind, NEW c \in Caller, CallerStep(c)
  PROVE  MadeInv'
<1>1. UNCHANGED <<next, task, tmm, made, torn, used>>
  BY CallerFrame
<1>2. \A t \in Task : /\ tmm'[t] # None => t \in Listed' /\ <<t, tmm'[t]>> \in used'
                      /\ tmm'[t] \in made' \cup {None}
  BY <1>1 DEF Ind, MmInv, MadeInv, Listed
<1>3. \A d \in Caller \ {c} : walk'[d] = walk[d]
  BY StartFacts, TestFacts, TakeFacts, RaiseFacts, WalkBeginFacts, WalkEndFacts, DropFacts
     DEF CallerStep, Ind, MmInv
<1>4. walk'[c].mm \in made \cup {None}
  <2>1. \A t \in Task : tmm[t] \in made \cup {None}
    BY DEF Ind, MmInv, MadeInv
  <2>2. walk[c].mm \in made \cup {None}
    BY DEF Ind, MmInv, MadeInv
  <2>3. CASE Start(c) \/ Test(c) \/ Take(c)
    <3>1. MmTypeOK /\ OrderInv /\ MadeInv /\ WalkInv
      BY DEF Ind, MmInv
    <3>2. CASE Start(c)
      BY <2>2, <3>1, <3>2, StartFacts
    <3>3. CASE Test(c)
      BY <2>1, <2>2, <3>1, <3>3, TestFacts DEF Born
    <3>4. CASE Take(c)
      BY <2>1, <2>2, <3>1, <3>4, TakeFacts DEF Born
    <3> QED  BY <2>3, <3>2, <3>3, <3>4
  <2>4. CASE Raise(c) \/ WalkBegin(c) \/ WalkEnd(c) \/ Drop(c)
    BY <2>2, <2>4, RaiseFacts, WalkBeginFacts, WalkEndFacts, DropFacts DEF Ind, MmInv
  <2> QED  BY <2>3, <2>4 DEF CallerStep
<1>5. \A d \in Caller : walk'[d].mm \in made' \cup {None}
  BY <1>1, <1>3, <1>4 DEF Ind, MmInv, MadeInv
<1>6. \A m \in Mm \ made' : users'[m] = 0
  <2>1. CASE Raise(c) \/ Drop(c)
    <3>1. walk[c].mm \in made
      <4>1. walk[c].mm \in Mm
        BY <2>1, RaiseFacts, DropFacts DEF Ind, MmInv
      <4> QED  BY <4>1, MmAssumption DEF Ind, MmInv, MadeInv
    <3>2. \A m \in Mm \ made : users'[m] = users[m]
      BY <2>1, <3>1 DEF Raise, Drop, Ind, MmInv, MmTypeOK
    <3> QED  BY <1>1, <3>2 DEF Ind, MmInv, MadeInv
  <2>2. CASE ~(Raise(c) \/ Drop(c))
    <3>1. users' = users
      BY <2>2 DEF CallerStep, Start, Test, Take, WalkBegin, WalkEnd
    <3> QED  BY <1>1, <3>1 DEF Ind, MmInv, MadeInv
  <2> QED  BY <2>1, <2>2
<1> QED  BY <1>2, <1>5, <1>6 DEF MadeInv

LEMMA MadeOfKernel ==
  ASSUME Ind, KernelStep
  PROVE  MadeInv'
<1>0. MmTypeOK /\ MadeInv /\ walk' = walk /\ None \notin Mm
  BY KernelFrame, MmAssumption DEF Ind, MmInv
<1>1. ASSUME NEW t \in Task, NEW u \in Task, NEW m \in Mm \cup {None}, Fork(t, u, m)
      PROVE  MadeInv'
  <2>1. /\ tmm' = [tmm EXCEPT ![u] = m] /\ task' = [task EXCEPT ![u] = "listed"]
        /\ made' = made \cup ({m} \ {None})
        /\ used' = IF m = None THEN used ELSE used \cup {<<u, m>>}
        /\ users' = IF m = None THEN users ELSE [users EXCEPT ![m] = @ + 1]
    BY <1>1 DEF Fork
  <2>2. \A x \in Task : /\ tmm'[x] # None => x \in Listed' /\ <<x, tmm'[x]>> \in used'
                        /\ tmm'[x] \in made' \cup {None}
    BY <1>0, <2>1 DEF MadeInv, MmTypeOK, Listed
  <2>3. \A k \in Mm \ made' : users'[k] = 0
    BY <1>0, <2>1 DEF MadeInv, MmTypeOK
  <2>4. \A c \in Caller : walk'[c].mm \in made' \cup {None}
    BY <1>0, <2>1 DEF MadeInv
  <2> QED  BY <2>2, <2>3, <2>4 DEF MadeInv
<1>2. ASSUME NEW t \in Task, NEW m \in Mm, Exec(t, m)
      PROVE  MadeInv'
  <2>1. /\ tmm' = [tmm EXCEPT ![t] = m] /\ task' = task /\ task[t] = "listed"
        /\ made' = made \cup {m} /\ used' = used \cup {<<t, m>>}
        /\ users' = [users EXCEPT ![m] = 1, ![tmm[t]] = @ - 1]
        /\ tmm[t] # None
    BY <1>2 DEF Exec, CanExit
  <2>2. \A x \in Task : /\ tmm'[x] # None => x \in Listed' /\ <<x, tmm'[x]>> \in used'
                        /\ tmm'[x] \in made' \cup {None}
    BY <1>0, <2>1 DEF MadeInv, MmTypeOK, Listed
  <2>3. \A k \in Mm \ made' : users'[k] = 0
    <3>1. tmm[t] \in made
      BY <1>0, <2>1 DEF MadeInv
    <3> QED  BY <1>0, <2>1, <3>1 DEF MadeInv, MmTypeOK
  <2>4. \A c \in Caller : walk'[c].mm \in made' \cup {None}
    BY <1>0, <2>1 DEF MadeInv
  <2> QED  BY <2>2, <2>3, <2>4 DEF MadeInv
<1>3. ASSUME NEW t \in Task, ExitMm(t)
      PROVE  MadeInv'
  <2>1. /\ tmm' = [tmm EXCEPT ![t] = None] /\ UNCHANGED <<task, made, used>>
        /\ users' = [users EXCEPT ![tmm[t]] = @ - 1]
        /\ tmm[t] # None
    BY <1>3 DEF ExitMm, Put
  <2>2. \A x \in Task : /\ tmm'[x] # None => x \in Listed' /\ <<x, tmm'[x]>> \in used'
                        /\ tmm'[x] \in made' \cup {None}
    BY <1>0, <2>1 DEF MadeInv, MmTypeOK, Listed
  <2>3. \A k \in Mm \ made' : users'[k] = 0
    <3>1. tmm[t] \in made
      BY <1>0, <2>1 DEF MadeInv
    <3> QED  BY <1>0, <2>1, <3>1 DEF MadeInv, MmTypeOK
  <2>4. \A c \in Caller : walk'[c].mm \in made' \cup {None}
    BY <1>0, <2>1 DEF MadeInv
  <2> QED  BY <2>2, <2>3, <2>4 DEF MadeInv
<1>4. ASSUME NEW t \in Task, Unlink(t) \/ FreeTask(t)
      PROVE  MadeInv'
  <2>1. /\ UNCHANGED <<tmm, made, used, users>>
        /\ \A x \in Task \ {t} : task'[x] = task[x]
    BY <1>0, <1>4 DEF Unlink, FreeTask, MmTypeOK
  <2>2. tmm[t] = None
    BY <1>0, <1>4 DEF Unlink, CanExit, FreeTask, MadeInv, Listed
  <2>3. \A x \in Task : tmm[x] # None => x \in Listed'
    BY <1>0, <2>1, <2>2 DEF MadeInv, Listed
  <2> QED  BY <1>0, <2>1, <2>3 DEF MadeInv
<1> QED  BY <1>1, <1>2, <1>3, <1>4 DEF KernelStep

\* What a call holds of p, p has had.
LEMMA WalkOfCaller ==
  ASSUME Ind, NEW c \in Caller, CallerStep(c)
  PROVE  WalkInv'
<1>1. UNCHANGED <<next, task, tmm, made, torn, used>>
  BY CallerFrame
<1>2. Listed' = Listed /\ Born' = Born
  BY <1>1 DEF Listed, Born
<1>3. \A d \in Caller \ {c} : walk'[d] = walk[d]
  BY StartFacts, TestFacts, TakeFacts, RaiseFacts, WalkBeginFacts, WalkEndFacts, DropFacts
     DEF CallerStep, Ind, MmInv
<1>4. \A t \in Task : tmm[t] # None => <<t, tmm[t]>> \in used
  BY DEF Ind, MmInv, MadeInv
<1>5. Walking(c) /\ walk[c].pc # "test" => <<walk[c].p, walk[c].mm>> \in used
  BY DEF Ind, MmInv, WalkInv
<1>6. None \notin Mm /\ Born \subseteq Task
  BY MmAssumption DEF Born
<1>7. Walking(c)' =>
        /\ c \in Listed /\ walk'[c].p \in Born /\ walk'[c].n \in Born
        /\ walk'[c].pc # "test" => <<walk'[c].p, walk'[c].mm>> \in used
        /\ walk'[c].pc = "walk" => <<walk'[c].p, walk'[c].target>> \in used
  <2>1. CASE Start(c)
    BY <2>1, StartFacts DEF Ind, MmInv
  <2>2. CASE Test(c)
    BY <1>4, <1>6, <2>2, TestFacts DEF Ind, MmInv, Walking
  <2>3. CASE Take(c)
    BY <1>4, <1>5, <1>6, <2>3, TakeFacts DEF Ind, MmInv, Walking
  <2>4. CASE Raise(c)
    BY <1>5, <2>4, RaiseFacts DEF Ind, MmInv, Walking
  <2>5. CASE WalkBegin(c)
    BY <1>4, <1>5, <1>6, <2>5, WalkBeginFacts DEF Ind, MmInv, Walking
  <2>6. CASE WalkEnd(c)
    BY <1>5, <2>6, WalkEndFacts DEF Ind, MmInv, Walking
  <2>7. CASE Drop(c)
    BY <2>7, DropFacts DEF Ind, MmInv, Walking
  <2> QED  BY <2>1, <2>2, <2>3, <2>4, <2>5, <2>6, <2>7 DEF CallerStep
<1>8. ASSUME NEW d \in Caller \ {c}, Walking(d)'
      PROVE  /\ d \in Listed /\ walk'[d].p \in Born /\ walk'[d].n \in Born
             /\ walk'[d].pc # "test" => <<walk'[d].p, walk'[d].mm>> \in used
             /\ walk'[d].pc = "walk" => <<walk'[d].p, walk'[d].target>> \in used
  <2>1. Walking(d) /\ walk'[d] = walk[d]
    BY <1>3, <1>8 DEF Walking
  <2> QED  BY <2>1 DEF Ind, MmInv, WalkInv
<1> QED  BY <1>1, <1>2, <1>7, <1>8 DEF WalkInv

\* A task that is in a call neither leaves the list nor takes one that is on it
\* back.
LEMMA WalkOfKernel ==
  ASSUME Ind, KernelStep
  PROVE  WalkInv'
<1>1. walk' = walk
  BY KernelFrame
<1>2. MmTypeOK
  BY DEF Ind, MmInv
<1>3. Born \subseteq Born' /\ used \subseteq used'
  BY <1>2 DEF KernelStep, Fork, Exec, ExitMm, Unlink, FreeTask, MmTypeOK, Born
<1>4. ASSUME NEW c \in Caller, Walking(c), c \in Listed PROVE c \in Listed'
  <2>1. c \notin Resting
    BY <1>4 DEF Walking, Resting
  <2> QED  BY <1>2, <1>4, <2>1 DEF KernelStep, Fork, Exec, ExitMm, Unlink, FreeTask,
                                   CanExit, MmTypeOK, Listed
<1> QED  BY <1>1, <1>3, <1>4 DEF WalkInv, Walking, Ind, MmInv

\* Only Start lets a call begin, and it looks whether there is another.
LEMMA AloneOfCaller ==
  ASSUME Ind, NEW c \in Caller, CallerStep(c)
  PROVE  AloneInv'
<1>1. \A d \in Caller \ {c} : walk'[d] = walk[d]
  BY StartFacts, TestFacts, TakeFacts, RaiseFacts, WalkBeginFacts, WalkEndFacts, DropFacts
     DEF CallerStep, Ind, MmInv
<1>2. CASE Start(c)
  <2>1. /\ walk[c].pc = "idle" /\ walk'[c].pc = "test"
        /\ alone' = (alone /\ \A d \in Caller : walk[d].pc = "idle")
    BY <1>2, StartFacts DEF Start, Ind, MmInv
  <2> QED  BY <1>1, <2>1 DEF AloneInv
<1>3. CASE ~Start(c)
  <2>1. alone' = alone
    BY <1>3 DEF CallerStep, Test, Take, Raise, WalkBegin, WalkEnd, Drop
  <2>2. walk[c].pc # "idle"
    BY <1>3 DEF CallerStep, Test, Take, Raise, WalkBegin, WalkEnd, Drop
  <2>3. walk'[c].pc \in {"lock", "walk"} => now_task' = walk'[c].p \/ ~alone
    <3>1. CASE Test(c) \/ Take(c) \/ Drop(c)
      BY <3>1, TestFacts, TakeFacts, DropFacts DEF Ind, MmInv
    <3>2. CASE Raise(c)
      BY <3>2, RaiseFacts DEF Raise, Ind, MmInv
    <3>3. CASE WalkBegin(c)
      <4>1. /\ now_task' = now_task /\ walk[c].pc = "lock"
            /\ walk'[c].pc = "walk" => walk'[c].p = walk[c].p
            /\ walk'[c].pc \in {"lost", "walk"}
        BY <3>3, WalkBeginFacts DEF WalkBegin, Ind, MmInv
      <4> QED  BY <4>1 DEF AloneInv, Ind, MmInv
    <3>4. CASE WalkEnd(c)
      BY <3>4, WalkEndFacts DEF Ind, MmInv
    <3> QED  BY <1>3, <3>1, <3>2, <3>3, <3>4 DEF CallerStep
  <2>4. alone => \A d \in Caller \ {c} : walk'[d].pc = "idle"
    BY <1>1, <2>2 DEF AloneInv, Ind, MmInv
  <2>5. SUFFICES ASSUME alone'
                 PROVE  /\ \A d, e \in Caller :
                             walk'[d].pc # "idle" /\ walk'[e].pc # "idle" => d = e
                        /\ \A d \in Caller :
                             walk'[d].pc \in {"lock", "walk"} => now_task' = walk'[d].p
    BY DEF AloneInv
  <2> QED  BY <2>1, <2>3, <2>4, <2>5
<1> QED  BY <1>2, <1>3

\* A count is above one as long as a call and a task have a share in it.
LEMMA StaysOfCaller ==
  ASSUME Ind, NEW c \in Caller, CallerStep(c)
  PROVE  CountedStays'
<1>1. torn' = torn
  BY CallerFrame
<1>2. \A d \in Caller \ {c} : walk'[d] = walk[d]
  BY StartFacts, TestFacts, TakeFacts, RaiseFacts, WalkBeginFacts, WalkEndFacts, DropFacts
     DEF CallerStep, Ind, MmInv
<1>3. walk'[c].pc \in {"lock", "walk", "drop"} /\ walk'[c].safe => walk'[c].mm \notin torn
  <2>1. CASE Start(c) \/ Test(c) \/ Take(c) \/ Drop(c)
    BY <2>1, StartFacts, TestFacts, TakeFacts, DropFacts DEF Ind, MmInv
  <2>2. CASE Raise(c)
    BY <2>2, RaiseFacts DEF Ind, MmInv
  <2>3. CASE WalkBegin(c) \/ WalkEnd(c)
    <3>1. /\ walk[c].pc \in {"lock", "walk"}
          /\ \/ walk'[c].pc = "lost"
             \/ walk'[c].mm = walk[c].mm /\ walk'[c].safe = walk[c].safe
      BY <2>3, WalkBeginFacts, WalkEndFacts DEF Ind, MmInv
    <3> QED  BY <3>1 DEF Ind, CountedStays
  <2> QED  BY <2>1, <2>2, <2>3 DEF CallerStep
<1> QED  BY <1>1, <1>2, <1>3 DEF CountedStays, Ind

LEMMA StaysOfKernel ==
  ASSUME Ind, KernelStep
  PROVE  CountedStays'
<1>1. walk' = walk
  BY KernelFrame
<1>2. ASSUME NEW m \in torn' \ torn
      PROVE  \A c \in Caller : walk[c].pc \in {"lock", "walk", "drop"} => walk[c].mm # m
  <2>1. PICK t \in Task : tmm[t] = m /\ tmm[t] # None /\ users[m] = 1
    BY <1>2 DEF KernelStep, Fork, Exec, ExitMm, Put, Unlink, FreeTask
  <2>2. Count(m) \in Nat /\ Count(m) >= 1 /\ m \in Mm
    <3>1. t \in {u \in Task : tmm[u] = m} /\ IsFiniteSet({u \in Task : tmm[u] = m})
      BY <2>1, TasksFinite, FS_Subset
    <3>2. Count(m) \in Nat /\ Count(m) # 0
      BY <3>1, FS_CardinalityType, FS_EmptySet DEF Count
    <3> QED  BY <2>1, <3>2 DEF Ind, MmInv, MmTypeOK
  <2>3. ASSUME NEW c \in Caller, walk[c].pc \in {"lock", "walk", "drop"}, walk[c].mm = m
        PROVE  FALSE
    <3>1. users[m] \in Nat /\ users[m] >= Count(m) + 1
      BY <2>2, <2>3, CallIsUser DEF Ind, MmInv
    <3> QED  BY <2>1, <2>2, <3>1
  <2> QED  BY <2>3
<1> QED  BY <1>1, <1>2 DEF CountedStays, Ind

\* now_task was p of the call that prints, and p has had what it prints.
LEMMA ReportOfCaller ==
  ASSUME Ind, NEW c \in Caller, CallerStep(c)
  PROVE  ReportTrue'
<1>1. used' = used
  BY CallerFrame
<1>2. alone' => alone
  BY DEF CallerStep, Start, Test, Take, Raise, WalkBegin, WalkEnd, Drop
<1>3. CASE WalkEnd(c)
  <2>1. \/ report' = report \/ report' = None
        \/ report' = <<now_task, walk[c].target>>
    BY <1>3, WalkEndFacts DEF Ind, MmInv
  <2>2. walk[c].pc = "walk"
    BY <1>3 DEF WalkEnd
  <2>3. <<walk[c].p, walk[c].target>> \in used
    BY <2>2 DEF Ind, MmInv, WalkInv, Walking
  <2>4. alone => now_task = walk[c].p
    BY <2>2 DEF Ind, MmInv, AloneInv
  <2> QED  BY <1>1, <1>2, <2>1, <2>3, <2>4 DEF ReportTrue, Ind
<1>4. CASE ~WalkEnd(c)
  <2>1. report' = report \/ report' = None
    BY <1>4 DEF CallerStep, Start, Test, Take, Raise, WalkBegin, Drop
  <2> QED  BY <1>1, <1>2, <2>1 DEF ReportTrue, Ind
<1> QED  BY <1>3, <1>4

LEMMA AloneAndReportOfKernel ==
  ASSUME Ind, KernelStep
  PROVE  AloneInv' /\ ReportTrue'
<1>1. UNCHANGED <<walk, now_task, report, alone>>
  BY KernelFrame
<1>2. used \subseteq used'
  BY DEF KernelStep, Fork, Exec, ExitMm, Unlink, FreeTask
<1> QED  BY <1>1, <1>2 DEF AloneInv, ReportTrue, Ind, MmInv

-----------------------------------------------------------------------------
(* The order of the list.                                                   *)

\* What is met from x on, after x, is met from the successor of x on.
LEMMA MeetsOnward ==
  ASSUME NEW rank \in [Born -> Nat], Ordered(rank), NEW c \in Born, NEW x \in Born,
         NEW D \in SUBSET Born, Meets(rank, c, x, D),
         \A t \in D \cup {c} : ~Between(rank[x], rank[t], rank[next[x]])
  PROVE  Meets(rank, c, next[x], D \ {x})
<1>1. next[x] \in Born
  BY DEF Ordered
<1>2. CASE x = c
  BY <1>2 DEF Meets
<1>3. CASE x # c
  <2>1. ASSUME NEW t \in D \ {x}
        PROVE  t = next[x] \/ Between(rank[next[x]], rank[t], rank[c])
    <3>1. Between(rank[x], rank[t], rank[c])
      BY <1>3 DEF Meets
    <3>2. t # next[x] => rank[t] # rank[next[x]]
      BY <1>1 DEF Ordered
    <3> QED  BY <1>1, <3>1, <3>2, BetweenFacts
  <2>2. ASSUME NEW t \in D \ {x} PROVE next[x] # c
    <3>1. Between(rank[x], rank[t], rank[c])
      BY <1>3 DEF Meets
    <3> QED  BY <3>1
  <2> QED  BY <2>1, <2>2 DEF Meets
<1> QED  BY <1>2, <1>3

\* A call begins: all that is due lies on the way round to the caller.
LEMMA AheadAtStart ==
  ASSUME NEW rank \in [Born -> Nat], Ordered(rank), MmTypeOK, OrderInv, MadeInv,
         NEW c \in Caller, Start(c)
  PROVE  Ahead(c, rank)'
<1>1. /\ c \in Listed /\ c \in Born
      /\ walk'[c].p = next[c] /\ walk'[c].n = next[next[c]]
      /\ next[c] \in Born /\ next[next[c]] \in Born
  BY StartFacts
<1>2. PICK D : D = {t \in Task \ {c} : tmm[t] # None}
  OBVIOUS
<1>3. due'[c] = D /\ UNCHANGED <<next, task, tmm>>
  BY <1>2 DEF Start, kernelVars, MmTypeOK
<1>4. D \subseteq Listed /\ Listed \subseteq Born /\ c \notin D
  BY <1>2 DEF MadeInv, Listed, Born
<1>5. ASSUME NEW x \in Listed, NEW t \in D \cup {c}
      PROVE  ~Between(rank[x], rank[t], rank[next[x]])
  BY <1>1, <1>4 DEF Ordered
<1>6. Meets(rank, c, next[c], D)
  <2>1. ASSUME NEW t \in D, t # next[c]
        PROVE  next[c] # c /\ Between(rank[next[c]], rank[t], rank[c])
    <3>1. ~Between(rank[c], rank[t], rank[next[c]])
      BY <1>1, <1>5
    <3>2. rank[t] # rank[c] /\ rank[t] # rank[next[c]]
      BY <1>1, <1>4, <2>1 DEF Ordered
    <3>3. next[c] # c
      BY <1>1, <1>4, <3>1, <3>2 DEF Between
    <3>4. rank[next[c]] # rank[c]
      BY <1>1, <3>3 DEF Ordered
    <3> QED  BY <1>1, <1>4, <3>1, <3>2, <3>3, <3>4, BetweenFacts
  <2> QED  BY <1>4, <2>1 DEF Meets
<1>7. Meets(rank, c, next[next[c]], D \ {next[c]})
  <2>1. next[c] \in Listed
    BY <1>1 DEF Ordered
  <2> QED  BY <1>1, <1>4, <1>5, <1>6, <2>1, MeetsOnward
<1>8. /\ Listed \cup {next[next[c]]} \subseteq Listed
      /\ \A x \in Listed : /\ next[x] \in Listed
                           /\ \A t \in D \cup {c} : ~Between(rank[x], rank[t], rank[next[x]])
  BY <1>1, <1>5 DEF Ordered
<1>9. /\ \A t \in due'[c] : tmm'[t] # None
      /\ Meets(rank, c, walk'[c].p, due'[c])
      /\ Meets(rank, c, walk'[c].n, due'[c] \ {walk'[c].p})
  BY <1>1, <1>2, <1>3, <1>6, <1>7
<1>10. Listed' = Listed /\ Born' = Born
  BY <1>3 DEF Listed, Born
<1>11. \E R \in SUBSET Born' :
         /\ Listed' \cup {walk'[c].n} \subseteq R
         /\ \A x \in R : /\ next'[x] \in R
                         /\ \A t \in due'[c] \cup {c} :
                              ~Between(rank[x], rank[t], rank[next'[x]])
  BY <1>1, <1>3, <1>4, <1>8, <1>10
<1> QED  BY <1>9, <1>11 DEF Ahead, Meets

\* The next element.
LEMMA AheadOnward ==
  ASSUME NEW rank \in [Born -> Nat], Ordered(rank), NEW c \in Caller, c \in Born,
         walk[c].p \in Born, Ahead(c, rank), MmTypeOK, MadeInv,
         UNCHANGED <<next, task, tmm>>,
         walk'[c].p = walk[c].n, walk'[c].n = next[walk[c].n],
         due'[c] = due[c] \ {walk[c].p}
  PROVE  Ahead(c, rank)'
<1>1. PICK p, n, D : p = walk[c].p /\ n = walk[c].n /\ D = due[c] \ {p}
  OBVIOUS
<1>2. PICK R \in SUBSET Born :
        /\ Listed \cup {n} \subseteq R
        /\ \A x \in R : /\ next[x] \in R
                        /\ \A t \in due[c] \cup {c} : ~Between(rank[x], rank[t], rank[next[x]])
  BY <1>1 DEF Ahead
<1>3. Meets(rank, c, n, D)
  BY <1>1 DEF Ahead
<1>4. D \subseteq Born
  BY <1>1 DEF Ahead, MmTypeOK, MadeInv, Listed, Born
<1>5. Meets(rank, c, next[n], D \ {n})
  BY <1>1, <1>2, <1>3, <1>4, MeetsOnward
<1>6. Listed' = Listed /\ Born' = Born
  BY DEF Listed, Born
<1>7. \E S \in SUBSET Born' :
        /\ Listed' \cup {walk'[c].n} \subseteq S
        /\ \A x \in S : /\ next'[x] \in S
                        /\ \A t \in due'[c] \cup {c} :
                             ~Between(rank[x], rank[t], rank[next'[x]])
  BY <1>1, <1>2, <1>6
<1>8. /\ \A t \in due'[c] : tmm'[t] # None
      /\ Meets(rank, c, walk'[c].p, due'[c])
      /\ Meets(rank, c, walk'[c].n, due'[c] \ {walk'[c].p})
  BY <1>1, <1>3, <1>5 DEF Ahead
<1> QED  BY <1>7, <1>8 DEF Ahead, Meets

\* A step that keeps a call's place and the list's order.
LEMMA AheadKept ==
  ASSUME NEW rank, NEW c \in Caller, Ahead(c, rank),
         UNCHANGED next, Born' = Born, Listed' \subseteq Listed,
         walk'[c].p = walk[c].p, walk'[c].n = walk[c].n, due'[c] \subseteq due[c],
         \A t \in due'[c] : tmm'[t] # None
  PROVE  Ahead(c, rank)'
<1>1. /\ Meets(rank, c, walk'[c].p, due'[c])
      /\ Meets(rank, c, walk'[c].n, due'[c] \ {walk'[c].p})
  BY DEF Ahead, Meets
<1>2. \E R \in SUBSET Born' :
        /\ Listed' \cup {walk'[c].n} \subseteq R
        /\ \A x \in R : /\ next'[x] \in R
                        /\ \A t \in due'[c] \cup {c} :
                             ~Between(rank[x], rank[t], rank[next'[x]])
  BY DEF Ahead
<1> QED  BY <1>1, <1>2 DEF Ahead, Meets

LEMMA OrderOfCaller ==
  ASSUME Ind, NEW c \in Caller, CallerStep(c)
  PROVE  OrderInv' /\ AllSeen'
<1>0. /\ MmTypeOK /\ OrderInv /\ MadeInv /\ WalkInv
      /\ UNCHANGED <<next, task, tmm>> /\ Listed' = Listed /\ Born' = Born
  BY CallerFrame DEF Ind, MmInv, Listed, Born
<1>1. PICK rank \in [Born -> 0 .. Cardinality(Born) - 1] :
        Ordered(rank) /\ \A d \in Caller : Walking(d) => Ahead(d, rank)
  BY <1>0 DEF OrderInv
<1>2. rank \in [Born -> Nat]
  OBVIOUS
<1>3. \A d \in Caller \ {c} : walk'[d] = walk[d]
  BY <1>0, StartFacts, TestFacts, TakeFacts, RaiseFacts, WalkBeginFacts, WalkEndFacts, DropFacts
     DEF CallerStep
<1>4. \A d \in Caller \ {c} : due'[d] = due[d]
  BY <1>0 DEF CallerStep, Start, Test, Take, Raise, WalkBegin, WalkEnd, Drop, Advance, MmTypeOK
<1>5. ASSUME NEW d \in Caller \ {c}, Walking(d)' PROVE Ahead(d, rank)'
  <2>1. Walking(d) /\ Ahead(d, rank)
    BY <1>1, <1>3, <1>5 DEF Walking
  <2> QED  BY <1>0, <1>3, <1>4, <2>1, AheadKept DEF Ahead
<1>6. CASE Start(c)
  <2>1. Ahead(c, rank)' /\ walk'[c].pc = "test"
    BY <1>0, <1>1, <1>2, <1>6, AheadAtStart, StartFacts
  <2> QED  BY <1>0, <1>1, <1>3, <1>4, <1>5, <2>1 DEF OrderInv, Ordered, AllSeen, Ind
<1>7. CASE ~Start(c)
  <2>1. Walking(c) /\ Ahead(c, rank) /\ c \in Born /\ walk[c].p \in Born
    <3>1. Walking(c)
      BY <1>7 DEF CallerStep, Test, Take, Raise, WalkBegin, WalkEnd, Drop, Walking
    <3> QED  BY <1>0, <1>1, <3>1 DEF WalkInv, Listed, Born
  <2>2. \/ walk'[c].pc = "lost"
        \/ walk'[c].pc = "idle" /\ walk[c].p = c /\ due'[c] = due[c]
        \/ /\ walk'[c].p = walk[c].p /\ walk'[c].n = walk[c].n /\ due'[c] = due[c]
           /\ walk'[c].pc # "idle"
        \/ /\ walk'[c].p = walk[c].n /\ walk'[c].n = next[walk[c].n]
           /\ due'[c] = due[c] \ {walk[c].p} /\ walk'[c].pc # "idle"
    <3>1. due \in [Caller -> SUBSET Task]
      BY <1>0 DEF MmTypeOK
    <3>2. CASE Test(c)
      BY <1>0, <3>1, <3>2, TestFacts
    <3>3. CASE Drop(c)
      BY <1>0, <3>1, <3>3, DropFacts
    <3>4. CASE Take(c)
      BY <1>0, <3>4, TakeFacts DEF Take
    <3>5. CASE Raise(c)
      BY <1>0, <3>5, RaiseFacts DEF Raise
    <3>6. CASE WalkBegin(c)
      BY <1>0, <3>6, WalkBeginFacts DEF WalkBegin
    <3>7. CASE WalkEnd(c)
      BY <1>0, <3>7, WalkEndFacts DEF WalkEnd
    <3> QED  BY <1>7, <3>2, <3>3, <3>4, <3>5, <3>6, <3>7 DEF CallerStep
  <2>3. Walking(c)' => Ahead(c, rank)'
    <3>1. CASE walk'[c].p = walk[c].p /\ walk'[c].n = walk[c].n /\ due'[c] = due[c]
      BY <1>0, <2>1, <3>1, AheadKept DEF Ahead
    <3>2. CASE /\ walk'[c].p = walk[c].n /\ walk'[c].n = next[walk[c].n]
               /\ due'[c] = due[c] \ {walk[c].p}
      BY <1>0, <1>1, <1>2, <2>1, <3>2, AheadOnward
    <3> QED  BY <2>2, <3>1, <3>2 DEF Walking
  <2>4. walk'[c].pc = "idle" => due'[c] = {}
    BY <2>1, <2>2 DEF Ahead, Meets
  <2> QED  BY <1>0, <1>1, <1>3, <1>4, <1>5, <2>3, <2>4 DEF OrderInv, Ordered, AllSeen, Ind
<1> QED  BY <1>6, <1>7

\* A task's address space changes, or an unlinked task is freed: the list stays.
LEMMA OrderOfRest ==
  ASSUME Ind, NEW t \in Task, (\E m \in Mm : Exec(t, m)) \/ ExitMm(t) \/ FreeTask(t)
  PROVE  OrderInv'
<1>0. MmTypeOK
  BY DEF Ind, MmInv
<1>1. PICK rank \in [Born -> 0 .. Cardinality(Born) - 1] :
        Ordered(rank) /\ \A c \in Caller : Walking(c) => Ahead(c, rank)
  BY DEF Ind, MmInv, OrderInv
<1>2. next' = next /\ walk' = walk
  BY DEF Exec, ExitMm, FreeTask
<1>3. Born' = Born /\ Listed' = Listed
  <2>1. CASE task' = task
    BY <2>1 DEF Born, Listed
  <2>2. CASE FreeTask(t)
    BY <1>0, <2>2 DEF FreeTask, MmTypeOK, Born, Listed
  <2> QED  BY <2>1, <2>2 DEF Exec, ExitMm
<1>4. \A c \in Caller :
        /\ due'[c] \subseteq due[c]
        /\ \A x \in due'[c] : tmm[x] # None => tmm'[x] # None
  <2>1. CASE \E m \in Mm : Exec(t, m)
    <3>1. PICK m \in Mm : Exec(t, m)
      BY <2>1
    <3>2. due' = due /\ \A x \in Task : tmm'[x] = IF x = t THEN m ELSE tmm[x]
      BY <1>0, <3>1 DEF Exec, MmTypeOK
    <3> QED  BY <1>0, <3>2, MmAssumption DEF MmTypeOK
  <2>2. CASE ExitMm(t)
    <3>1. /\ \A c \in Caller : due'[c] = due[c] \ {t}
          /\ \A x \in Task \ {t} : tmm'[x] = tmm[x]
      BY <1>0, <2>2 DEF ExitMm, MmTypeOK
    <3> QED  BY <1>0, <3>1 DEF MmTypeOK
  <2>3. CASE FreeTask(t)
    BY <2>3 DEF FreeTask
  <2> QED  BY <2>1, <2>2, <2>3
<1>5. ASSUME NEW c \in Caller, Walking(c)' PROVE Ahead(c, rank)'
  <2>1. Ahead(c, rank)
    BY <1>1, <1>2, <1>5 DEF Walking
  <2>2. \A x \in due'[c] : tmm'[x] # None
    BY <1>4, <2>1 DEF Ahead
  <2> QED  BY <1>2, <1>3, <1>4, <2>1, <2>2, AheadKept
<1>6. Ordered(rank)'
  BY <1>1, <1>2, <1>3 DEF Ordered
<1> QED  BY <1>1, <1>3, <1>5, <1>6 DEF OrderInv

\* A task leaves the list: the one before it now points past it.
LEMMA OrderOfUnlink ==
  ASSUME Ind, NEW t \in Task, Unlink(t)
  PROVE  OrderInv'
<1>0. MmTypeOK /\ MadeInv /\ WalkInv
  BY DEF Ind, MmInv
<1>1. PICK rank \in [Born -> 0 .. Cardinality(Born) - 1] :
        Ordered(rank) /\ \A c \in Caller : Walking(c) => Ahead(c, rank)
  BY DEF Ind, MmInv, OrderInv
<1>2. rank \in [Born -> Nat] /\ Listed \subseteq Born
  BY DEF Listed, Born
<1>3. /\ UNCHANGED <<tmm, walk, due>> /\ t # Swapper /\ tmm[t] = None
      /\ t \in Listed /\ \A c \in Caller : Walking(c) => c # t
  BY DEF Unlink, CanExit, Listed, Walking, Resting
<1>4. Born' = Born /\ Listed' = Listed \ {t}
  BY <1>0 DEF Unlink, CanExit, MmTypeOK, Born, Listed
<1>5. \A x \in Born : next'[x] = IF x \in Listed /\ next[x] = t THEN next[t] ELSE next[x]
  BY DEF Unlink, Born, Listed
<1>6. /\ Swapper \in Listed /\ rank[Swapper] = 0
      /\ \A x, y \in Born : rank[x] = rank[y] => x = y
      /\ \A x \in Born : next[x] \in Born /\ (next[x] = Swapper \/ rank[x] < rank[next[x]])
      /\ \A x \in Listed : next[x] \in Listed
      /\ \A x, y \in Listed : ~Between(rank[x], rank[y], rank[next[x]])
  BY <1>1 DEF Ordered
<1>7. next[t] \in Listed /\ next[t] # t
  BY <1>2, <1>3, <1>6
\* The two stretches about t make one, for every task but t.
<1>8. ASSUME NEW x \in Born, next[x] = t, NEW y \in Born \ {t},
             ~Between(rank[x], rank[y], rank[t]), ~Between(rank[t], rank[y], rank[next[t]])
      PROVE  ~Between(rank[x], rank[y], rank[next[t]])
  <2>1. rank[x] < rank[t] /\ (rank[next[t]] = 0 \/ rank[t] < rank[next[t]])
    BY <1>2, <1>3, <1>6, <1>8
  <2>2. rank[y] # rank[t]
    BY <1>2, <1>3, <1>6
  <2>3. rank[x] \in Nat /\ rank[y] \in Nat /\ rank[t] \in Nat /\ rank[next[t]] \in Nat
    BY <1>2, <1>3, <1>7
  <2> QED  BY <1>8, <2>1, <2>2, <2>3, BetweenFacts
<1>9. Ordered(rank)'
  <2>1. Swapper \in Listed'
    BY <1>3, <1>4, <1>6
  <2>2. ASSUME NEW x \in Born
        PROVE  next'[x] \in Born /\ (next'[x] = Swapper \/ rank[x] < rank[next'[x]])
    <3>1. CASE x \in Listed /\ next[x] = t
      <4>1. rank[x] < rank[t] /\ (next[t] = Swapper \/ rank[t] < rank[next[t]])
        BY <1>2, <1>3, <1>6, <3>1
      <4>2. rank[x] \in Nat /\ rank[t] \in Nat /\ rank[next[t]] \in Nat
        BY <1>2, <1>3, <1>7
      <4> QED  BY <1>2, <1>5, <1>7, <3>1, <4>1, <4>2
    <3>2. CASE ~(x \in Listed /\ next[x] = t)
      BY <1>5, <1>6, <3>2
    <3> QED  BY <3>1, <3>2
  <2>3. \A x \in Listed' : next'[x] \in Listed'
    BY <1>2, <1>4, <1>5, <1>6, <1>7
  <2>4. ASSUME NEW x \in Listed \ {t}, NEW y \in Listed \ {t}
        PROVE  ~Between(rank[x], rank[y], rank[next'[x]])
    <3>1. /\ ~Between(rank[x], rank[y], rank[next[x]])
          /\ ~Between(rank[t], rank[y], rank[next[t]])
      BY <1>3, <1>6
    <3> QED  BY <1>2, <1>5, <1>8, <3>1
  <2> QED  BY <1>4, <1>6, <2>1, <2>2, <2>3, <2>4 DEF Ordered
<1>10. ASSUME NEW c \in Caller, Walking(c)' PROVE Ahead(c, rank)'
  <2>1. Walking(c) /\ Ahead(c, rank)
    BY <1>1, <1>3, <1>10 DEF Walking
  <2>2. PICK R \in SUBSET Born :
          /\ Listed \cup {walk[c].n} \subseteq R
          /\ \A x \in R : /\ next[x] \in R
                          /\ \A y \in due[c] \cup {c} :
                               ~Between(rank[x], rank[y], rank[next[x]])
    BY <2>1 DEF Ahead
  <2>3. due[c] \cup {c} \subseteq Born \ {t}
    <3>1. c \in Born \ {t}
      BY <1>0, <1>2, <1>3, <2>1 DEF WalkInv
    <3>2. \A y \in due[c] : tmm[y] # None /\ y \in Task
      BY <1>0, <2>1 DEF Ahead, MmTypeOK
    <3> QED  BY <1>0, <1>2, <1>3, <3>1, <3>2 DEF MadeInv
  <2>4. ASSUME NEW x \in R
        PROVE  /\ next'[x] \in R
               /\ \A y \in due[c] \cup {c} : ~Between(rank[x], rank[y], rank[next'[x]])
    <3>1. CASE x \in Listed /\ next[x] = t
      <4>1. next'[x] = next[t] /\ x \in Born
        BY <1>2, <1>5, <3>1
      <4>2. t \in R /\ next[t] \in R
        BY <2>2, <3>1
      <4>3. ASSUME NEW y \in due[c] \cup {c}
            PROVE  ~Between(rank[x], rank[y], rank[next[t]])
        <5>1. y \in Born \ {t}
          BY <2>3
        <5>2. /\ ~Between(rank[x], rank[y], rank[t])
              /\ ~Between(rank[t], rank[y], rank[next[t]])
          BY <2>2, <3>1, <4>2
        <5> QED  BY <1>8, <3>1, <4>1, <5>1, <5>2
      <4> QED  BY <4>1, <4>2, <4>3
    <3>2. CASE ~(x \in Listed /\ next[x] = t)
      BY <1>5, <2>2, <3>2
    <3> QED  BY <3>1, <3>2
  <2>5. /\ R \in SUBSET Born' /\ Listed' \cup {walk'[c].n} \subseteq R
        /\ \A x \in R : /\ next'[x] \in R
                        /\ \A y \in due'[c] \cup {c} :
                             ~Between(rank[x], rank[y], rank[next'[x]])
    BY <1>3, <1>4, <2>2, <2>4
  <2>6. /\ \A y \in due'[c] : tmm'[y] # None
        /\ Meets(rank, c, walk'[c].p, due'[c])
        /\ Meets(rank, c, walk'[c].n, due'[c] \ {walk'[c].p})
    BY <1>3, <2>1 DEF Ahead
  <2> QED  BY <2>5, <2>6 DEF Ahead, Meets
<1> QED  BY <1>1, <1>4, <1>9, <1>10 DEF OrderInv

\* A task is born: it gets the next number and goes between the last and Swapper.
LEMMA OrderOfFork ==
  ASSUME Ind, NEW t \in Task, NEW u \in Task, NEW m \in Mm \cup {None}, Fork(t, u, m)
  PROVE  OrderInv'
<1>0. MmTypeOK /\ MadeInv /\ WalkInv
  BY DEF Ind, MmInv
<1>1. PICK rank \in [Born -> 0 .. Cardinality(Born) - 1] :
        Ordered(rank) /\ \A c \in Caller : Walking(c) => Ahead(c, rank)
  BY DEF Ind, MmInv, OrderInv
<1>2. /\ Swapper \in Listed /\ rank[Swapper] = 0
      /\ \A x, y \in Born : rank[x] = rank[y] => x = y
      /\ \A x \in Born : next[x] \in Born /\ (next[x] = Swapper \/ rank[x] < rank[next[x]])
      /\ \A x \in Listed : next[x] \in Listed
      /\ \A x, y \in Listed : ~Between(rank[x], rank[y], rank[next[x]])
  BY <1>1 DEF Ordered
<1>3. Listed \subseteq Born /\ u \notin Born /\ u # Swapper
  BY <1>2 DEF Listed, Born, Fork
<1>4. PICK last \in Listed : next[last] = Swapper /\ next' = [next EXCEPT ![last] = u, ![u] = Swapper]
  BY DEF Fork, Listed
<1>5. UNCHANGED <<walk, due>> /\ \A x \in Born : tmm'[x] = tmm[x]
  BY <1>0, <1>3 DEF Fork, Born, MmTypeOK
<1>6. Born' = Born \cup {u} /\ Listed' = Listed \cup {u}
  BY <1>0 DEF Fork, Born, Listed, MmTypeOK
<1>7. /\ next'[u] = Swapper /\ next'[last] = u
      /\ \A x \in Born \ {last} : next'[x] = next[x]
  BY <1>0, <1>3, <1>4 DEF MmTypeOK, Born
<1>8. PICK n \in Nat : n = Cardinality(Born)
  <2>1. Born \subseteq Task
    BY DEF Born
  <2> QED  BY <2>1, TasksFinite, FS_Subset, FS_CardinalityType
<1>9. Cardinality(Born') = n + 1
  <2>1. IsFiniteSet(Born)
    BY TasksFinite, FS_Subset DEF Born
  <2> QED  BY <1>3, <1>6, <1>8, <2>1, FS_AddElement
<1>10. rank \in [Born -> Nat] /\ \A x \in Born : rank[x] < n
  BY <1>1, <1>8
<1>11. PICK q : q = [x \in Born \cup {u} |-> IF x = u THEN n ELSE rank[x]]
  OBVIOUS
<1>12. /\ q[u] = n /\ \A x \in Born : q[x] = rank[x]
       /\ q \in [Born \cup {u} -> 0 .. n]
  BY <1>3, <1>8, <1>10, <1>11
\* Nothing that is on the list comes after the last.
<1>13. \A y \in Listed : rank[y] <= rank[last]
  <2>1. ASSUME NEW y \in Listed PROVE rank[y] <= rank[last]
    <3>1. ~Between(rank[last], rank[y], 0)
      BY <1>2, <1>4
    <3> QED  BY <1>3, <1>10, <3>1, BetweenFacts
  <2> QED  BY <2>1
<1>14. \A x \in Listed \ {last} : next[x] # Swapper
  <2>1. ASSUME NEW x \in Listed, next[x] = Swapper PROVE x = last
    <3>1. ~Between(rank[x], rank[last], 0)
      BY <1>2, <2>1
    <3>2. rank[last] <= rank[x] /\ rank[x] <= rank[last]
      BY <1>3, <1>10, <1>13, <3>1, BetweenFacts
    <3> QED  BY <1>2, <1>3, <1>10, <3>2
  <2> QED  BY <2>1
\* Where the list led from x on, it leads now, but for the new task.
<1>15. ASSUME NEW x \in Born, NEW y \in Listed, ~Between(rank[x], rank[y], rank[next[x]])
       PROVE  ~Between(q[x], q[y], q[next'[x]])
  <2>1. q[x] = rank[x] /\ q[y] = rank[y] /\ q[x] \in Nat /\ q[y] \in Nat
    BY <1>3, <1>10, <1>12
  <2>2. CASE x = last
    <3>1. q[next'[x]] = n /\ rank[y] <= rank[x] /\ rank[x] < n
      BY <1>7, <1>10, <1>12, <1>13, <2>2
    <3> QED  BY <1>8, <2>1, <3>1, BetweenFacts
  <2>3. CASE x # last
    <3>1. next'[x] = next[x] /\ q[next[x]] = rank[next[x]]
      BY <1>2, <1>7, <1>12, <2>3
    <3> QED  BY <1>15, <2>1, <3>1
  <2> QED  BY <2>2, <2>3
<1>16. \A y \in Born' : ~Between(q[u], q[y], q[next'[u]])
  <2>1. ASSUME NEW y \in Born' PROVE ~Between(q[u], q[y], q[next'[u]])
    <3>1. q[u] = n /\ q[next'[u]] = 0 /\ q[y] \in Nat /\ q[y] <= n
      BY <1>2, <1>3, <1>6, <1>7, <1>12
    <3> QED  BY <1>8, <3>1, BetweenFacts
  <2> QED  BY <2>1
<1>17. Ordered(q)'
  <2>1. Swapper \in Listed' /\ q[Swapper] = 0
    BY <1>2, <1>3, <1>6, <1>12
  <2>2. \A x, y \in Born' : q[x] = q[y] => x = y
    BY <1>2, <1>6, <1>8, <1>10, <1>12
  <2>3. ASSUME NEW x \in Born'
        PROVE  next'[x] \in Born' /\ (next'[x] = Swapper \/ q[x] < q[next'[x]])
    <3>1. CASE x = u
      BY <1>2, <1>3, <1>6, <1>7, <3>1
    <3>2. CASE x = last
      BY <1>3, <1>6, <1>7, <1>10, <1>12, <3>2
    <3>3. CASE x \in Born \ {last}
      BY <1>2, <1>6, <1>7, <1>12, <3>3
    <3> QED  BY <1>6, <3>1, <3>2, <3>3
  <2>4. \A x \in Listed' : next'[x] \in Listed'
    BY <1>2, <1>3, <1>6, <1>7
  <2>5. ASSUME NEW x \in Listed', NEW y \in Listed' PROVE ~Between(q[x], q[y], q[next'[x]])
    <3>1. CASE x = u
      BY <1>3, <1>6, <1>16, <3>1
    <3>2. CASE x \in Listed /\ y \in Listed
      BY <1>2, <1>3, <1>15, <3>2
    <3>3. CASE x \in Listed /\ y = u
      <4>1. CASE x = last
        <5>1. q[x] \in Nat /\ q[y] = n /\ q[next'[x]] = n /\ q[x] < n
          BY <1>3, <1>7, <1>10, <1>12, <3>3, <4>1
        <5> QED  BY <1>8, <5>1 DEF Between
      <4>2. CASE x # last
        <5>1. next'[x] = next[x] /\ next[x] \in Born /\ rank[x] < rank[next[x]]
          BY <1>2, <1>3, <1>7, <1>14, <3>3, <4>2
        <5>2. /\ q[x] \in Nat /\ q[y] = n /\ q[next'[x]] \in Nat
              /\ q[x] < q[next'[x]] /\ q[next'[x]] < n
          BY <1>3, <1>10, <1>12, <3>3, <5>1
        <5> QED  BY <1>8, <5>2 DEF Between
      <4> QED  BY <4>1, <4>2
    <3> QED  BY <1>6, <3>1, <3>2, <3>3
  <2> QED  BY <2>1, <2>2, <2>3, <2>4, <2>5 DEF Ordered
<1>18. ASSUME NEW c \in Caller, Walking(c)' PROVE Ahead(c, q)'
  <2>1. Walking(c) /\ Ahead(c, rank)
    BY <1>1, <1>5, <1>18 DEF Walking
  <2>2. /\ c \in Listed /\ walk[c].p \in Born /\ walk[c].n \in Born
        /\ due[c] \subseteq Listed /\ \A y \in due[c] : tmm[y] # None
    <3>1. \A y \in due[c] : tmm[y] # None /\ y \in Task
      BY <1>0, <2>1 DEF Ahead, MmTypeOK
    <3> QED  BY <1>0, <2>1, <3>1 DEF WalkInv, MadeInv
  <2>3. \A y \in due'[c] : tmm'[y] # None
    BY <1>3, <1>5, <2>2
  <2>4. ASSUME NEW x \in Born, NEW D \in SUBSET Listed, Meets(rank, c, x, D)
        PROVE  Meets(q, c, x, D)
    BY <1>3, <1>12, <2>2, <2>4 DEF Meets
  <2>5. /\ Meets(q, c, walk[c].p, due[c])
        /\ Meets(q, c, walk[c].n, due[c] \ {walk[c].p})
    <3>1. /\ Meets(rank, c, walk[c].p, due[c])
          /\ Meets(rank, c, walk[c].n, due[c] \ {walk[c].p})
      BY <2>1 DEF Ahead
    <3> QED  BY <2>2, <2>4, <3>1
  <2>6. PICK R \in SUBSET Born :
          /\ Listed \cup {walk[c].n} \subseteq R
          /\ \A x \in R : /\ next[x] \in R
                          /\ \A y \in due[c] \cup {c} :
                               ~Between(rank[x], rank[y], rank[next[x]])
    BY <2>1 DEF Ahead
  <2>7. R \cup {u} \in SUBSET Born' /\ Listed' \cup {walk'[c].n} \subseteq R \cup {u}
    BY <1>5, <1>6, <2>6
  <2>8. ASSUME NEW x \in R \cup {u}
        PROVE  /\ next'[x] \in R \cup {u}
               /\ \A y \in due'[c] \cup {c} : ~Between(q[x], q[y], q[next'[x]])
    <3>1. CASE x = u
      BY <1>2, <1>3, <1>5, <1>6, <1>7, <1>16, <2>2, <2>6, <3>1
    <3>2. CASE x \in R
      <4>1. next'[x] \in R \cup {u}
        BY <1>7, <2>6, <3>2
      <4>2. \A y \in due[c] \cup {c} : y \in Listed /\ ~Between(rank[x], rank[y], rank[next[x]])
        BY <2>2, <2>6, <3>2
      <4> QED  BY <1>5, <1>15, <3>2, <4>1, <4>2
    <3> QED  BY <3>1, <3>2
  <2>9. \E S \in SUBSET Born' :
          /\ Listed' \cup {walk'[c].n} \subseteq S
          /\ \A x \in S : /\ next'[x] \in S
                          /\ \A y \in due'[c] \cup {c} : ~Between(q[x], q[y], q[next'[x]])
    BY <2>7, <2>8
  <2>10. /\ Meets(q, c, walk'[c].p, due'[c])
         /\ Meets(q, c, walk'[c].n, due'[c] \ {walk'[c].p})
    BY <1>5, <2>5
  <2> QED  BY <2>3, <2>9, <2>10 DEF Ahead, Meets
<1>19. q \in [Born' -> 0 .. Cardinality(Born') - 1]
  BY <1>6, <1>8, <1>9, <1>12
<1> QED  BY <1>17, <1>18, <1>19 DEF OrderInv

LEMMA OrderOfKernel ==
  ASSUME Ind, KernelStep
  PROVE  OrderInv' /\ AllSeen'
<1>1. OrderInv'
  BY OrderOfFork, OrderOfRest, OrderOfUnlink DEF KernelStep
<1>2. walk' = walk
  BY KernelFrame
<1>3. \A c \in Caller : due'[c] \subseteq due[c]
  BY DEF KernelStep, Fork, Exec, ExitMm, Unlink, FreeTask
<1> QED  BY <1>1, <1>2, <1>3 DEF AllSeen, Ind

-----------------------------------------------------------------------------
(* The theorems.                                                            *)

\* The list at the start: Succ goes round it in the order of the numbers.
LEMMA InitOrder == Init => OrderInv
<1> SUFFICES ASSUME Init PROVE OrderInv
  OBVIOUS
<1> DEFINE T == DOMAIN First
<1>1. T \subseteq Task /\ Swapper \in T /\ Succ \in [T -> T] /\ IsFiniteSet(T)
  BY MmAssumption, FS_Subset
<1>2. Born = T /\ Listed = T
  BY <1>1 DEF Init, Born, Listed
<1>3. \A t \in T : next[t] = Succ[t]
  BY <1>1 DEF Init
<1>4. PICK n \in Nat : n = Cardinality(T)
  BY <1>1, FS_CardinalityType
<1>5. PICK rank \in [T -> 0 .. n - 1] :
        /\ \A t, u \in T : rank[t] = rank[u] => t = u
        /\ \A t \in T : rank[Succ[t]] = (rank[t] + 1) % n
        /\ rank[Swapper] = 0
  BY <1>4, MmAssumption
<1> HIDE DEF T
<1>6. ASSUME NEW t \in T
      PROVE  \/ rank[Succ[t]] = rank[t] + 1
             \/ rank[t] = n - 1 /\ Succ[t] = Swapper
  <2>1. n # 0 /\ rank[t] \in 0 .. n - 1 /\ Succ[t] \in T
    BY <1>1, <1>5
  <2>2. CASE rank[t] + 1 < n
    <3>1. (rank[t] + 1) % n = rank[t] + 1
      BY <2>1, <2>2
    <3> QED  BY <1>5, <3>1
  <2>3. CASE rank[t] + 1 = n
    <3>1. n % n = 0
      BY <2>1
    <3> QED  BY <1>1, <1>5, <2>1, <2>3, <3>1
  <2> QED  BY <2>1, <2>2, <2>3
<1>7. ASSUME NEW t \in T
      PROVE  /\ Succ[t] \in T /\ (Succ[t] = Swapper \/ rank[t] < rank[Succ[t]])
             /\ \A u \in T : ~Between(rank[t], rank[u], rank[Succ[t]])
  <2>1. Succ[t] \in T /\ \A u \in T : rank[u] \in 0 .. n - 1
    BY <1>1, <1>5
  <2>2. CASE rank[Succ[t]] = rank[t] + 1
    BY <2>1, <2>2 DEF Between
  <2>3. CASE rank[t] = n - 1 /\ Succ[t] = Swapper
    BY <1>5, <2>1, <2>3 DEF Between
  <2> QED  BY <1>6, <2>1, <2>2, <2>3
<1>8. Ordered(rank)
  BY <1>1, <1>2, <1>3, <1>5, <1>7 DEF Ordered
<1>9. \A c \in Caller : ~Walking(c)
  BY DEF Init, Idle, Walking
<1> QED  BY <1>2, <1>4, <1>8, <1>9 DEF OrderInv

LEMMA IndInit == Init => Ind
<1> SUFFICES ASSUME Init PROVE Ind
  OBVIOUS
<1>1. \A m \in Mm : Count(m) \in Nat
  BY TasksFinite, FS_Subset, FS_CardinalityType DEF Count
<1>2. /\ DOMAIN First \subseteq Task /\ DOMAIN Succ = DOMAIN First
      /\ \A t \in DOMAIN First : First[t] \in Mm \cup {None} /\ Succ[t] \in Task
  BY MmAssumption
<1>3. /\ next \in [Task -> Task \cup {None}]
      /\ task \in [Task -> {"unborn", "listed", "unlinked", "freed"}]
      /\ tmm \in [Task -> Mm \cup {None}]
  BY <1>2 DEF Init
<1>4. \A c \in Caller : walk[c] = Idle
  BY DEF Init
<1>5. MmTypeOK
  <2>1. walk \in [Caller -> Local]
    BY DEF Init, Idle, Local
  <2>2. users \in [Mm -> Nat] /\ due \in [Caller -> SUBSET Task]
    BY <1>1 DEF Init
  <2>3. used \subseteq Task \X Mm /\ made \subseteq Mm /\ torn \subseteq made
    BY <1>3 DEF Init
  <2> QED  BY <1>3, <2>1, <2>2, <2>3 DEF Init, MmTypeOK, Local
<1>6. CountBalanced
  <2>1. ASSUME NEW m \in Mm PROVE users[m] = Count(m) + Cardinality(Counted(m))
    <3>1. Counted(m) = {}
      BY <1>4 DEF Counted, Idle
    <3>2. users[m] = Count(m)
      BY DEF Init
    <3> QED  BY <1>1, <3>1, <3>2, FS_EmptySet
  <2> QED  BY <1>1, <1>5, <2>1 DEF CountBalanced, MmTypeOK
<1>7. MadeInv
  <2>1. ASSUME NEW t \in Task, tmm[t] # None
        PROVE  t \in Listed /\ <<t, tmm[t]>> \in used /\ tmm[t] \in made
    <3>1. t \in Listed
      BY <2>1 DEF Init, Listed
    <3>2. <<t, tmm[t]>> \in used /\ tmm[t] \in Mm
      BY <1>3, <2>1 DEF Init
    <3>3. t \in {u \in Task : tmm[u] = tmm[t]} /\ IsFiniteSet({u \in Task : tmm[u] = tmm[t]})
      BY TasksFinite, FS_Subset
    <3>4. Count(tmm[t]) # 0
      BY <3>3, FS_EmptySet DEF Count
    <3>5. made = {m \in Mm : Count(m) > 0}
      BY DEF Init
    <3>6. Count(tmm[t]) > 0
      BY <1>1, <3>2, <3>4
    <3> QED  BY <3>1, <3>2, <3>5, <3>6
  <2>2. \A c \in Caller : walk[c].mm = None
    BY <1>4 DEF Idle
  <2>3. \A m \in Mm \ made : users[m] = 0
    BY <1>1 DEF Init
  <2> QED  BY <2>1, <2>2, <2>3 DEF MadeInv
<1>8. WalkInv /\ AloneInv /\ CountedStays
  BY <1>4 DEF Idle, Walking, WalkInv, AloneInv, CountedStays
<1>9. AllSeen /\ ReportTrue
  BY DEF Init, AllSeen, ReportTrue
<1> QED  BY <1>5, <1>6, <1>7, <1>8, <1>9, InitOrder DEF Ind, MmInv

LEMMA IndStep == Ind /\ [Next]_vars => Ind'
<1> SUFFICES ASSUME Ind, [Next]_vars PROVE Ind'
  OBVIOUS
<1>1. ASSUME NEW c \in Caller, CallerStep(c) PROVE Ind'
  BY <1>1, TypeOfCaller, CountOfCaller, MadeOfCaller, WalkOfCaller, AloneOfCaller,
     OrderOfCaller, StaysOfCaller, ReportOfCaller DEF Ind, MmInv
<1>2. CASE KernelStep
  BY <1>2, TypeOfKernel, CountOfKernel, MadeOfKernel, WalkOfKernel, AloneAndReportOfKernel,
     OrderOfKernel, StaysOfKernel DEF Ind, MmInv
<1>3. CASE UNCHANGED vars
  <2>1. MmTypeOK' /\ CountBalanced' /\ MadeInv'
    BY <1>3 DEF vars, kernelVars, Ind, MmInv, MmTypeOK, CountBalanced, Count, Counted,
                MadeInv, Listed
  <2>2. WalkInv' /\ AloneInv' /\ AllSeen' /\ CountedStays' /\ ReportTrue'
    BY <1>3 DEF vars, kernelVars, Ind, MmInv, WalkInv, AloneInv, Walking, Listed, Born,
                AllSeen, CountedStays, ReportTrue
  <2>3. OrderInv'
    <3>1. PICK rank \in [Born -> 0 .. Cardinality(Born) - 1] :
            Ordered(rank) /\ \A c \in Caller : Walking(c) => Ahead(c, rank)
      BY DEF Ind, MmInv, OrderInv
    <3>2. Born' = Born /\ Listed' = Listed /\ next' = next /\ walk' = walk
          /\ due' = due /\ tmm' = tmm
      BY <1>3 DEF vars, kernelVars, Born, Listed
    <3>3. Ordered(rank)'
      BY <3>1, <3>2 DEF Ordered
    <3>4. ASSUME NEW c \in Caller, Walking(c)' PROVE Ahead(c, rank)'
      <4>1. Ahead(c, rank)
        BY <3>1, <3>2, <3>4 DEF Walking
      <4> QED  BY <3>2, <4>1, AheadKept DEF Ahead
    <3> QED  BY <3>1, <3>2, <3>3, <3>4 DEF OrderInv
  <2> QED  BY <2>1, <2>2, <2>3 DEF Ind, MmInv
<1> QED  BY <1>1, <1>2, <1>3 DEF Next

LEMMA IndCorrect == Spec => []Ind
BY IndInit, IndStep, PTL DEF Spec

\* The counts of an address space are right whatever is forked, exits or goes
\* on to another; now_task is its caller's as long as there is one; and the
\* successor that a call has read leads on to all it is to see.
THEOREM MmInvCorrect == Spec => []MmInv
BY IndCorrect, PTL DEF Ind

\* list_for_each_safe passes no task that had an address space all along,
\* whatever is linked and unlinked in front of it.
THEOREM AllSeenCorrect == Spec => []AllSeen
BY IndCorrect, PTL DEF Ind

\* Between a timely atomic_inc and its atomic_dec, mm_users keeps the address
\* space, even from the exit of the task it was read from.
THEOREM CountedStaysCorrect == Spec => []CountedStays
BY IndCorrect, PTL DEF Ind

\* With one call at a time, the task that is printed has used the page's
\* address space.
THEOREM ReportTrueCorrect == Spec => []ReportTrue
BY IndCorrect, PTL DEF Ind

-----------------------------------------------------------------------------
(* Addresses.                                                             *)

\* A number is its quotient and remainder ...
LEMMA DivMod ==
  ASSUME NEW a \in Nat, NEW s \in Nat \ {0}
  PROVE  /\ a \div s \in Nat /\ a % s \in 0..s - 1
         /\ a = (a \div s) * s + (a % s)
<1>1. a \div s \in Int /\ a % s \in 0..s - 1
  OBVIOUS
<1>3. a = (a \div s) * s + (a % s)
  OBVIOUS
<1>2. a \div s >= 0
  BY <1>1
<1> QED  BY <1>1, <1>2

LEMMA Times ==
  ASSUME NEW a \in Nat, NEW b \in Nat, NEW s \in Nat
  PROVE  /\ a * s \in Nat
         /\ a < b => a * s + s <= b * s
<1>1. a * s \in Nat /\ b * s \in Nat
  OBVIOUS
<1>2. ASSUME a < b PROVE a * s + s <= b * s
  <2>1. PICK d \in Nat : b = a + 1 + d
    <3>1. b - a - 1 \in Nat /\ b = a + 1 + (b - a - 1)
      BY <1>2
    <3> QED  BY <3>1
  <2>2. b * s = a * s + s + d * s
    BY <2>1
  <2>3. d * s \in Nat
    OBVIOUS
  <2> QED  BY <1>1, <2>2, <2>3
<1> QED  BY <1>1, <1>2

\* ... and has no others.
LEMMA DivModIs ==
  ASSUME NEW q \in Nat, NEW s \in Nat \ {0}, NEW r \in 0..s - 1
  PROVE  (q * s + r) \div s = q /\ (q * s + r) % s = r /\ q * s + r \in Nat
<1> DEFINE a == q * s + r
<1>1. q * s \in Nat /\ a \in Nat
  OBVIOUS
<1> HIDE DEF a
<1>2. /\ a \div s \in Nat /\ a % s \in 0..s - 1 /\ a = (a \div s) * s + (a % s)
  BY <1>1, DivMod
<1> DEFINE d == a \div s
           t == a % s
<1>3. d \in Nat /\ t \in 0..s - 1 /\ d * s + t = q * s + r /\ d * s \in Nat /\ q * s \in Nat
  BY <1>1, <1>2, Times DEF a
<1> HIDE DEF d, t
<1>4. ~(d < q)
  <2>1. d < q => d * s + s <= q * s
    BY <1>3, Times
  <2> QED  BY <1>3, <2>1
<1>5. ~(q < d)
  <2>1. q < d => q * s + s <= d * s
    BY <1>3, Times
  <2> QED  BY <1>3, <2>1
<1>6. d = q
  BY <1>3, <1>4, <1>5
<1>7. t = r
  BY <1>3, <1>6
<1> QED  BY <1>1, <1>6, <1>7 DEF a, d, t

\* A stretch within a stretch.
LEMMA Within ==
  ASSUME NEW base \in Nat, NEW a \in Nat, NEW s \in Nat, NEW b \in Nat, a + s <= b,
         NEW x \in Nat, NEW y \in Nat, base + a <= x, x + y <= base + a + s
  PROVE  base <= x /\ x + y <= base + b
OBVIOUS

\* z is s times n: the number n counts in s is a digit, below it is the rest.
Digit(a, s, n, z) == (a % z) \div s = (a \div s) % n /\ (a % z) % s = a % s

LEMMA Digits ==
  ASSUME NEW a \in Nat, NEW s \in Nat \ {0}, NEW n \in Nat \ {0}, NEW z, z = s * n
  PROVE  z \in Nat \ {0} /\ Digit(a, s, n, z)
<1> DEFINE q == a \div s
           r == a % s
           p == q \div n
           d == q % n
<1>1. q \in Nat /\ r \in 0..s - 1 /\ a = q * s + r
  BY DivMod
<1> HIDE DEF q, r
<1>2. p \in Nat /\ d \in 0..n - 1 /\ q = p * n + d
  BY <1>1, DivMod
<1>3. z \in Nat \ {0} /\ n * s = z
  OBVIOUS
<1> HIDE DEF p, d
<1>4. d * s + r \in 0..z - 1
  <2>1. d * s + s <= n * s
    BY <1>2, Times
  <2>2. d * s \in Nat
    BY <1>2, Times
  <2> QED  BY <1>1, <1>3, <2>1, <2>2
<1>5. a = p * z + (d * s + r)
  <2>1. q * s = (p * n) * s + d * s
    BY <1>1, <1>2
  <2>2. (p * n) * s = p * (n * s)
    BY <1>2
  <2>3. p * z \in Nat /\ d * s \in Nat
    BY <1>2, <1>3, Times
  <2> QED  BY <1>1, <1>3, <2>1, <2>2, <2>3
<1>6. a \div z = p /\ a % z = d * s + r
  BY <1>2, <1>3, <1>4, <1>5, DivModIs
<1>7. (d * s + r) \div s = d /\ (d * s + r) % s = r
  BY <1>1, <1>2, DivModIs
<1>8. (a % z) \div s = d /\ (a % z) % s = r
  BY <1>6, <1>7
<1> QED  BY <1>3, <1>8 DEF Digit, q, r, d

\* The higher digit of a number of two.
LEMMA DigitRange ==
  ASSUME NEW s \in Nat \ {0}, NEW n \in Nat \ {0}, NEW w \in 0..s * n - 1
  PROVE  w \in Nat /\ w \div s \in 0..n - 1
<1>1. s * n \in Nat /\ s * n = n * s
  OBVIOUS
<1>2. w \in Nat /\ w < n * s
  <2> DEFINE S == s * n
  <2>1. S \in Nat /\ w \in 0..S - 1
    BY <1>1
  <2> HIDE DEF S
  <2>2. w \in Nat /\ w < S
    BY <2>1
  <2> QED  BY <1>1, <2>2 DEF S
<1>3. w \div s \in Nat /\ w % s \in 0..s - 1 /\ w = (w \div s) * s + (w % s)
  BY <1>2, DivMod
<1>4. n < (w \div s) + 1 => n * s + s <= ((w \div s) + 1) * s
  <2>1. (w \div s) + 1 \in Nat
    BY <1>3
  <2> QED  BY <2>1, Times
<1>5. ((w \div s) + 1) * s = (w \div s) * s + s
  BY <1>3
<1>6. (w \div s) * s \in Nat /\ n * s \in Nat
  BY <1>1, <1>3, Times
<1> DEFINE a == (w \div s) * s
           b == n * s
<1> HIDE DEF a, b
<1>7. ~(n < (w \div s) + 1)
  <2>1. n < (w \div s) + 1 => b + s <= a + s
    BY <1>4, <1>5 DEF a, b
  <2>2. a \in Nat /\ b \in Nat /\ w < b /\ w = a + (w % s)
    BY <1>2, <1>3, <1>6 DEF a, b
  <2> QED  BY <1>2, <1>3, <2>1, <2>2
<1> QED  BY <1>2, <1>3, <1>7

-----------------------------------------------------------------------------
(* The lines of a table, against the addresses below it.                  *)

\* The lines W are of what phys says of the size addresses from base on.
Exact(W, base, size, phys) ==
  /\ \A l \in W : /\ l.size \in Nat /\ l.vaddr \in Nat
                  /\ base <= l.vaddr /\ l.vaddr + l.size <= base + size
  /\ \A w \in 0..size - 1 : phys[w] = paddr =>
       \E l \in W : Covers(l, base + w) /\ \A k \in W : Covers(k, base + w) => k = l
  /\ \A l \in W : \E w \in 0..size - 1 : Covers(l, base + w) /\ phys[w] = paddr

\* Nothing is mapped.
LEMMA NoLines ==
  ASSUME paddr \in Nat, NEW base, NEW size, NEW phys, \A w \in 0..size - 1 : phys[w] = -1
  PROVE  Exact({}, base, size, phys)
<1>1. paddr # -1
  OBVIOUS
<1> QED  BY <1>1 DEF Exact

\* A page.
LEMMA PageLine ==
  ASSUME paddr \in Nat, NEW base \in Nat, NEW size \in Nat \ {0}, NEW e, NEW phys,
         PAGE_SIZE \in Nat, e.pfn \in Nat,
         \A w \in 0..size - 1 : phys[w] = Frame(e, size) * size + w
  PROVE  Exact(Match(e, size, base), base, size, phys)
<1> DEFINE q == paddr \div size
           r == paddr % size
           f == Frame(e, size)
<1>1. q \in Nat /\ r \in 0..size - 1 /\ paddr = q * size + r
  BY DivMod
<1>2. f \in Nat
  <2>1. e.pfn * PAGE_SIZE \in Nat
    BY Times
  <2> QED  BY <2>1, DivMod DEF Frame
<1>3. \A w \in 0..size - 1 : phys[w] = paddr => f = q
  <2>1. SUFFICES ASSUME NEW w \in 0..size - 1, phys[w] = paddr PROVE f = q
    OBVIOUS
  <2>2. (f * size + w) \div size = f
    BY <1>2, DivModIs
  <2> QED  BY <2>1, <2>2
<1>4. CASE f = q
  <2>1. Match(e, size, base) = {Line(size, base)}
    BY <1>4 DEF Match
  <2>2. \A w \in 0..size - 1 : Covers(Line(size, base), base + w)
    BY DEF Covers, Line
  <2>3. phys[r] = paddr
    BY <1>1, <1>4
  <2>4. Line(size, base).size = size /\ Line(size, base).vaddr = base
    BY DEF Line
  <2> HIDE DEF r, q, f
  <2>5. \A l \in Match(e, size, base) :
          /\ l.size \in Nat /\ l.vaddr \in Nat
          /\ base <= l.vaddr /\ l.vaddr + l.size <= base + size
    BY <2>1, <2>4
  <2> QED  BY <1>1, <2>1, <2>2, <2>3, <2>5 DEF Exact
<1>5. CASE f # q
  <2>1. Match(e, size, base) = {}
    BY <1>5 DEF Match
  <2> QED  BY <1>3, <1>5, <2>1 DEF Exact
<1> QED  BY <1>4, <1>5

\* The parts of a table are a table.
LEMMA JoinLines ==
  ASSUME NEW base \in Nat, NEW s \in Nat \ {0}, NEW n \in Nat \ {0},
         NEW W, NEW f, NEW phys,
         \A i \in 0..n - 1 : Exact(W[i], base + i * s, s, f[i]),
         \A w \in 0..s * n - 1 : phys[w] = f[w \div s][w % s]
  PROVE  Exact(UNION {W[i] : i \in 0..n - 1}, base, s * n, phys)
<1> DEFINE S == s * n
           all == UNION {W[i] : i \in 0..n - 1}
<1>1. S \in Nat \ {0} /\ S = n * s
  OBVIOUS
<1>2. ASSUME NEW i \in 0..n - 1 PROVE i \in Nat /\ i * s \in Nat /\ i * s + s <= S
  <2>1. i * s \in Nat /\ i * s + s <= n * s
    BY Times
  <2> QED  BY <1>1, <2>1
<1> HIDE DEF S
<1>3. ASSUME NEW i \in 0..n - 1, NEW w \in Nat, i * s <= w, w < i * s + s
      PROVE  w \div s = i /\ w % s = w - i * s /\ w - i * s \in 0..s - 1
  <2>1. i * s \in Nat
    BY <1>2
  <2>2. w - i * s \in 0..s - 1 /\ i * s + (w - i * s) = w
    BY <1>3, <2>1
  <2>3. i \in Nat
    BY <1>2
  <2>4. (i * s + (w - i * s)) \div s = i /\ (i * s + (w - i * s)) % s = w - i * s
    BY <2>2, <2>3, DivModIs
  <2> QED  BY <2>2, <2>4
<1>4. ASSUME NEW w \in 0..S - 1
      PROVE  /\ w \div s \in 0..n - 1 /\ w % s \in 0..s - 1
             /\ w = (w \div s) * s + (w % s)
             /\ phys[w] = f[w \div s][w % s]
  <2>1. w \in Nat /\ w < S
    BY <1>1
  <2>2. w \div s \in Nat /\ w % s \in 0..s - 1 /\ w = (w \div s) * s + (w % s)
    BY <2>1, DivMod
  <2>3. w \div s \in 0..n - 1
    BY DigitRange DEF S
  <2>4. phys[w] = f[w \div s][w % s]
    BY DEF S
  <2> QED  BY <2>2, <2>3, <2>4
<1>5. ASSUME NEW l \in all
      PROVE  /\ l.size \in Nat /\ l.vaddr \in Nat
             /\ base <= l.vaddr /\ l.vaddr + l.size <= base + S
             /\ \E w \in 0..S - 1 : Covers(l, base + w) /\ phys[w] = paddr
  <2>1. PICK i \in 0..n - 1 : l \in W[i]
    OBVIOUS
  <2>2. /\ l.size \in Nat /\ l.vaddr \in Nat
        /\ base + i * s <= l.vaddr /\ l.vaddr + l.size <= base + i * s + s
    BY <2>1 DEF Exact
  <2>3. PICK r \in 0..s - 1 : Covers(l, base + i * s + r) /\ f[i][r] = paddr
    BY <2>1 DEF Exact
  <2>4. i * s \in Nat /\ i * s + s <= S
    BY <1>2
  <2> DEFINE w == i * s + r
  <2>5. w \in 0..S - 1 /\ base + w = base + i * s + r
    <3> DEFINE a == i * s
    <3>1. a \in Nat /\ a + s <= S
      BY <1>2
    <3> HIDE DEF a
    <3>2. a + r \in 0..S - 1 /\ base + (a + r) = base + a + r
      BY <1>1, <3>1
    <3> QED  BY <3>2 DEF a
  <2>6. w \div s = i /\ w % s = r
    BY <1>2, DivModIs
  <2>7. phys[w] = paddr
    BY <1>4, <2>3, <2>5, <2>6
  <2> HIDE DEF w
  <2>8. Covers(l, base + w)
    BY <2>3, <2>5
  <2>9. base <= l.vaddr /\ l.vaddr + l.size <= base + S
    <3> DEFINE a == i * s
    <3>1. a \in Nat /\ a + s <= S /\ base + a <= l.vaddr /\ l.vaddr + l.size <= base + a + s
      BY <2>2, <2>4
    <3>2. S \in Nat
      BY <1>1
    <3> HIDE DEF a
    <3> QED  BY <2>2, <3>1, <3>2, Within
  <2> QED  BY <2>2, <2>5, <2>7, <2>8, <2>9
<1>6. ASSUME NEW w \in 0..S - 1, phys[w] = paddr
      PROVE  \E l \in all : Covers(l, base + w) /\ \A k \in all : Covers(k, base + w) => k = l
  <2> DEFINE i == w \div s
             r == w % s
  <2>1. i \in 0..n - 1 /\ r \in 0..s - 1 /\ w = i * s + r /\ f[i][r] = paddr /\ w \in Nat
    <3>1. w \in Nat /\ w \in 0..S - 1
      BY <1>1
    <3> QED  BY <1>4, <1>6, <3>1
  <2> HIDE DEF i, r
  <2>2. i * s \in Nat /\ base + i * s + r = base + w
    BY <1>2, <2>1
  <2>3. PICK l \in W[i] : /\ Covers(l, base + i * s + r)
                          /\ \A k \in W[i] : Covers(k, base + i * s + r) => k = l
    BY <2>1 DEF Exact
  <2>4. ASSUME NEW k \in all, Covers(k, base + w) PROVE k = l
    <3>1. PICK j \in 0..n - 1 : k \in W[j]
      OBVIOUS
    <3>2. /\ k.size \in Nat /\ k.vaddr \in Nat
          /\ base + j * s <= k.vaddr /\ k.vaddr + k.size <= base + j * s + s
      BY <3>1 DEF Exact
    <3>3. j * s \in Nat
      BY <1>2
    <3>4. j * s <= w /\ w < j * s + s
      BY <2>1, <2>4, <3>2, <3>3 DEF Covers
    <3>5. j = i
      BY <1>3, <2>1, <3>4 DEF i
    <3> QED  BY <2>2, <2>3, <2>4, <3>1, <3>5
  <2> QED  BY <2>1, <2>2, <2>3, <2>4
<1>7. Exact(all, base, S, phys)
  BY <1>5, <1>6 DEF Exact
<1> QED  BY <1>7 DEF S, all

-----------------------------------------------------------------------------
(* The tables.                                                            *)

\* What the processor makes of an address below an entry of each level, given
\* what it makes of one below the table the entry may lead to.
PhysEntry(e, size, lower) ==
  [w \in 0..size - 1 |-> IF e.kind = "absent" THEN -1
                         ELSE IF e.kind = "page" THEN Frame(e, size) * size + w
                         ELSE lower[w]]

\* ... and below a table.
PhysPte(t) ==
  [w \in 0..PMD_SIZE - 1 |->
     PhysEntry(t[w \div PAGE_SIZE], PAGE_SIZE, <<>>)[w % PAGE_SIZE]]
PhysPmd(t) ==
  [w \in 0..PUD_SIZE - 1 |->
     PhysEntry(t[w \div PMD_SIZE], PMD_SIZE, PhysPte(t[w \div PMD_SIZE].table))[w % PMD_SIZE]]
PhysPud(t) ==
  [w \in 0..PGDIR_SIZE - 1 |->
     PhysEntry(t[w \div PUD_SIZE], PUD_SIZE, PhysPmd(t[w \div PUD_SIZE].table))[w % PUD_SIZE]]
PhysPgd(t) ==
  [w \in UserAddresses |->
     PhysEntry(t[w \div PGDIR_SIZE], PGDIR_SIZE, PhysPud(t[w \div PGDIR_SIZE].table))[w % PGDIR_SIZE]]

\* The lines of an entry.
LinesOf(e, size, base, lower) ==
  IF e.kind = "absent" THEN {} ELSE IF e.kind = "page" THEN Match(e, size, base) ELSE lower

LEMMA EntryLines ==
  ASSUME paddr \in Nat, PAGE_SIZE \in Nat, NEW base \in Nat, NEW size \in Nat \ {0}, NEW e,
         NEW phys, NEW lower, e.kind = "page" => e.pfn \in Nat,
         e.kind \notin {"absent", "page"} => Exact(lower, base, size, phys)
  PROVE  Exact(LinesOf(e, size, base, lower), base, size, PhysEntry(e, size, phys))
<1> DEFINE p == PhysEntry(e, size, phys)
<1>1. CASE e.kind = "absent"
  <2>1. \A w \in 0..size - 1 : p[w] = -1
    BY <1>1 DEF PhysEntry
  <2> HIDE DEF p
  <2>2. Exact({}, base, size, p)
    BY <2>1, NoLines
  <2> QED  BY <1>1, <2>2 DEF LinesOf, p
<1>2. CASE e.kind = "page"
  <2>1. \A w \in 0..size - 1 : p[w] = Frame(e, size) * size + w
    BY <1>2 DEF PhysEntry
  <2> HIDE DEF p
  <2>2. Exact(Match(e, size, base), base, size, p)
    BY <1>2, <2>1, PageLine
  <2> QED  BY <1>2, <2>2 DEF LinesOf, p
<1>3. CASE e.kind \notin {"absent", "page"}
  <2>1. \A w \in 0..size - 1 : p[w] = phys[w]
    BY <1>3 DEF PhysEntry
  <2> HIDE DEF p
  <2>2. Exact(lower, base, size, p)
    BY <1>3, <2>1 DEF Exact
  <2> QED  BY <1>3, <2>2 DEF LinesOf, p
<1> QED  BY <1>1, <1>2, <1>3

\* The sizes.
LEMMA Sizes ==
  /\ PAGE_SIZE \in Nat \ {0} /\ PMD_SIZE \in Nat \ {0}
  /\ PUD_SIZE \in Nat \ {0} /\ PGDIR_SIZE \in Nat \ {0}
  /\ PTRS_PER_PTE \in Nat \ {0} /\ PTRS_PER_PMD \in Nat \ {0} /\ PTRS_PER_PUD \in Nat \ {0}
  /\ PTRS_PER_PGD \div 2 \in Nat \ {0} /\ PTRS_PER_PGD \div 2 <= PTRS_PER_PGD
<1>1. /\ PAGE_SIZE \in Nat \ {0} /\ PTRS_PER_PTE \in Nat \ {0} /\ PTRS_PER_PMD \in Nat \ {0}
      /\ PTRS_PER_PUD \in Nat \ {0} /\ PTRS_PER_PGD \in Nat \ {0} /\ PTRS_PER_PGD % 2 = 0
  BY PageWalkAssumption
<1>2. PMD_SIZE \in Nat \ {0}
  BY <1>1, Digits DEF PMD_SIZE
<1>3. PUD_SIZE \in Nat \ {0}
  BY <1>1, <1>2, Digits DEF PUD_SIZE
<1>4. PGDIR_SIZE \in Nat \ {0}
  BY <1>1, <1>3, Digits DEF PGDIR_SIZE
<1>5. PTRS_PER_PGD \div 2 \in Nat \ {0} /\ PTRS_PER_PGD \div 2 <= PTRS_PER_PGD
  BY <1>1
<1> QED  BY <1>1, <1>2, <1>3, <1>4, <1>5

LEMMA PteLines ==
  ASSUME paddr \in Nat, NEW t \in Pte, NEW base \in Nat
  PROVE  Exact(walk_pte(t, base), base, PMD_SIZE, PhysPte(t))
<1> DEFINE s == PAGE_SIZE
           n == PTRS_PER_PTE
           W == [i \in 0..n - 1 |-> LinesOf(t[i], s, base + i * s, {})]
           f == [i \in 0..n - 1 |-> PhysEntry(t[i], s, <<>>)]
<1>1. s \in Nat \ {0} /\ n \in Nat \ {0}
  BY Sizes
<1>2. \A i \in 0..n - 1 : /\ t[i].kind \in {"absent", "page"}
                          /\ t[i].kind = "page" => t[i].pfn \in Nat
  BY DEF Pte, Absence, Page
<1>3. ASSUME NEW i \in 0..n - 1 PROVE Exact(W[i], base + i * s, s, f[i])
  <2>1. i \in Nat /\ base + i * s \in Nat /\ t[i].kind \in {"absent", "page"} /\ s \in Nat
        /\ (t[i].kind = "page" => t[i].pfn \in Nat)
    BY <1>1, <1>2, Times
  <2> HIDE DEF s, n
  <2>2. Exact(LinesOf(t[i], s, base + i * s, {}), base + i * s, s, PhysEntry(t[i], s, <<>>))
    BY <1>1, <2>1, EntryLines DEF s
  <2> QED  BY <2>2
<1>4. ASSUME NEW w \in 0..s * n - 1 PROVE PhysPte(t)[w] = f[w \div s][w % s]
  <2>1. w \in 0..PMD_SIZE - 1 /\ w \div s \in 0..n - 1
    BY <1>1, DigitRange DEF PMD_SIZE
  <2> QED  BY <2>1 DEF PhysPte
<1>5. walk_pte(t, base) = UNION {W[i] : i \in 0..n - 1}
  BY <1>2 DEF walk_pte, LinesOf
<1> HIDE DEF s, n, W, f
<1>6. Exact(UNION {W[i] : i \in 0..n - 1}, base, s * n, PhysPte(t))
  BY <1>1, <1>3, <1>4, JoinLines
<1> QED  BY <1>5, <1>6 DEF PMD_SIZE, s, n

LEMMA PmdLines ==
  ASSUME paddr \in Nat, NEW t \in Pmd, NEW base \in Nat
  PROVE  Exact(walk_pmd(t, base), base, PUD_SIZE, PhysPmd(t))
<1> DEFINE s == PMD_SIZE
           n == PTRS_PER_PMD
           W == [i \in 0..n - 1 |->
                   LinesOf(t[i], s, base + i * s, walk_pte(t[i].table, base + i * s))]
           f == [i \in 0..n - 1 |-> PhysEntry(t[i], s, PhysPte(t[i].table))]
<1>1. s \in Nat \ {0} /\ n \in Nat \ {0} /\ PAGE_SIZE \in Nat
  BY Sizes
<1>2. \A i \in 0..n - 1 : /\ t[i].kind = "page" => t[i].pfn \in Nat
                          /\ t[i].kind \notin {"absent", "page"} => t[i].table \in Pte
  BY DEF Pmd, Absence, Page, Ptr
<1>3. ASSUME NEW i \in 0..n - 1 PROVE Exact(W[i], base + i * s, s, f[i])
  <2>1. i \in Nat /\ i * s \in Nat
    BY <1>1, Times
  <2> DEFINE at == base + i * s
  <2>2. at \in Nat
    BY <2>1
  <2> HIDE DEF s, n, at
  <2>3. t[i].kind \notin {"absent", "page"} =>
          Exact(walk_pte(t[i].table, at), at, s, PhysPte(t[i].table))
    BY <1>2, <2>2, PteLines DEF s
  <2>4. t[i].kind = "page" => t[i].pfn \in Nat
    BY <1>2
  <2>5. Exact(LinesOf(t[i], s, at, walk_pte(t[i].table, at)), at, s,
              PhysEntry(t[i], s, PhysPte(t[i].table)))
    BY <1>1, <2>2, <2>3, <2>4, EntryLines
  <2> QED  BY <2>5 DEF at
<1>4. ASSUME NEW w \in 0..s * n - 1 PROVE PhysPmd(t)[w] = f[w \div s][w % s]
  <2>1. w \in 0..PUD_SIZE - 1 /\ w \div s \in 0..n - 1
    BY <1>1, DigitRange DEF PUD_SIZE
  <2> QED  BY <2>1 DEF PhysPmd
<1>5. walk_pmd(t, base) = UNION {W[i] : i \in 0..n - 1}
  BY DEF walk_pmd, LinesOf
<1> HIDE DEF s, n, W, f
<1>6. Exact(UNION {W[i] : i \in 0..n - 1}, base, s * n, PhysPmd(t))
  BY <1>1, <1>3, <1>4, JoinLines
<1> QED  BY <1>5, <1>6 DEF PUD_SIZE, s, n

LEMMA PudLines ==
  ASSUME paddr \in Nat, NEW t \in Pud, NEW base \in Nat
  PROVE  Exact(walk_pud(t, base), base, PGDIR_SIZE, PhysPud(t))
<1> DEFINE s == PUD_SIZE
           n == PTRS_PER_PUD
           W == [i \in 0..n - 1 |->
                   LinesOf(t[i], s, base + i * s, walk_pmd(t[i].table, base + i * s))]
           f == [i \in 0..n - 1 |-> PhysEntry(t[i], s, PhysPmd(t[i].table))]
<1>1. s \in Nat \ {0} /\ n \in Nat \ {0} /\ PAGE_SIZE \in Nat
  BY Sizes
<1>2. \A i \in 0..n - 1 : /\ t[i].kind = "page" => t[i].pfn \in Nat
                          /\ t[i].kind \notin {"absent", "page"} => t[i].table \in Pmd
  BY DEF Pud, Absence, Page, Ptr
<1>3. ASSUME NEW i \in 0..n - 1 PROVE Exact(W[i], base + i * s, s, f[i])
  <2>1. i \in Nat /\ i * s \in Nat
    BY <1>1, Times
  <2> DEFINE at == base + i * s
  <2>2. at \in Nat
    BY <2>1
  <2> HIDE DEF s, n, at
  <2>3. t[i].kind \notin {"absent", "page"} =>
          Exact(walk_pmd(t[i].table, at), at, s, PhysPmd(t[i].table))
    BY <1>2, <2>2, PmdLines DEF s
  <2>4. t[i].kind = "page" => t[i].pfn \in Nat
    BY <1>2
  <2>5. Exact(LinesOf(t[i], s, at, walk_pmd(t[i].table, at)), at, s,
              PhysEntry(t[i], s, PhysPmd(t[i].table)))
    BY <1>1, <2>2, <2>3, <2>4, EntryLines
  <2> QED  BY <2>5 DEF at
<1>4. ASSUME NEW w \in 0..s * n - 1 PROVE PhysPud(t)[w] = f[w \div s][w % s]
  <2>1. w \in 0..PGDIR_SIZE - 1 /\ w \div s \in 0..n - 1
    BY <1>1, DigitRange DEF PGDIR_SIZE
  <2> QED  BY <2>1 DEF PhysPud
<1>5. walk_pud(t, base) = UNION {W[i] : i \in 0..n - 1}
  BY DEF walk_pud, LinesOf
<1> HIDE DEF s, n, W, f
<1>6. Exact(UNION {W[i] : i \in 0..n - 1}, base, s * n, PhysPud(t))
  BY <1>1, <1>3, <1>4, JoinLines
<1> QED  BY <1>5, <1>6 DEF PGDIR_SIZE, s, n

LEMMA PgdLines ==
  ASSUME paddr \in Nat, NEW t \in Pgd
  PROVE  Exact(walk_pgd(t), 0, PGDIR_SIZE * (PTRS_PER_PGD \div 2), PhysPgd(t))
<1> DEFINE s == PGDIR_SIZE
           n == PTRS_PER_PGD \div 2
           W == [i \in 0..n - 1 |-> LinesOf(t[i], s, i * s, walk_pud(t[i].table, i * s))]
           f == [i \in 0..n - 1 |-> PhysEntry(t[i], s, PhysPud(t[i].table))]
<1>1. s \in Nat \ {0} /\ n \in Nat \ {0} /\ PAGE_SIZE \in Nat /\ n <= PTRS_PER_PGD
  BY Sizes
<1>2. \A i \in 0..n - 1 : /\ t[i].kind # "page"
                          /\ t[i].kind # "absent" => t[i].table \in Pud
  <2>1. PTRS_PER_PGD \in Nat
    BY PageWalkAssumption
  <2> HIDE DEF n
  <2>2. 0..n - 1 \subseteq 0..PTRS_PER_PGD - 1
    BY <1>1, <2>1
  <2> QED  BY <2>2 DEF Pgd, Absence, Ptr
<1>b. PICK base \in Nat : base = 0
  OBVIOUS
<1>3. ASSUME NEW i \in 0..n - 1 PROVE Exact(W[i], base + i * s, s, f[i])
  <2> DEFINE at == i * s
  <2>1. i \in Nat /\ at \in Nat /\ base + at = at
    BY <1>1, <1>b, Times
  <2> HIDE DEF s, n, at
  <2>2. t[i].kind \notin {"absent", "page"} =>
          Exact(walk_pud(t[i].table, at), at, s, PhysPud(t[i].table))
    BY <1>2, <2>1, PudLines DEF s
  <2>3. t[i].kind = "page" => t[i].pfn \in Nat
    BY <1>2
  <2>4. Exact(LinesOf(t[i], s, at, walk_pud(t[i].table, at)), at, s,
              PhysEntry(t[i], s, PhysPud(t[i].table)))
    BY <1>1, <2>1, <2>2, <2>3, EntryLines
  <2> QED  BY <2>1, <2>4 DEF at
<1>4. ASSUME NEW w \in 0..s * n - 1 PROVE PhysPgd(t)[w] = f[w \div s][w % s]
  <2>1. w \in UserAddresses /\ w \div s \in 0..n - 1
    <3>1. s * n = n * s
      BY <1>1
    <3> QED  BY <1>1, <3>1, DigitRange DEF UserAddresses
  <2> QED  BY <2>1 DEF PhysPgd
<1>5. walk_pgd(t) = UNION {W[i] : i \in 0..n - 1}
  BY <1>2 DEF walk_pgd, LinesOf
<1> HIDE DEF s, n, W, f
<1>6. Exact(UNION {W[i] : i \in 0..n - 1}, base, s * n, PhysPgd(t))
  BY <1>1, <1>3, <1>4, JoinLines
<1> QED  BY <1>b, <1>5, <1>6 DEF s, n

\* The index in a table is a digit of the address, the offset is what is below.
LEMMA SizeDigits ==
  ASSUME NEW v \in Nat
  PROVE  /\ Digit(v, PUD_SIZE, PTRS_PER_PUD, PGDIR_SIZE)
         /\ Digit(v, PMD_SIZE, PTRS_PER_PMD, PUD_SIZE)
         /\ Digit(v, PAGE_SIZE, PTRS_PER_PTE, PMD_SIZE)
<1>1. /\ PGDIR_SIZE = PUD_SIZE * PTRS_PER_PUD /\ PUD_SIZE = PMD_SIZE * PTRS_PER_PMD
      /\ PMD_SIZE = PAGE_SIZE * PTRS_PER_PTE
  BY DEF PGDIR_SIZE, PUD_SIZE, PMD_SIZE
<1>2. /\ PUD_SIZE \in Nat \ {0} /\ PMD_SIZE \in Nat \ {0} /\ PAGE_SIZE \in Nat \ {0}
      /\ PTRS_PER_PUD \in Nat \ {0} /\ PTRS_PER_PMD \in Nat \ {0} /\ PTRS_PER_PTE \in Nat \ {0}
  BY Sizes, PageWalkAssumption
<1> QED  BY <1>1, <1>2, Digits

\* The processor's way down.
LEMMA TranslateIs ==
  ASSUME pgd \in Pgd, NEW v \in UserAddresses
  PROVE  Translate(v) = PhysPgd(pgd)[v]
<1> DEFINE g == pgd[v \div PGDIR_SIZE]
           u == g.table[(v \div PUD_SIZE) % PTRS_PER_PUD]
           m == u.table[(v \div PMD_SIZE) % PTRS_PER_PMD]
           t == m.table[(v \div PAGE_SIZE) % PTRS_PER_PTE]
           wg == v % PGDIR_SIZE
           wu == v % PUD_SIZE
           wm == v % PMD_SIZE
           wt == v % PAGE_SIZE
<1>1. v \in Nat
  BY Sizes, Times DEF UserAddresses
<1>2. /\ wg \in 0..PGDIR_SIZE - 1 /\ wu \in 0..PUD_SIZE - 1
      /\ wm \in 0..PMD_SIZE - 1 /\ wt \in 0..PAGE_SIZE - 1
  BY <1>1, Sizes, DivMod
<1>3. /\ wg \div PUD_SIZE = (v \div PUD_SIZE) % PTRS_PER_PUD /\ wg % PUD_SIZE = wu
      /\ wu \div PMD_SIZE = (v \div PMD_SIZE) % PTRS_PER_PMD /\ wu % PMD_SIZE = wm
      /\ wm \div PAGE_SIZE = (v \div PAGE_SIZE) % PTRS_PER_PTE /\ wm % PAGE_SIZE = wt
  BY <1>1, SizeDigits DEF Digit
<1>6. g.kind # "page" /\ (g.kind # "absent" => g.table \in Pud)
  <2>1. v \div PGDIR_SIZE \in 0..PTRS_PER_PGD - 1
    <3> DEFINE n == PTRS_PER_PGD \div 2
    <3>1. n \in Nat \ {0} /\ PGDIR_SIZE \in Nat \ {0} /\ n <= PTRS_PER_PGD
      BY Sizes
    <3>2. v \in 0..PGDIR_SIZE * n - 1
      BY <3>1 DEF UserAddresses
    <3> HIDE DEF n
    <3>3. v \div PGDIR_SIZE \in 0..n - 1
      BY <3>1, <3>2, DigitRange
    <3> QED  BY <3>1, <3>3, PageWalkAssumption
  <2> QED  BY <2>1 DEF Pgd, Absence, Ptr
<1> DEFINE pt == IF t.kind = "absent" THEN -1
                 ELSE IF t.kind = "page" THEN Frame(t, PAGE_SIZE) * PAGE_SIZE + wt
                 ELSE <<>>[wt]
           pm == IF m.kind = "absent" THEN -1
                 ELSE IF m.kind = "page" THEN Frame(m, PMD_SIZE) * PMD_SIZE + wm ELSE pt
           pu == IF u.kind = "absent" THEN -1
                 ELSE IF u.kind = "page" THEN Frame(u, PUD_SIZE) * PUD_SIZE + wu ELSE pm
           pg == IF g.kind = "absent" THEN -1 ELSE pu
<1> HIDE DEF g, wg, wu, wm, wt
<1>7. PhysPte(m.table)[wm] = pt
  BY <1>2, <1>3 DEF PhysPte, PhysEntry
<1>8. PhysPmd(u.table)[wu] = pm
  BY <1>2, <1>3, <1>7 DEF PhysPmd, PhysEntry
<1>9. PhysPud(g.table)[wg] = pu
  BY <1>2, <1>3, <1>8 DEF PhysPud, PhysEntry
<1>10. PhysPgd(pgd)[v] = pg
  BY <1>2, <1>6, <1>9 DEF PhysPgd, PhysEntry, g, wg
<1>11. g.kind # "absent" /\ u.kind \notin {"absent", "page"} /\ m.kind \notin {"absent", "page"}
         => t.kind \in {"absent", "page"}
  <2>1. /\ (v \div PUD_SIZE) % PTRS_PER_PUD \in 0..PTRS_PER_PUD - 1
        /\ (v \div PMD_SIZE) % PTRS_PER_PMD \in 0..PTRS_PER_PMD - 1
        /\ (v \div PAGE_SIZE) % PTRS_PER_PTE \in 0..PTRS_PER_PTE - 1
    BY <1>1, Sizes, DivMod
  <2>2. /\ \A x \in Pud, i \in 0..PTRS_PER_PUD - 1 :
             x[i].kind \notin {"absent", "page"} => x[i].table \in Pmd
        /\ \A x \in Pmd, i \in 0..PTRS_PER_PMD - 1 :
             x[i].kind \notin {"absent", "page"} => x[i].table \in Pte
        /\ \A x \in Pte, i \in 0..PTRS_PER_PTE - 1 : x[i].kind \in {"absent", "page"}
    BY DEF Pud, Pmd, Pte, Absence, Page, Ptr
  <2>3. g.kind # "absent" => g.table \in Pud
    BY <1>6
  <2> QED  BY <2>1, <2>2, <2>3
<1> QED  BY <1>10, <1>11 DEF Translate, InPage, g, wu, wm, wt

-----------------------------------------------------------------------------
(* The search.                                                            *)

\* What is found depends on the address space and the address alone.
LEMMA SameLines ==
  ASSUME pgd' = pgd, paddr' = paddr
  PROVE  walk_pgd(pgd)' = walk_pgd(pgd)
<1>1. ASSUME NEW e, NEW size, NEW base PROVE Match(e, size, base)' = Match(e, size, base)
  BY DEF Match, Frame
<1>2. ASSUME NEW t, NEW base PROVE walk_pte(t, base)' = walk_pte(t, base)
  BY <1>1 DEF walk_pte
<1>3. ASSUME NEW t, NEW base PROVE walk_pmd(t, base)' = walk_pmd(t, base)
  BY <1>1, <1>2 DEF walk_pmd
<1>4. ASSUME NEW t, NEW base PROVE walk_pud(t, base)' = walk_pud(t, base)
  BY <1>1, <1>3 DEF walk_pud
<1> QED  BY <1>4 DEF walk_pgd

\* Every call of walk_mm_struct (it scans the user half of the directory and
\* the three levels below) prints exactly the user pages that the processor
\* maps to the address looked for.
THEOREM TablesInvCorrect == TablesSpec => []TablesInv
<1>1. TablesInit => TablesTypeOK
  BY PageWalkAssumption DEF TablesInit, TablesTypeOK
<1>2. TablesTypeOK /\ [TablesNext]_tablesVars => TablesTypeOK'
  <2> SUFFICES ASSUME TablesTypeOK, [TablesNext]_tablesVars PROVE TablesTypeOK'
    OBVIOUS
  <2> USE DEF TablesTypeOK
  <2>1. CASE walk_mm_struct
    <3>1. /\ pgd \in Pgd /\ paddr \in Nat /\ pgd' = pgd /\ paddr' = paddr
          /\ done' = TRUE /\ printed' = walk_pgd(pgd)
      BY <2>1 DEF walk_mm_struct
    <3>2. walk_pgd(pgd)' = walk_pgd(pgd)
      BY <3>1, SameLines
    <3> QED  BY <3>1, <3>2
  <2>2. CASE Again
    BY <2>2 DEF Again
  <2>3. CASE UNCHANGED tablesVars
    <3>1. pgd' = pgd /\ paddr' = paddr /\ done' = done /\ printed' = printed
      BY <2>3 DEF tablesVars
    <3>2. walk_pgd(pgd)' = walk_pgd(pgd)
      BY <3>1, SameLines
    <3> QED  BY <3>1, <3>2
  <2> QED  BY <2>1, <2>2, <2>3 DEF TablesNext
<1>3. TablesTypeOK => TablesExact
  <2> SUFFICES ASSUME TablesTypeOK, done PROVE TablesExact
    BY DEF TablesExact, EveryMapping, OnlyMappings
  <2> DEFINE z == PGDIR_SIZE * (PTRS_PER_PGD \div 2)
             phys == PhysPgd(pgd)
  <2>1. pgd \in Pgd /\ paddr \in Nat /\ printed = walk_pgd(pgd)
    BY DEF TablesTypeOK
  <2>2. Exact(printed, 0, z, phys)
    BY <2>1, PgdLines
  <2>3. z \in Nat /\ UserAddresses = 0..z - 1
    BY Sizes, Times DEF UserAddresses
  <2>4. \A v \in UserAddresses : Translate(v) = phys[v]
    BY <2>1, TranslateIs
  <2> HIDE DEF z, phys
  <2>5. \A v \in UserAddresses : v \in Nat /\ 0 + v = v
    BY <2>3
  <2>6. EveryMapping
    <3>1. \A v \in 0..z - 1 : phys[v] = paddr =>
            \E l \in printed : /\ Covers(l, 0 + v)
                               /\ \A k \in printed : Covers(k, 0 + v) => k = l
      BY <2>2 DEF Exact
    <3>2. ASSUME NEW v \in UserAddresses, Translate(v) = paddr
          PROVE  \E l \in printed : Covers(l, v) /\ \A k \in printed : Covers(k, v) => k = l
      <4>1. v \in 0..z - 1 /\ phys[v] = paddr /\ 0 + v = v
        BY <2>3, <2>4, <2>5, <3>2
      <4>2. \E l \in printed : /\ Covers(l, 0 + v)
                               /\ \A k \in printed : Covers(k, 0 + v) => k = l
        BY <3>1, <4>1
      <4> QED  BY <4>1, <4>2, Zenon
    <3> QED  BY <3>2 DEF EveryMapping
  <2>7. OnlyMappings
    <3>1. ASSUME NEW l \in printed
          PROVE  \E v \in UserAddresses : Covers(l, v) /\ Translate(v) = paddr
      <4>1. PICK w \in 0..z - 1 : Covers(l, 0 + w) /\ phys[w] = paddr
        BY <2>2 DEF Exact
      <4>2. w \in UserAddresses /\ 0 + w = w /\ Translate(w) = paddr
        BY <2>3, <2>4, <2>5, <4>1
      <4>3. Covers(l, w)
        BY <4>1, <4>2, Zenon
      <4> QED  BY <4>2, <4>3
    <3> QED  BY <3>1 DEF OnlyMappings
  <2> QED  BY <2>6, <2>7 DEF TablesExact
<1> QED  BY <1>1, <1>2, <1>3, PTL DEF TablesSpec, TablesInv
=============================================================================
