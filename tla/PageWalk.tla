------------------------------- MODULE PageWalk -------------------------------
(***************************************************************************)
(* The page-table search of mem_leak/userspace/huawei_user_space_mem.c:    *)
(* walk_pgd, walk_pud, walk_pmd and walk_pte look at every present entry   *)
(* of the user half of an address space and print the virtual address of   *)
(* each page, of whichever of the three sizes, that holds paddr.  Checked  *)
(* against what the processor does with an address.                        *)
(*                                                                         *)
(* A table is a function from its indices to entries; an entry is absent,  *)
(* a page with a frame number, or the next table.  The frame number of a   *)
(* large page may have low bits set (PTE_PFN_MASK leaves the PAT bit in).  *)
(***************************************************************************)
EXTENDS Integers

CONSTANTS
  PTRS_PER_PGD, PTRS_PER_PUD, PTRS_PER_PMD, PTRS_PER_PTE,
  PAGE_SIZE,  \* 2^PAGE_SHIFT
  Pgds,       \* page directories ...
  Paddrs      \* ... and physical addresses to look for

Absent == [kind |-> "absent"]
Leaf(pfn) == [kind |-> "page", pfn |-> pfn]
Lower(t) == [kind |-> "table", table |-> t]

\* The entries of a table of each level: none of the lowest's leads on, none of
\* the highest's is a page.
Absence == [kind : {"absent"}]
Page == [kind : {"page"}, pfn : Nat]
Ptr(Tables) == [kind : {"table"}, table : Tables]

Pte == [0..PTRS_PER_PTE - 1 -> Absence \cup Page]
Pmd == [0..PTRS_PER_PMD - 1 -> Absence \cup Page \cup Ptr(Pte)]
Pud == [0..PTRS_PER_PUD - 1 -> Absence \cup Page \cup Ptr(Pmd)]
Pgd == [0..PTRS_PER_PGD - 1 -> Absence \cup Ptr(Pud)]

ASSUME PageWalkAssumption ==
  /\ {PTRS_PER_PGD, PTRS_PER_PUD, PTRS_PER_PMD, PTRS_PER_PTE, PAGE_SIZE}
       \subseteq Nat \ {0}
  /\ PTRS_PER_PGD % 2 = 0
  /\ Pgds \subseteq Pgd /\ Paddrs \subseteq Nat

VARIABLES pgd, paddr, printed, done
tablesVars == <<pgd, paddr, printed, done>>

\* The bytes that an entry of each level covers: 2^PMD_SHIFT and so on.
PMD_SIZE == PAGE_SIZE * PTRS_PER_PTE
PUD_SIZE == PMD_SIZE * PTRS_PER_PMD
PGDIR_SIZE == PUD_SIZE * PTRS_PER_PUD

\* The frame of a page of a given size, as a multiple of the size.
Frame(e, size) == (e.pfn * PAGE_SIZE) \div size

\* What is printed for a page.
Line(size, vaddr) == [size |-> size, vaddr |-> vaddr]

-----------------------------------------------------------------------------
\* handle_4_k_page, handle_2_m_page, handle_1_g_page.
Match(e, size, base) ==
  IF Frame(e, size) = paddr \div size THEN {Line(size, base)} ELSE {}

\* Each walker prints what its present entries lead to.
walk_pte(t, base) ==
  UNION {Match(t[i], PAGE_SIZE, base + i * PAGE_SIZE) :
           i \in {i \in 0..PTRS_PER_PTE - 1 : t[i].kind # "absent"}}

walk_pmd(t, base) ==
  UNION {LET at == base + i * PMD_SIZE IN
           IF t[i].kind = "page" THEN Match(t[i], PMD_SIZE, at)
           ELSE walk_pte(t[i].table, at) :
           i \in {i \in 0..PTRS_PER_PMD - 1 : t[i].kind # "absent"}}

walk_pud(t, base) ==
  UNION {LET at == base + i * PUD_SIZE IN
           IF t[i].kind = "page" THEN Match(t[i], PUD_SIZE, at)
           ELSE walk_pmd(t[i].table, at) :
           i \in {i \in 0..PTRS_PER_PUD - 1 : t[i].kind # "absent"}}

\* Mutant: the kernel's half too.
walk_pgdAll(t) ==
  UNION {walk_pud(t[i].table, i * PGDIR_SIZE) :
           i \in {i \in 0..PTRS_PER_PGD - 1 : t[i].kind # "absent"}}

walk_pgd(t) ==
  UNION {walk_pud(t[i].table, i * PGDIR_SIZE) :
           i \in {i \in 0..(PTRS_PER_PGD \div 2) - 1 : t[i].kind # "absent"}}

-----------------------------------------------------------------------------
TablesInit == pgd \in Pgds /\ paddr \in Paddrs /\ printed = {} /\ done = FALSE

\* walk_mm_struct, under page_table_lock.
walk_mm_struct ==
  /\ ~done /\ done' = TRUE
  /\ printed' = walk_pgd(pgd)
  /\ UNCHANGED <<pgd, paddr>>

\* The next call.
Again == done /\ done' = FALSE /\ printed' = {} /\ UNCHANGED <<pgd, paddr>>

TablesNext == walk_mm_struct \/ Again

TablesSpec == TablesInit /\ [][TablesNext]_tablesVars

-----------------------------------------------------------------------------
(* The processor: an address is cut into indices, which lead down to a page.*)

\* The address v holds in a page of the given size.
InPage(e, size, v) == Frame(e, size) * size + (v % size)

\* The physical address of v, or -1.
Translate(v) ==
  LET g == pgd[v \div PGDIR_SIZE]
      u == g.table[(v \div PUD_SIZE) % PTRS_PER_PUD]
      m == u.table[(v \div PMD_SIZE) % PTRS_PER_PMD]
      t == m.table[(v \div PAGE_SIZE) % PTRS_PER_PTE] IN
    IF g.kind = "absent" THEN -1
    ELSE IF u.kind = "absent" THEN -1
    ELSE IF u.kind = "page" THEN InPage(u, PUD_SIZE, v)
    ELSE IF m.kind = "absent" THEN -1
    ELSE IF m.kind = "page" THEN InPage(m, PMD_SIZE, v)
    ELSE IF t.kind = "absent" THEN -1
    ELSE InPage(t, PAGE_SIZE, v)

UserAddresses == 0..(PTRS_PER_PGD \div 2) * PGDIR_SIZE - 1

\* The page of a line holds v.
Covers(l, v) == l.vaddr <= v /\ v < l.vaddr + l.size

\* Every user address that the processor takes to paddr is in the page of
\* exactly one printed line.
EveryMapping ==
  done =>
    \A v \in UserAddresses :
      Translate(v) = paddr =>
        \E l \in printed : Covers(l, v) /\ \A k \in printed : Covers(k, v) => k = l

\* Every printed line is a user page with an address that the processor takes
\* to paddr: no kernel mapping, and no neighbour of paddr.
OnlyMappings ==
  done =>
    \A l \in printed : \E v \in UserAddresses : Covers(l, v) /\ Translate(v) = paddr

\* What is printed of an address space is what maps paddr, and no more.
TablesExact == EveryMapping /\ OnlyMappings

\* Every variable has its type, and only a call prints, what walk_pgd finds.
TablesTypeOK ==
  /\ pgd \in Pgd /\ paddr \in Nat /\ done \in BOOLEAN
  /\ printed = IF done THEN walk_pgd(pgd) ELSE {}

\* The variables have their types, and after a call of walk_mm_struct what is
\* printed is every user page that maps paddr, once, and nothing else.
TablesInv == TablesTypeOK /\ TablesExact
=============================================================================
