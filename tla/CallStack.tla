------------------------------ MODULE CallStack ------------------------------
(***************************************************************************)
(* get_lp_call_stack of mem_leak/kerspace/huawei_log_page.c: dump_trace    *)
(* calls hw_save_stack_address for every frame of the stack, and the       *)
(* modules of the frames that were kept are listed.                        *)
(***************************************************************************)
EXTENDS Integers, Sequences, SequencesExt

CONSTANTS
  Stacks,                \* the stacks dump_trace may find, as addresses
  ModuleOf,              \* what __module_address says of each; 0 is in none
  LOG_PAGE_TRACE_LEVEL,
  KPROBES_SKIP_NUM,
  LOG_MODULE_MAX_NUM,
  NoModule

ASSUME CallStackAssumption ==
  /\ LOG_PAGE_TRACE_LEVEL \in Nat /\ KPROBES_SKIP_NUM \in Nat
  /\ LOG_MODULE_MAX_NUM \in Nat \ {0}
  /\ 0 \in DOMAIN ModuleOf /\ ModuleOf[0] = NoModule
  /\ Stacks \subseteq Seq(DOMAIN ModuleOf \ {0})

VARIABLES
  stack,
  st,       \* the buffer: nr_entries and skip
  entries,  \* lp->entries
  modules,  \* lp->lp_module_info, as far as it is filled
  last_mod,
  reached,  \* the next frame, then the next entry to look at
  pc
stackVars == <<stack, st, entries, modules, last_mod, reached, pc>>

Slot == 1..LOG_PAGE_TRACE_LEVEL

\* The record has been cleared by alloc_lp.
StackBegin(frames) ==
  /\ stack = frames
  /\ st = [nr_entries |-> 0, skip |-> KPROBES_SKIP_NUM]
  /\ entries = [n \in Slot |-> 0]
  /\ modules = <<>> /\ last_mod = NoModule /\ reached = 1 /\ pc = "dump"

StackInit == \E frames \in Stacks : StackBegin(frames)

hw_save_stack_address(addr) ==
  IF st.skip > 0 THEN st' = [st EXCEPT !.skip = @ - 1] /\ UNCHANGED entries
  ELSE IF st.nr_entries < LOG_PAGE_TRACE_LEVEL
  THEN /\ st' = [st EXCEPT !.nr_entries = @ + 1]
       /\ entries' = [entries EXCEPT ![st.nr_entries + 1] = addr]
  ELSE UNCHANGED <<st, entries>>

\* dump_trace: a frame.
Dump ==
  /\ pc = "dump" /\ reached <= Len(stack)
  /\ hw_save_stack_address(stack[reached])
  /\ reached' = reached + 1
  /\ UNCHANGED <<stack, modules, last_mod, pc>>

Dumped ==
  /\ pc = "dump" /\ reached > Len(stack)
  /\ pc' = "modules" /\ reached' = 1
  /\ UNCHANGED <<stack, st, entries, modules, last_mod>>

\* Mutant: an entry in no module forgets the last one.
ListModuleForgets ==
  LET mod == ModuleOf[entries[reached]] IN
    /\ pc = "modules" /\ reached <= LOG_PAGE_TRACE_LEVEL
    /\ last_mod' = mod
    /\ modules' = IF mod \in {NoModule, last_mod} THEN modules ELSE Append(modules, mod)
    /\ pc' = IF Len(modules') = LOG_MODULE_MAX_NUM THEN "done" ELSE pc
    /\ reached' = reached + 1
    /\ UNCHANGED <<stack, st, entries>>

\* An entry: its module is listed, unless it was the last one listed.
ListModule ==
  LET mod == ModuleOf[entries[reached]] IN
    /\ pc = "modules" /\ reached <= LOG_PAGE_TRACE_LEVEL
    /\ IF mod \in {NoModule, last_mod} THEN UNCHANGED <<modules, last_mod, pc>>
       ELSE /\ last_mod' = mod /\ modules' = Append(modules, mod)
            /\ pc' = IF Len(modules) + 1 = LOG_MODULE_MAX_NUM THEN "done" ELSE pc
    /\ reached' = reached + 1
    /\ UNCHANGED <<stack, st, entries>>

Listed ==
  /\ pc = "modules" /\ reached > LOG_PAGE_TRACE_LEVEL
  /\ pc' = "done"
  /\ UNCHANGED <<stack, st, entries, modules, last_mod, reached>>

StackNext == Dump \/ Dumped \/ ListModule \/ Listed

StackSpec == StackInit /\ [][StackNext]_stackVars

-----------------------------------------------------------------------------
(* Properties.                                                              *)

\* Every variable has its type.
CallStackTypeOK ==
  /\ stack \in Stacks /\ reached \in Nat \ {0} /\ pc \in {"dump", "modules", "done"}
  /\ st \in [nr_entries : 0..LOG_PAGE_TRACE_LEVEL, skip : 0..KPROBES_SKIP_NUM]
  /\ entries \in [Slot -> DOMAIN ModuleOf]
  /\ modules \in Seq({ModuleOf[a] : a \in DOMAIN ModuleOf})

\* The first n frames from the first that is not the probe's own.
Trace(n) ==
  [k \in Slot |-> IF k + KPROBES_SKIP_NUM <= n THEN stack[k + KPROBES_SKIP_NUM] ELSE 0]

\* The trace is the stack from the first frame that is not the probe's own, cut
\* at the record's length and padded with zeros.
TraceExact == pc # "dump" => entries = Trace(Len(stack))

\* Entry k is the last one in a module before entry n.
Before(k, n) ==
  /\ k < n /\ ModuleOf[entries[k]] # NoModule
  /\ \A j \in Slot : k < j /\ j < n => ModuleOf[entries[j]] = NoModule

\* Where the trace comes from one module into another.
Turns ==
  {n \in Slot : /\ ModuleOf[entries[n]] # NoModule
                /\ \A k \in Slot : Before(k, n) => ModuleOf[entries[k]] # ModuleOf[entries[n]]}

\* The list is the modules at the turns before entry n, in their order, cut at
\* its length.
ModulesUpTo(n) ==
  /\ Len(modules) <= LOG_MODULE_MAX_NUM
  /\ \E place \in [1..Len(modules) -> Turns] :
       /\ \A k \in 1..Len(modules) :
            /\ place[k] < n /\ modules[k] = ModuleOf[entries[place[k]]]
            /\ \A t \in Turns : t < place[k] <=> \E j \in 1..k - 1 : place[j] = t
       /\ Len(modules) < LOG_MODULE_MAX_NUM =>
            \A t \in Turns : t < n => \E k \in 1..Len(modules) : place[k] = t

\* The list is the modules of the trace in the order in which the stack goes from
\* one to another (the comment at huawei_log_page.c:440), cut at its length.
ModulesExact == pc = "done" => ModulesUpTo(LOG_PAGE_TRACE_LEVEL + 1)

\* Why: both loops have done so much ...
Dumping ==
  pc = "dump" =>
    LET kept == reached - 1 - KPROBES_SKIP_NUM IN
      /\ reached <= Len(stack) + 1 /\ entries = Trace(reached - 1)
      /\ modules = <<>> /\ last_mod = NoModule
      /\ st.skip = IF kept < 0 THEN -kept ELSE 0
      /\ kept < 0 => st.nr_entries = 0
      /\ kept \in 0..LOG_PAGE_TRACE_LEVEL => st.nr_entries = kept
      /\ kept > LOG_PAGE_TRACE_LEVEL => st.nr_entries = LOG_PAGE_TRACE_LEVEL

\* ... and the module listed last is the last one on the trace.
Listing ==
  pc = "modules" =>
    /\ reached <= LOG_PAGE_TRACE_LEVEL + 1
    /\ ModulesUpTo(reached) /\ Len(modules) < LOG_MODULE_MAX_NUM
    /\ IF last_mod = NoModule
       THEN \A k \in Slot : k < reached => ModuleOf[entries[k]] = NoModule
       ELSE \E k \in Slot : Before(k, reached) /\ ModuleOf[entries[k]] = last_mod

\* A record that is linked has the trace of its caller and the modules on it.
CaptureInv == CallStackTypeOK /\ TraceExact /\ ModulesExact /\ Dumping /\ Listing
=============================================================================
