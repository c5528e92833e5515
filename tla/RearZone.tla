------------------------------- MODULE RearZone -------------------------------
(***************************************************************************)
(* mem_overflow_check.c (mem_overflow_del_firstiso/code): the detector with *)
(* one isolation zone per block, behind it.  A free finds the block's       *)
(* struct by the address the client was given (mem_addr).                   *)
(*                                                                          *)
(* No operation here depends on the order of iso_head: the search compares  *)
(* mem_addr, which no two linked structs share (ZoneOfBlock), and check_iso *)
(* looks at every zone.  The list is the set of the structs on it, and a    *)
(* scan takes the zones in any order.                                       *)
(***************************************************************************)
EXTENDS Integers, FiniteSets

CONSTANTS
  NCells,    \* the arena of memory is 0 .. NCells - 1
  Iso,       \* ISOSIZE_KMALLOC, _VMALLOC, _DMA, _GFPS, _PAGE: all the same
  PageSize,  \* PAGE_SIZE
  Request,   \* what clients ask for: a layout and its size or order
  Client,    \* threads that call the wrappers
  None

ASSUME RearAssumption ==
  /\ NCells \in Nat /\ Iso \in Nat \ {0}
  /\ PageSize \in Nat /\ PageSize > Iso
  /\ Request \subseteq {"bytes", "doubling", "inside"} \X Nat
  /\ \A r \in Request : 2^r[2] \in Nat \ {0} /\ 2^(r[2] + 1) = 2 * 2^r[2]
  /\ None \notin [req : Request, base : 0 .. NCells - 1]

Cell == 0 .. NCells - 1

-----------------------------------------------------------------------------
(* Where a wrapper puts the zone: the cells it asks the kernel for, where   *)
(* the zone begins and how long it is.                                      *)

\* skmalloc, svmalloc, sdma_alloc_coherent, __get_free_pages_ex.
BytesLayout(size) == [total |-> size + Iso, rear |-> size, zone |-> Iso]

\* __sget_free_pages: twice the pages, the second half of them the zone.
DoublingLayout(order) ==
  LET need == 2^order * PageSize
  IN  [total |-> 2^(order + 1) * PageSize, rear |-> need, zone |-> need]

\* __nget_free_pages: the pages asked for, the zone at their end.
InsideLayout(order) ==
  LET need == 2^order * PageSize
  IN  [total |-> need, rear |-> need - Iso, zone |-> Iso]

Layout(r) == CASE r[1] = "bytes" -> BytesLayout(r[2])
               [] r[1] = "doubling" -> DoublingLayout(r[2])
               [] r[1] = "inside" -> InsideLayout(r[2])

Block == [req : Request, base : Cell]
Area(b) == b.base .. b.base + Layout(b.req).total - 1
Asked(b) ==
  LET size == IF b.req[1] = "bytes" THEN b.req[2] ELSE 2^b.req[2] * PageSize
  IN  b.base .. b.base + size - 1

\* struct iso_zone; mem_addr also stands for the struct's own address and that
\* of its callerinfo, which are allocated for this block only.
ZoneOf(b) == [addr |-> b.base + Layout(b.req).rear, size |-> Layout(b.req).zone,
              mem_addr |-> b.base]
ZoneCells(z) == z.addr .. z.addr + z.size - 1
GuardCells(b) == ZoneCells(ZoneOf(b))

-----------------------------------------------------------------------------
VARIABLES
  phase,    \* the module: "out", "in", "stopping"
  thread,   \* checklist: "none", "top", "sleep", "scan", "done"
  todo,     \* the zones check_iso has still to look at
  linked,   \* the structs on iso_head
  flag,     \* those whose flag is set
  filled,   \* the cells that hold an 'a'
  client,   \* per client: what its call does next, its block, the struct found
  live,     \* blocks clients have
  lost,     \* blocks whose area nobody can give back any more
  areas,    \* areas the kernel gave and did not get back
  infos,    \* allocated callerinfo buffers
  structs,  \* allocated struct iso_zone
  told      \* the zones check_iso reported

vars == <<phase, thread, todo, linked, flag, filled, client, live, lost, areas,
          infos, structs, told>>
heap == <<areas, infos, structs, lost>>
scan == <<thread, todo>>
list == <<linked, flag, told>>

Idle == [pc |-> "idle", b |-> None, temp |-> None]
Scanning == thread = "scan"   \* check_iso holds list_lock
Pristine(z) == ZoneCells(z) \subseteq filled

Init ==
  /\ phase = "out" /\ thread = "none" /\ todo = {} /\ linked = {}
  /\ flag = {} /\ filled = {} /\ told = {}
  /\ client = [c \in Client |-> Idle] /\ live = {} /\ lost = {}
  /\ areas = {} /\ infos = {} /\ structs = {}

Step(c, from, to) ==
  /\ phase = "in" /\ client[c].pc = from
  /\ client' = [client EXCEPT ![c] =
                  IF to = "idle" THEN Idle ELSE [@ EXCEPT !.pc = to]]

-----------------------------------------------------------------------------
(* The wrappers.                                                            *)

Obtainable(b) ==
  /\ Area(b) \subseteq Cell
  /\ \A other \in areas : Area(other) \cap Area(b) = {}
  /\ b.req[1] # "bytes" => b.base % PageSize = 0

\* Mutant: the last byte of the zone is not filled.
AllocAreaShort(c) ==
  \E b \in Block :
    /\ phase = "in" /\ client[c] = Idle
    /\ Obtainable(b)
    /\ areas' = areas \cup {b}
    /\ filled' = (filled \ Area(b)) \cup
                  (GuardCells(b) \ {ZoneOf(b).addr + ZoneOf(b).size - 1})
    /\ client' = [client EXCEPT ![c] = [Idle EXCEPT !.pc = "info", !.b = b]]
    /\ UNCHANGED <<phase, scan, list, live, lost, infos, structs>>

\* The kernel gives the area, anything in it, and the zone is filled.
AllocArea(c) ==
  \E b \in Block :
    /\ phase = "in" /\ client[c] = Idle
    /\ Obtainable(b)
    /\ areas' = areas \cup {b}
    /\ filled' = (filled \ Area(b)) \cup GuardCells(b)
    /\ client' = [client EXCEPT ![c] = [Idle EXCEPT !.pc = "info", !.b = b]]
    /\ UNCHANGED <<phase, scan, list, live, lost, infos, structs>>

AllocInfo(c) ==
  /\ Step(c, "info", "struct")
  /\ infos' = infos \cup {client[c].b.base}
  /\ UNCHANGED <<phase, scan, list, filled, live, lost, areas, structs>>

AllocStruct(c) ==
  /\ Step(c, "struct", "link")
  /\ structs' = structs \cup {client[c].b.base}
  /\ UNCHANGED <<phase, scan, list, filled, live, lost, areas, infos>>

\* No memory for the buffer or for the struct: NULL is returned, and what was
\* allocated before stays.
AllocFails(c) ==
  /\ Step(c, "info", "idle") \/ Step(c, "struct", "idle")
  /\ lost' = lost \cup {client[c].b}
  /\ UNCHANGED <<phase, scan, list, filled, live, areas, infos, structs>>

\* list_add under list_lock; the block is returned.
Link(c) ==
  LET z == ZoneOf(client[c].b) IN
    /\ Step(c, "link", "idle") /\ ~Scanning
    /\ linked' = linked \cup {z}
    /\ flag' = flag \ {z}
    /\ told' = told \ {z}
    /\ live' = live \cup {client[c].b}
    /\ UNCHANGED <<phase, scan, filled, heap>>

EnterFree(c) ==
  \E b \in live :
    /\ phase = "in" /\ client[c] = Idle
    /\ client' = [client EXCEPT ![c] = [Idle EXCEPT !.pc = "unlink", !.b = b]]
    /\ live' = live \ {b}
    /\ UNCHANGED <<phase, scan, list, filled, heap>>

\* Mutant: no list_del.
UnlinkForgets(c) ==
  /\ phase = "in" /\ client[c].pc = "unlink" /\ ~Scanning
  /\ \E z \in linked :
       /\ z.mem_addr = client[c].b.base
       /\ client' = [client EXCEPT ![c].pc = "release", ![c].temp = z.mem_addr]
  /\ UNCHANGED <<phase, scan, list, filled, live, heap>>

\* Under list_lock: the struct with this mem_addr leaves the list.
Unlink(c) ==
  /\ phase = "in" /\ client[c].pc = "unlink" /\ ~Scanning
  /\ \E z \in linked :
       /\ z.mem_addr = client[c].b.base
       /\ linked' = linked \ {z}
       /\ client' = [client EXCEPT ![c].pc = "release", ![c].temp = z.mem_addr]
  /\ UNCHANGED <<phase, scan, flag, told, filled, live, heap>>

\* After the unlock: the buffer, the struct, then the area.
Release(c) ==
  /\ Step(c, "release", "area")
  /\ infos' = infos \ {client[c].temp}
  /\ structs' = structs \ {client[c].temp}
  /\ UNCHANGED <<phase, scan, list, filled, live, lost, areas>>

\* Whoever gets the area next may write anything to it.
FreeArea(c) ==
  /\ Step(c, "area", "idle")
  /\ areas' = areas \ {client[c].b}
  /\ filled' = filled \ Area(client[c].b)
  /\ UNCHANGED <<phase, scan, list, live, lost, infos, structs>>

\* A client writes a cell of its block's area: an 'a', or another byte.
Write ==
  \E b \in live : \E x \in Area(b) :
    /\ phase = "in"
    /\ filled' = IF x \in filled THEN filled \ {x} ELSE filled \cup {x}
    /\ UNCHANGED <<phase, scan, list, client, live, heap>>

-----------------------------------------------------------------------------
(* The scanning thread and the module.                                      *)

\* kthread_should_stop is asked before the sleep, not after it.
Sleep ==
  /\ thread = "top"
  /\ thread' = IF phase = "stopping" THEN "done" ELSE "sleep"
  /\ UNCHANGED <<phase, todo, list, filled, client, live, heap>>

Wake ==
  /\ thread = "sleep"
  /\ thread' = "scan" /\ todo' = linked
  /\ UNCHANGED <<phase, list, filled, client, live, heap>>

\* Mutant: the scan ends at the first zone reported before.
CheckZoneBreaks ==
  \E z \in todo :
    /\ Scanning
    /\ todo' = IF z \in flag THEN {} ELSE todo \ {z}
    /\ flag' = IF z \notin flag /\ ~Pristine(z) THEN flag \cup {z} ELSE flag
    /\ told' = IF z \notin flag /\ ~Pristine(z) THEN told \cup {z} ELSE told
    /\ UNCHANGED <<phase, thread, linked, filled, client, live, heap>>

\* A zone not reported yet, with a byte that is no 'a', is reported.
CheckZone ==
  \E z \in todo :
    /\ Scanning
    /\ todo' = todo \ {z}
    /\ flag' = IF z \notin flag /\ ~Pristine(z) THEN flag \cup {z} ELSE flag
    /\ told' = IF z \notin flag /\ ~Pristine(z) THEN told \cup {z} ELSE told
    /\ UNCHANGED <<phase, thread, linked, filled, client, live, heap>>

EndScan ==
  /\ Scanning /\ todo = {}
  /\ thread' = "top"
  /\ UNCHANGED <<phase, todo, list, filled, client, live, heap>>

\* A fresh image: an empty list.  (When kthread_run fails the module stays out.)
Load ==
  /\ phase = "out"
  /\ phase' = "in" /\ thread' = "top"
  /\ linked' = {} /\ flag' = {} /\ told' = {}
  /\ live' = {} /\ lost' = lost \cup live
  /\ UNCHANGED <<todo, filled, client, areas, infos, structs>>

\* rmmod, once no client's module is left ...
Exit ==
  /\ phase = "in" /\ \A c \in Client : client[c] = Idle
  /\ phase' = "stopping"
  /\ UNCHANGED <<scan, list, filled, client, live, heap>>

\* ... and kthread_stop waits for the thread.  The list is left as it is.
Stopped ==
  /\ phase = "stopping" /\ thread = "done"
  /\ phase' = "out" /\ thread' = "none"
  /\ UNCHANGED <<todo, list, filled, client, live, heap>>

-----------------------------------------------------------------------------
ClientStep(c) ==
  \/ AllocArea(c) \/ AllocInfo(c) \/ AllocStruct(c) \/ AllocFails(c) \/ Link(c)
  \/ EnterFree(c) \/ Unlink(c) \/ Release(c) \/ FreeArea(c)

Check == Sleep \/ Wake \/ CheckZone \/ EndScan

Next ==
  \/ \E c \in Client : ClientStep(c)
  \/ Write \/ Check \/ Load \/ Exit \/ Stopped

Spec == Init /\ [][Next]_vars

\* The thread is scheduled, wakes up and is waited for; clients need not move.
FairSpec == Spec /\ WF_vars(Check) /\ WF_vars(Stopped)

-----------------------------------------------------------------------------
(* Properties.                                                              *)

InCall(pcs) == {client[c].b : c \in {d \in Client : client[d].pc \in pcs}}
Bases(S) == {b.base : b \in S}

\* The blocks whose zone the list must hold: those in use, and those whose
\* free has not reached list_del.
Guarded == live \cup InCall({"unlink"})

\* Every variable has its type.
RearTypeOK ==
  /\ phase \in {"out", "in", "stopping"}
  /\ thread \in {"none", "top", "sleep", "scan", "done"}
  /\ linked \subseteq {ZoneOf(b) : b \in Block}
  /\ todo \subseteq {ZoneOf(b) : b \in Block}
  /\ flag \subseteq {ZoneOf(b) : b \in Block}
  /\ told \subseteq {ZoneOf(b) : b \in Block}
  /\ filled \subseteq Cell
  /\ client \in [Client -> [pc : {"idle", "info", "struct", "link", "unlink",
                                    "release", "area"},
                             b : Block \cup {None}, temp : Cell \cup {None}]]
  /\ live \subseteq Block /\ lost \subseteq Block /\ areas \subseteq Block
  /\ infos \subseteq Cell /\ structs \subseteq Cell

\* The list holds the zone of every block in use and nothing else, and no two
\* structs on it have the same mem_addr: what lets a free find its own struct,
\* whatever was linked or unlinked between its allocation and its free.
ZoneOfBlock ==
  /\ linked = {ZoneOf(b) : b \in Guarded}
  /\ \A y, z \in linked : y.mem_addr = z.mem_addr => y = z

\* A scan follows no pointer into freed memory: struct, buffer and bytes of
\* every zone it can still come to are allocated.
ScanReadsAllocated ==
  \A z \in linked \cup todo :
    /\ z.mem_addr \in infos /\ z.mem_addr \in structs
    /\ \E b \in areas : b.base = z.mem_addr /\ ZoneCells(z) \subseteq Area(b)

\* A client that keeps to what it asked for writes neither a zone nor anybody
\* else's memory.  (__nget_free_pages takes its zone out of the pages asked
\* for: "it sometimes reports an overflow by mistake", line 404.)
AskedFits ==
  \A b \in live :
    /\ b.req[1] # "inside" => Asked(b) \subseteq Area(b) \ GuardCells(b)
    /\ \A d \in areas \ {b} : Area(b) \cap Area(d) = {}

\* Every allocation is answered for: it belongs to a block in use, to a call
\* under way, or to a call that failed half-way.
MemoryAccounted ==
  /\ areas = live \cup lost \cup {client[c].b : c \in {d \in Client : client[d] # Idle}}
  /\ lost \cap live = {}
  /\ Bases(live \cup InCall({"link", "unlink", "release"})) \subseteq structs
  /\ Bases(live \cup InCall({"struct", "link", "unlink", "release"})) \subseteq infos
  /\ structs \subseteq Bases(areas) /\ infos \subseteq Bases(areas)

\* Every overflow check_iso prints is marked, so that the next scan passes over
\* it (line 579), and a zone is marked for no other reason: not because of a
\* block that had the same address before.
MarkedIsReported == flag \cap linked = told \cap linked

\* Once rmmod has returned no thread of the module is left, and none runs twice.
ThreadGone == phase = "out" <=> thread = "none"

\* What the wrappers, the list and the thread do together is what
\* OverflowDetector says.
Detector == INSTANCE OverflowDetector WITH
  Zone <- {ZoneOf(b) : b \in Block},
  guards <- {{z} : z \in linked},
  broken <- {z \in linked : ~Pristine(z)},
  told <- [z \in linked |-> IF z \in told THEN 1 ELSE 0]

DetectorSpec == Detector!Spec

\* A zone that is overwritten and stays so is reported, unless its block is
\* freed or the module removed first.
OverflowReported ==
  \A x \in Cell :
    (phase = "in" /\ \E z \in linked : z.mem_addr = x /\ ~Pristine(z)) ~>
      \/ phase # "in"
      \/ ~\E z \in linked : z.mem_addr = x /\ ~Pristine(z)
      \/ \E z \in told : z.mem_addr = x
-----------------------------------------------------------------------------
(* Why: an inductive invariant behind the above, in terms of single calls,  *)
(* blocks and structs.                                                      *)

\* A call's block belongs to no one else; how much of what was allocated for it
\* is there depends on how far the call has come.
CallOK(c) ==
  LET v == client[c]  base == v.b.base IN
    /\ v.pc = "idle" => v = Idle
    /\ v.pc # "idle" => phase = "in" /\ v.b \in areas \ (live \cup lost)
    /\ v.pc \in {"link", "unlink", "release"} => base \in structs
    /\ v.pc \in {"info", "struct", "area"} => base \notin structs
    /\ v.pc \in {"struct", "link", "unlink", "release"} => base \in infos
    /\ v.pc \in {"info", "area"} => base \notin infos
    /\ v.pc \in {"info", "struct", "link"} => GuardCells(v.b) \subseteq filled
    /\ v.pc = "release" => v.temp = base

CallInv ==
  /\ \A c \in Client : CallOK(c)
  /\ \A c, d \in Client :
       c # d /\ client[c].pc # "idle" /\ client[d].pc # "idle" =>
         client[c].b # client[d].b

\* Areas are apart, and each is somebody's.
HeapInv ==
  /\ \A b \in areas : Area(b) \subseteq Cell
  /\ \A b, d \in areas : b # d => Area(b) \cap Area(d) = {}
  /\ live \cup lost \subseteq areas /\ live \cap lost = {}
  /\ \A b \in areas :
       b \in live \cup lost \/ \E c \in Client : client[c].pc # "idle" /\ client[c].b = b
  /\ \A b \in live : b.base \in structs /\ b.base \in infos
  /\ \A x \in structs \cup infos : \E b \in areas : b.base = x

\* A struct is linked from the return of its block to the unlink of its free.
ListInv ==
  /\ \A b \in live : ZoneOf(b) \in linked
  /\ \A c \in Client : client[c].pc = "unlink" => ZoneOf(client[c].b) \in linked
  /\ \A z \in linked :
       \/ \E b \in live : z = ZoneOf(b)
       \/ \E c \in Client : client[c].pc = "unlink" /\ z = ZoneOf(client[c].b)
  /\ MarkedIsReported

\* A scan keeps the list as it found it.
ThreadInv ==
  /\ ThreadGone /\ (thread = "done" => phase = "stopping")
  /\ todo \subseteq linked /\ (todo # {} => Scanning)

RearInv == RearTypeOK /\ CallInv /\ HeapInv /\ ListInv /\ ThreadInv
=============================================================================
