------------------------------- MODULE IsoZone -------------------------------
(***************************************************************************)
(* mem_overflow_check.c (mem_overflow/code): wrappers of the kernel's      *)
(* allocators put an isolation zone filled with 'a' on each side of every  *)
(* block, and a kernel thread scans the list of zones for a changed byte.  *)
(*                                                                         *)
(* Memory is an arena of cells; a cell of a zone is one byte of it.  The   *)
(* list, its lock, every allocation a wrapper makes and each way it fails, *)
(* and the thread's start, scan and stop are those of the code.  A client  *)
(* frees only what a wrapper returned to it, with the matching wrapper and *)
(* once, and writes no further than the area its block lies in.            *)
(***************************************************************************)
EXTENDS Integers, Sequences, SequencesExt, FiniteSetsExt

CONSTANTS
  NCells,    \* the arena is 0 .. NCells - 1
  Iso,       \* ISOSIZE_KMALLOC, _VMALLOC, _DMA, _GFPS, _PAGE: all the same
  PageSize,  \* PAGE_SIZE
  Request,   \* the requests clients make: a wrapper's layout and its size or order
  Client,    \* threads that call the wrappers
  None

ASSUME IsoAssumption ==
  /\ NCells \in Nat /\ Iso \in Nat \ {0}
  /\ PageSize \in Nat /\ PageSize >= 2 * Iso /\ PageSize % 2 = 0
  /\ Request \subseteq {"bytes", "doubling", "inside"} \X Nat
  /\ \A r \in Request : 2^r[2] \in Nat \ {0} /\ 2^(r[2] + 1) = 2 * 2^r[2]
  /\ None \notin [req : Request, base : 0 .. NCells - 1]

Cell == 0 .. NCells - 1

----------------------------------------------------------------------------
(* Where a wrapper puts the zones: the cells it asks the kernel for, the   *)
(* cells of a zone, and where the rear one begins.                         *)

\* skmalloc, svmalloc, sdma_alloc_coherent, __get_free_pages_ex.
BytesLayout(size) == [total |-> size + 2 * Iso, zone |-> Iso, rear |-> Iso + size]

\* Mutant: the rear zone begins where the pages asked for would end without the
\* front one.
DoublingLayoutLow(order) ==
  LET need == 2^order * PageSize
  IN  [total |-> 2^(order + 1) * PageSize, zone |-> need \div 2, rear |-> need]

\* __sget_free_pages: twice the pages, half of them zones.
DoublingLayout(order) ==
  LET need == 2^order * PageSize
      half == need \div 2
  IN  [total |-> 2^(order + 1) * PageSize, zone |-> half, rear |-> need + half]

\* __nget_free_pages: no more pages than asked for, the zones inside them.
InsideLayout(order) ==
  [total |-> 2^order * PageSize, zone |-> Iso, rear |-> 2^order * PageSize - Iso]

Layout(r) == CASE r[1] = "bytes" -> BytesLayout(r[2])
               [] r[1] = "doubling" -> DoublingLayout(r[2])
               [] r[1] = "inside" -> InsideLayout(r[2])

\* A block: the request, and where the area the kernel gave for it begins.
Block == [req : Request, base : Cell]

Area(b) == b.base .. b.base + Layout(b.req).total - 1

\* What the client is given of it, and may use: from ret, as much as it asked for.
Asked(b) ==
  LET ret == b.base + Layout(b.req).zone
      size == IF b.req[1] = "bytes" THEN b.req[2] ELSE 2^b.req[2] * PageSize
  IN  ret .. ret + size - 1

\* struct iso_zone, without list and flag.  "a" stands for the array of the
\* two structs and for the buffer of callerinfo they share.
Zone == [addr : Cell, size : 1 .. NCells, a : Cell]

FirstZone(b) == [addr |-> b.base, size |-> Layout(b.req).zone, a |-> b.base]
SecondZone(b) == [FirstZone(b) EXCEPT !.addr = b.base + Layout(b.req).rear]

ZoneCells(z) == z.addr .. z.addr + z.size - 1
GuardCells(b) == ZoneCells(FirstZone(b)) \cup ZoneCells(SecondZone(b))

----------------------------------------------------------------------------
VARIABLES
  phase,    \* the module: "out", "in", "stopping"
  thread,   \* checklist: "none", "top", "sleep", "scan", "done"
  cursor,   \* where check_iso is in the list
  isoList,  \* iso_head
  flag,     \* the zones whose flag is set, by address
  filled,   \* the cells that hold an 'a'
  client,   \* what each client's call is about to do, its block, the struct found
  live,     \* blocks the clients own
  lost,     \* blocks whose area no pointer leads to any more
  areas,    \* areas the kernel gave and did not get back
  infos,    \* allocated callerinfo buffers
  arrays,   \* allocated pairs of structs
  told      \* how often check_iso reported each zone

vars == <<phase, thread, cursor, isoList, flag, filled, client, live, lost,
          areas, infos, arrays, told>>
heap == <<areas, infos, arrays, lost>>

Idle == [pc |-> "idle", b |-> None, temp |-> None]
Listed == ToSet(isoList)
Scanning == thread = "scan"   \* check_iso holds list_lock
Pristine(z) == ZoneCells(z) \subseteq filled

Init ==
  /\ phase = "out" /\ thread = "none" /\ cursor = 1 /\ isoList = <<>>
  /\ flag = {} /\ filled = {}
  /\ client = [c \in Client |-> Idle] /\ live = {} /\ lost = {}
  /\ areas = {} /\ infos = {} /\ arrays = {}
  /\ told = [x \in Cell |-> 0]

Step(c, from, to) ==
  /\ phase = "in" /\ client[c].pc = from
  /\ client' = [client EXCEPT ![c] = IF to = "idle" THEN Idle ELSE [@ EXCEPT !.pc = to]]

----------------------------------------------------------------------------
(* The allocating wrappers, from the kernel's allocation to list_add.      *)

\* The kernel's part: memory nobody has; pages where pages begin.
Obtainable(b) ==
  /\ Area(b) \subseteq Cell
  /\ \A other \in areas : Area(other) \cap Area(b) = {}
  /\ b.req[1] \in {"doubling", "inside"} => b.base % PageSize = 0

\* The kernel gives the area, anything in it, and both zones are filled.  (When
\* it gives none the wrapper returns NULL and nothing has happened.)
AllocArea(c) ==
  \E b \in Block :
    /\ phase = "in" /\ client[c] = Idle
    /\ Obtainable(b)
    /\ areas' = areas \cup {b}
    /\ filled' = (filled \ Area(b)) \cup GuardCells(b)
    /\ client' = [client EXCEPT ![c] = [Idle EXCEPT !.pc = "info", !.b = b]]
    /\ UNCHANGED <<phase, thread, cursor, isoList, flag, live, lost, infos,
                   arrays, told>>

AllocInfo(c) ==
  /\ Step(c, "info", "array")
  /\ infos' = infos \cup {client[c].b.base}
  /\ UNCHANGED <<phase, thread, cursor, isoList, flag, filled, live, lost,
                 areas, arrays, told>>

AllocArray(c) ==
  /\ Step(c, "array", "link")
  /\ arrays' = arrays \cup {client[c].b.base}
  /\ UNCHANGED <<phase, thread, cursor, isoList, flag, filled, live, lost,
                 areas, infos, told>>

\* No memory for the buffer, or for the structs: NULL is returned and nothing
\* that was allocated before is given back.
AllocFails(c) ==
  /\ Step(c, "info", "idle") \/ Step(c, "array", "idle")
  /\ lost' = lost \cup {client[c].b}
  /\ UNCHANGED <<phase, thread, cursor, isoList, flag, filled, live, areas,
                 infos, arrays, told>>

\* list_add puts a[0], then a[1], at the head; the block is returned.
Link(c) ==
  LET b == client[c].b IN
    /\ Step(c, "link", "idle")
    /\ ~Scanning
    /\ isoList' = <<SecondZone(b), FirstZone(b)>> \o isoList
    /\ flag' = flag \ {FirstZone(b).addr, SecondZone(b).addr}
    /\ told' = [told EXCEPT ![FirstZone(b).addr] = 0, ![SecondZone(b).addr] = 0]
    /\ live' = live \cup {b}
    /\ UNCHANGED <<phase, thread, cursor, filled, lost, areas, infos, arrays>>

----------------------------------------------------------------------------
(* The freeing wrappers.                                                   *)

EnterFree(c) ==
  \E b \in live :
    /\ phase = "in" /\ client[c] = Idle
    /\ client' = [client EXCEPT ![c] = [Idle EXCEPT !.pc = "unlink", !.b = b]]
    /\ live' = live \ {b}
    /\ UNCHANGED <<phase, thread, cursor, isoList, flag, filled, lost, areas,
                   infos, arrays, told>>

\* Mutant: either zone of the block will do.
FoundAtEither(b) ==
  Min({i \in 1 .. Len(isoList) : isoList[i].addr \in {b.base, SecondZone(b).addr}})

\* Where the scan for iso1_addr stops.
FoundAt(b) == Min({i \in 1 .. Len(isoList) : isoList[i].addr = b.base})

\* Mutant: only "pos" leaves the list.
UnlinkFirstOnly(c) ==
  LET i == FoundAt(client[c].b) IN
    /\ phase = "in" /\ client[c].pc = "unlink"
    /\ ~Scanning
    /\ client' = [client EXCEPT ![c].pc = "release", ![c].temp = isoList[i].a]
    /\ isoList' = RemoveAt(isoList, i)
    /\ UNCHANGED <<phase, thread, cursor, flag, filled, live, told, heap>>

\* Under list_lock: the struct found and the one before it leave the list.
Unlink(c) ==
  LET i == FoundAt(client[c].b) IN
    /\ phase = "in" /\ client[c].pc = "unlink"
    /\ ~Scanning
    /\ client' = [client EXCEPT ![c].pc = "release", ![c].temp = isoList[i].a]
    /\ isoList' = SubSeq(isoList, 1, i - 2) \o SubSeq(isoList, i + 1, Len(isoList))
    /\ UNCHANGED <<phase, thread, cursor, flag, filled, live, told, heap>>

\* After the unlock: the buffer, the structs, then the area.
Release(c) ==
  /\ Step(c, "release", "area")
  /\ infos' = infos \ {client[c].temp}
  /\ arrays' = arrays \ {client[c].temp}
  /\ UNCHANGED <<phase, thread, cursor, isoList, flag, filled, live, lost,
                 areas, told>>

\* Mutant: the area is not given back.
FreeAreaLeaks(c) ==
  /\ Step(c, "area", "idle")
  /\ UNCHANGED <<phase, thread, cursor, isoList, flag, filled, live, told, heap>>

\* Whoever gets the area next may write anything to it.
FreeArea(c) ==
  /\ Step(c, "area", "idle")
  /\ areas' = areas \ {client[c].b}
  /\ filled' = filled \ Area(client[c].b)
  /\ UNCHANGED <<phase, thread, cursor, isoList, flag, live, lost, infos,
                 arrays, told>>

\* A client writes a cell of its block's area: an 'a', or another byte.
Write ==
  \E b \in live : \E x \in Area(b) :
    /\ phase = "in"
    /\ filled' = IF x \in filled THEN filled \ {x} ELSE filled \cup {x}
    /\ UNCHANGED <<phase, thread, cursor, isoList, flag, client, live, told,
                   heap>>

----------------------------------------------------------------------------
(* The scanning thread.                                                    *)

\* Mutant: nobody asks kthread_should_stop.
SleepForever ==
  /\ thread = "top"
  /\ thread' = "sleep"
  /\ UNCHANGED <<phase, cursor, isoList, flag, filled, client, live, told, heap>>

\* kthread_should_stop is asked before the sleep, not after it.
Sleep ==
  /\ thread = "top"
  /\ thread' = IF phase = "stopping" THEN "done" ELSE "sleep"
  /\ UNCHANGED <<phase, cursor, isoList, flag, filled, client, live, told, heap>>

Wake ==
  /\ thread = "sleep"
  /\ thread' = "scan" /\ cursor' = 1
  /\ UNCHANGED <<phase, isoList, flag, filled, client, live, told, heap>>

\* Mutants: the flag is not set; a zone reported before ends the scan.
CheckZoneNoFlag ==
  /\ Scanning /\ cursor <= Len(isoList)
  /\ LET z == isoList[cursor]
         overflow == z.addr \notin flag /\ ~Pristine(z)
     IN  told' = [told EXCEPT ![z.addr] = IF overflow THEN @ + 1 ELSE @]
  /\ cursor' = cursor + 1
  /\ UNCHANGED <<phase, thread, isoList, flag, filled, client, live, heap>>

CheckZoneBreaks ==
  /\ Scanning /\ cursor <= Len(isoList)
  /\ LET z == isoList[cursor]
         overflow == z.addr \notin flag /\ ~Pristine(z)
     IN  /\ flag' = IF overflow THEN flag \cup {z.addr} ELSE flag
         /\ told' = [told EXCEPT ![z.addr] = IF overflow THEN @ + 1 ELSE @]
         /\ cursor' = IF z.addr \in flag THEN Len(isoList) + 1 ELSE cursor + 1
  /\ UNCHANGED <<phase, thread, isoList, filled, client, live, heap>>

\* A zone not reported yet, with a byte that is no 'a', is reported.
CheckZone ==
  /\ Scanning /\ cursor <= Len(isoList)
  /\ LET z == isoList[cursor]
         overflow == z.addr \notin flag /\ ~Pristine(z)
     IN  /\ flag' = IF overflow THEN flag \cup {z.addr} ELSE flag
         /\ told' = [told EXCEPT ![z.addr] = IF overflow THEN @ + 1 ELSE @]
  /\ cursor' = cursor + 1
  /\ UNCHANGED <<phase, thread, isoList, filled, client, live, heap>>

EndScan ==
  /\ Scanning /\ cursor > Len(isoList)
  /\ thread' = "top" /\ cursor' = 1
  /\ UNCHANGED <<phase, isoList, flag, filled, client, live, told, heap>>

----------------------------------------------------------------------------
(* The module.                                                             *)

\* A fresh image: an empty list, and no trace of the blocks of an earlier one
\* that were never freed.  (When kthread_run fails, the module stays out.)
Load ==
  /\ phase = "out"
  /\ phase' = "in" /\ thread' = "top" /\ isoList' = <<>> /\ flag' = {}
  /\ live' = {} /\ lost' = lost \cup live
  /\ told' = [x \in Cell |-> 0]
  /\ UNCHANGED <<cursor, filled, client, areas, infos, arrays>>

\* rmmod, once no client's module is left: kmalloc_exit asks the thread to stop ...
Exit ==
  /\ phase = "in" /\ \A c \in Client : client[c] = Idle
  /\ phase' = "stopping"
  /\ UNCHANGED <<thread, cursor, isoList, flag, filled, client, live, told, heap>>

\* ... and kthread_stop waits for it.  The list is left as it is.
Stopped ==
  /\ phase = "stopping" /\ thread = "done"
  /\ phase' = "out" /\ thread' = "none"
  /\ UNCHANGED <<cursor, isoList, flag, filled, client, live, told, heap>>

----------------------------------------------------------------------------
ClientStep(c) ==
  \/ AllocArea(c) \/ AllocInfo(c) \/ AllocArray(c) \/ AllocFails(c) \/ Link(c)
  \/ EnterFree(c) \/ Unlink(c) \/ Release(c) \/ FreeArea(c)

Check == Sleep \/ Wake \/ CheckZone \/ EndScan

Next ==
  \/ \E c \in Client : ClientStep(c)
  \/ Write \/ Check \/ Load \/ Exit \/ Stopped

Spec == Init /\ [][Next]_vars

\* The thread is scheduled, wakes up and is waited for; clients need not move.
FairSpec == Spec /\ WF_vars(Check) /\ WF_vars(Stopped)

----------------------------------------------------------------------------
(* Properties.                                                             *)

InCall(pcs) == {client[c].b : c \in {d \in Client : client[d].pc \in pcs}}
Bases(S) == {b.base : b \in S}

\* The blocks whose zones the list must hold: those in use, and those whose
\* free has not reached list_del.
Guarded == live \cup InCall({"unlink"})

IsoTypeOK ==
  /\ phase \in {"out", "in", "stopping"}
  /\ thread \in {"none", "top", "sleep", "scan", "done"}
  /\ cursor \in 1 .. Len(isoList) + 1
  /\ isoList \in Seq(Zone)
  /\ flag \subseteq Cell /\ filled \subseteq Cell
  /\ client \in [Client -> [pc : {"idle", "info", "array", "link", "unlink",
                                   "release", "area"},
                            b : Block \cup {None}, temp : Cell \cup {None}]]
  /\ live \subseteq Block /\ lost \subseteq Block /\ areas \subseteq Block
  /\ infos \subseteq Cell /\ arrays \subseteq Cell
  /\ told \in [Cell -> Nat]

\* The list holds both zones of every block in use, next to each other with
\* the rear one first, and nothing else: what lets a free drop "pos" and
\* "pos->prev" and hit its own two structs, whatever was linked or unlinked
\* between its allocation and its free.
ZonesOfBlocks ==
  /\ Listed = {FirstZone(b) : b \in Guarded} \cup {SecondZone(b) : b \in Guarded}
  /\ Len(isoList) = 2 * Cardinality(Guarded)
  /\ \A b \in Guarded : \E i \in 2 .. Len(isoList) :
       isoList[i] = FirstZone(b) /\ isoList[i - 1] = SecondZone(b)

\* A scan follows no pointer into freed memory: the struct, the buffer and the
\* bytes of every linked zone are allocated, and no two blocks share a cell.
ScanReadsAllocated ==
  /\ \A z \in Listed :
       /\ z.a \in infos /\ z.a \in arrays
       /\ \E b \in areas : b.base = z.a /\ ZoneCells(z) \subseteq Area(b)
  /\ \A b, d \in areas : b # d => Area(b) \cap Area(d) = {}

\* A client that keeps to what it asked for writes neither a zone nor anybody
\* else's memory.  (__nget_free_pages takes its zones out of the pages asked
\* for; it is left out.)
AskedFits ==
  \A b \in live : b.req[1] # "inside" =>
    Asked(b) \subseteq Area(b) \ GuardCells(b)

\* Every allocation is answered for: it belongs to a block in use, to a call
\* under way, or to a call that failed half-way.
MemoryAccounted ==
  /\ areas = live \cup lost \cup {client[c].b : c \in {d \in Client : client[d] # Idle}}
  /\ lost \cap live = {}
  /\ Bases(live \cup InCall({"link", "unlink", "release"})) \subseteq arrays
  /\ Bases(live \cup InCall({"array", "link", "unlink", "release"})) \subseteq infos
  /\ arrays \subseteq Bases(areas) /\ infos \subseteq Bases(areas)

\* Once rmmod has returned no thread of the module is left to read the list,
\* and none ever runs twice.
ThreadGone == phase = "out" <=> thread = "none"

\* The wrappers, the list and the thread do for their clients what
\* OverflowDetector says: every block returned is guarded until it is freed,
\* only an overwritten guard is reported, and that once.
Guards == {{z \in Listed : z.a = x} : x \in {y.a : y \in Listed}}

Detector == INSTANCE OverflowDetector WITH
  guards <- Guards,
  broken <- {z \in Listed : ~Pristine(z)},
  told <- [z \in Listed |-> told[z.addr]]

DetectorSpec == Detector!Spec

\* A guard that is overwritten and stays so is reported, unless its block is
\* freed or the module removed first.
Overflowed(x) == \E z \in Listed : z.addr = x /\ ~Pristine(z)

OverflowReported ==
  \A x \in Cell : phase = "in" /\ Overflowed(x) ~>
    phase # "in" \/ ~Overflowed(x) \/ told[x] > 0

\* kthread_stop returns: rmmod ends.
ExitEnds == phase = "stopping" ~> phase = "out"
----------------------------------------------------------------------------
(* Why: an inductive invariant behind the above.                           *)

\* A call's block belongs to no one else; how much of what was allocated for it
\* is there depends on how far the call has come.
CallOK(c) ==
  LET v == client[c]  base == v.b.base IN
    /\ v.pc = "idle" => v = Idle
    /\ v.pc # "idle" => phase = "in" /\ v.b \in areas \ (live \cup lost)
    /\ v.pc \in {"link", "unlink", "release"} => base \in arrays
    /\ v.pc \in {"info", "array", "area"} => base \notin arrays
    /\ v.pc \in {"array", "link", "unlink", "release"} => base \in infos
    /\ v.pc \in {"info", "area"} => base \notin infos
    /\ v.pc \in {"info", "array", "link"} => GuardCells(v.b) \subseteq filled
    /\ v.pc = "release" => v.temp = base

CallInv ==
  /\ \A c \in Client : CallOK(c)
  /\ \A c, d \in Client :
       c # d /\ client[c].pc # "idle" /\ client[d].pc # "idle" =>
         client[c].b # client[d].b

\* Areas are apart, and each is somebody's.
HeapInv ==
  /\ \A b \in areas : Area(b) \subseteq Cell
  /\ \A b, d \in areas : b # d => Area(b) \cap Area(d) = {}
  /\ live \cup lost \subseteq areas /\ live \cap lost = {}
  /\ \A b \in areas :
       b \in live \cup lost \/ \E c \in Client : client[c].pc # "idle" /\ client[c].b = b
  /\ \A b \in live : b.base \in arrays /\ b.base \in infos
  /\ \A x \in arrays \cup infos : \E b \in areas : b.base = x

\* The list is the pairs of structs of the blocks in some order, each once.
Pairs(n, order) ==
  /\ Len(isoList) = 2 * n
  /\ \A k \in 1 .. n : isoList[2 * k - 1] = SecondZone(order[k])
                       /\ isoList[2 * k] = FirstZone(order[k])
  /\ \A j, k \in 1 .. n : order[j] = order[k] => j = k
  /\ \A b \in Guarded : \E k \in 1 .. n : order[k] = b

\* A zone was reported once if its flag is set, else never: not because of a
\* zone that had the same address before.
ListInv ==
  /\ \E n \in 0 .. Len(isoList) : \E order \in [1 .. n -> Guarded] : Pairs(n, order)
  /\ \A z \in Listed : told[z.addr] = IF z.addr \in flag THEN 1 ELSE 0

\* The list is read from its head, in the scan only.
ThreadInv ==
  /\ ThreadGone /\ (thread = "done" => phase = "stopping")
  /\ ~Scanning => cursor = 1

\* What the list, the thread and the wrappers rely on between their steps.
IsoInv == IsoTypeOK /\ ZonesOfBlocks /\ CallInv /\ HeapInv /\ ListInv /\ ThreadInv
=============================================================================
