---------------------------- MODULE RearZoneProofs ----------------------------
(***************************************************************************)
(* Proofs about RearZone, for every arena, size of zone, set of requests   *)
(* and set of clients.                                                     *)
(***************************************************************************)
EXTENDS RearZone, TLAPS

-----------------------------------------------------------------------------
(* Layouts.                                                                 *)

LEMMA TimesPositive ==
  ASSUME NEW m \in Nat \ {0}, NEW n \in Nat \ {0}
  PROVE  m * n \in Nat /\ m * n >= n
OBVIOUS

\* The zone of a layout is not empty and ends with the area.
LEMMA LayoutFits ==
  ASSUME NEW r \in Request
  PROVE  /\ Layout(r).total \in Nat \ {0}
         /\ Layout(r).rear \in Nat /\ Layout(r).zone \in Nat \ {0}
         /\ Layout(r).rear + Layout(r).zone = Layout(r).total
<1> DEFINE need == 2^r[2] * PageSize
<1>1. /\ r[1] \in {"bytes", "doubling", "inside"} /\ r[2] \in Nat
      /\ Iso \in Nat \ {0} /\ PageSize \in Nat \ {0} /\ PageSize > Iso
      /\ 2^r[2] \in Nat \ {0} /\ 2^(r[2] + 1) = 2 * 2^r[2]
  BY RearAssumption
<1>2. need \in Nat /\ need >= PageSize
  BY <1>1, TimesPositive
<1>3. 2^(r[2] + 1) * PageSize = 2 * need
  BY <1>1
<1> HIDE DEF need
<1>4. CASE r[1] = "bytes"
  BY <1>1, <1>4 DEF Layout, BytesLayout
<1>5. CASE r[1] = "doubling"
  <2>1. Layout(r) = [total |-> 2 * need, rear |-> need, zone |-> need]
    BY <1>3, <1>5 DEF Layout, DoublingLayout, need
  <2> QED  BY <2>1, <1>1, <1>2
<1>6. CASE r[1] = "inside"
  <2>1. Layout(r) = [total |-> need, rear |-> need - Iso, zone |-> Iso]
    BY <1>6 DEF Layout, InsideLayout, need
  <2> QED  BY <2>1, <1>1, <1>2
<1> QED  BY <1>1, <1>4, <1>5, <1>6

\* r cells and then z more, from a on.
LEMMA TwoParts ==
  ASSUME NEW a \in Nat, NEW r \in Nat, NEW z \in Nat \ {0}
  PROVE  /\ a \in a .. a + (r + z) - 1
         /\ a + r .. a + r + z - 1 \subseteq a .. a + (r + z) - 1
         /\ a .. a + r - 1 \subseteq (a .. a + (r + z) - 1) \ (a + r .. a + r + z - 1)
OBVIOUS

\* The area of a block is what comes before its zone, and the zone.
LEMMA AreaParts ==
  ASSUME NEW b \in Block
  PROVE  LET r == Layout(b.req).rear  z == Layout(b.req).zone IN
           /\ b.req \in Request /\ b.base \in Cell /\ b.base \in Nat
           /\ r \in Nat /\ z \in Nat \ {0}
           /\ Area(b) = b.base .. b.base + (r + z) - 1
           /\ GuardCells(b) = b.base + r .. b.base + r + z - 1
<1>1. b.req \in Request /\ b.base \in Cell /\ Cell \subseteq Nat
  BY RearAssumption DEF Block, Cell
<1> QED  BY <1>1, LayoutFits DEF Area, GuardCells, ZoneCells, ZoneOf

\* A block's address and its zone lie in its area.
LEMMA BlockFits ==
  ASSUME NEW b \in Block
  PROVE  /\ b.base \in Cell /\ b.base \in Area(b)
         /\ ZoneOf(b).mem_addr = b.base
         /\ GuardCells(b) = ZoneCells(ZoneOf(b)) /\ GuardCells(b) \subseteq Area(b)
<1>1. b.base \in Area(b) /\ GuardCells(b) \subseteq Area(b)
  BY AreaParts, TwoParts
<1> QED  BY <1>1, AreaParts DEF ZoneOf, GuardCells

\* What a client asked for ends before the zone.
LEMMA AskedBeforeZone ==
  ASSUME NEW b \in Block, b.req[1] # "inside"
  PROVE  Asked(b) \subseteq Area(b) \ GuardCells(b)
<1>1. b.req[1] \in {"bytes", "doubling"}
  BY AreaParts, RearAssumption
<1>2. Asked(b) = b.base .. b.base + Layout(b.req).rear - 1
  BY <1>1 DEF Asked, Layout, BytesLayout, DoublingLayout
<1> QED  BY <1>2, AreaParts, TwoParts

\* Blocks that are allocated together differ in their addresses.
LEMMA BaseIsBlock ==
  ASSUME RearTypeOK, HeapInv, NEW b \in areas, NEW d \in areas, b.base = d.base
  PROVE  b = d
<1>1. b \in Block /\ d \in Block
  BY DEF RearTypeOK
<1>2. b.base \in Area(b) /\ d.base \in Area(d)
  BY <1>1, BlockFits
<1> QED  BY <1>2 DEF HeapInv

-----------------------------------------------------------------------------
(* The inductive invariant: the initial states, then the steps of a call.   *)

Call == [pc : {"idle", "info", "struct", "link", "unlink", "release", "area"},
         b : Block \cup {None}, temp : Cell \cup {None}]

LEMMA InvInit == Init => RearInv
<1> SUFFICES ASSUME Init PROVE RearInv
  OBVIOUS
<1>1. \A c \in Client : client[c] = Idle
  BY DEF Init
<1>2. RearTypeOK
  BY DEF Init, RearTypeOK, Idle
<1>3. CallInv
  BY <1>1 DEF CallInv, CallOK, Idle
<1>4. HeapInv /\ ListInv /\ ThreadInv
  BY <1>1 DEF Init, HeapInv, ListInv, MarkedIsReported, ThreadInv, ThreadGone, Idle
<1> QED  BY <1>2, <1>3, <1>4 DEF RearInv

\* A call's record gets a new value; the others keep theirs.
LEMMA CallUpdate ==
  ASSUME RearTypeOK, NEW c \in Client, NEW v \in Call,
         client' = [client EXCEPT ![c] = v]
  PROVE  /\ client' \in [Client -> Call]
         /\ client'[c] = v /\ \A d \in Client \ {c} : client'[d] = client[d]
BY DEF RearTypeOK, Call

\* A step of a call that is under way keeps its block.
LEMMA StepUpdate ==
  ASSUME RearInv, NEW c \in Client,
         NEW from \in {"info", "struct", "link", "unlink", "release", "area"},
         NEW to \in {"struct", "link", "release", "area"},
         Step(c, from, to)
  PROVE  /\ client' \in [Client -> Call]
         /\ client[c].pc = from /\ client[c].b \in Block /\ client[c].b \in areas
         /\ client'[c].pc = to
         /\ client'[c].b = client[c].b /\ client'[c].temp = client[c].temp
         /\ \A d \in Client \ {c} : client'[d] = client[d]
<1> DEFINE v == [client[c] EXCEPT !.pc = to]
<1>1. client[c] \in Call /\ client[c].pc = from /\ client[c].b \in areas
  BY DEF RearInv, RearTypeOK, CallInv, CallOK, Step, Call
<1>2. v \in Call /\ v.pc = to /\ v.b = client[c].b /\ v.temp = client[c].temp
  BY <1>1 DEF Call
<1>3. client' = [client EXCEPT ![c] = v]
  BY DEF Step
<1>4. client[c].b \in Block
  BY <1>1 DEF RearInv, RearTypeOK
<1> HIDE DEF v
<1>5. /\ client' \in [Client -> Call]
      /\ client'[c] = v /\ \A d \in Client \ {c} : client'[d] = client[d]
  BY <1>2, <1>3, CallUpdate DEF RearInv
<1> QED  BY <1>1, <1>2, <1>4, <1>5

\* A call ends.
LEMMA EndUpdate ==
  ASSUME RearInv, NEW c \in Client,
         NEW from \in {"info", "struct", "link", "unlink", "release", "area"},
         Step(c, from, "idle")
  PROVE  /\ client' \in [Client -> Call]
         /\ client[c].pc = from /\ client[c].b \in Block /\ client[c].b \in areas
         /\ client'[c] = Idle /\ client'[c].pc = "idle"
         /\ \A d \in Client \ {c} : client'[d] = client[d]
<1>1. client[c] \in Call /\ client[c].pc = from /\ client[c].b \in areas
  BY DEF RearInv, RearTypeOK, CallInv, CallOK, Step, Call
<1>2. Idle \in Call /\ Idle.pc = "idle"
  BY DEF Call, Idle
<1>3. client' = [client EXCEPT ![c] = Idle]
  BY DEF Step
<1>4. client[c].b \in Block
  BY <1>1 DEF RearInv, RearTypeOK
<1>5. /\ client' \in [Client -> Call]
      /\ client'[c] = Idle /\ \A d \in Client \ {c} : client'[d] = client[d]
  BY <1>2, <1>3, CallUpdate DEF RearInv
<1> QED  BY <1>1, <1>2, <1>4, <1>5

\* The kernel gives an area that no allocated one touches.
LEMMA InvAllocArea ==
  ASSUME RearInv, NEW c \in Client, AllocArea(c)
  PROVE  RearInv'
<1>1. PICK b \in Block :
        /\ phase = "in" /\ client[c] = Idle
        /\ Obtainable(b)
        /\ areas' = areas \cup {b}
        /\ filled' = (filled \ Area(b)) \cup GuardCells(b)
        /\ client' = [client EXCEPT ![c] = [Idle EXCEPT !.pc = "info", !.b = b]]
        /\ UNCHANGED <<phase, scan, list, live, lost, infos, structs>>
  BY DEF AllocArea
<1> DEFINE v == [Idle EXCEPT !.pc = "info", !.b = b]
<1>2. v \in Call /\ v.pc = "info" /\ v.b = b /\ Idle.pc = "idle"
  BY DEF Call, Idle
<1>3. client' = [client EXCEPT ![c] = v]
  BY <1>1
<1> HIDE DEF v
<1>4. /\ client' \in [Client -> Call]
      /\ client'[c].pc = "info" /\ client'[c].b = b
      /\ \A d \in Client \ {c} : client'[d] = client[d]
  BY <1>2, <1>3, CallUpdate DEF RearInv
<1>5. /\ Area(b) \subseteq Cell /\ b.base \in Area(b) /\ GuardCells(b) \subseteq Area(b)
      /\ \A d \in areas : Area(d) \cap Area(b) = {} /\ d.base \in Area(d)
                           /\ GuardCells(d) \subseteq Area(d)
  BY <1>1, BlockFits DEF Obtainable, RearInv, RearTypeOK
<1>6. b \notin areas /\ b.base \notin structs /\ b.base \notin infos
  BY <1>5 DEF RearInv, HeapInv
<1>7. client[c].pc = "idle" /\ \A d \in Client : client[d].pc # "idle" => client[d].b \in areas
  BY <1>1, <1>2 DEF RearInv, CallInv, CallOK
<1>8. RearTypeOK'
  BY <1>1, <1>4, <1>5 DEF RearInv, RearTypeOK, Call, scan, list
<1>9. CallInv'
  <2>1. CallOK(c)'
    BY <1>1, <1>4, <1>5, <1>6 DEF CallOK, RearInv, HeapInv
  <2>2. ASSUME NEW d \in Client \ {c} PROVE CallOK(d)'
    BY <1>1, <1>4, <1>5, <1>7, <2>2 DEF CallOK, RearInv, CallInv
  <2> QED  BY <1>4, <1>6, <1>7, <2>1, <2>2 DEF RearInv, CallInv
<1>10. HeapInv'
  BY <1>1, <1>4, <1>5, <1>6, <1>7 DEF RearInv, HeapInv
<1>11. ListInv'
  BY <1>1, <1>2, <1>4 DEF RearInv, ListInv, MarkedIsReported, list
<1>12. ThreadInv'
  BY <1>1 DEF RearInv, ThreadInv, ThreadGone, Scanning, scan, list
<1> QED  BY <1>8, <1>9, <1>10, <1>11, <1>12 DEF RearInv

\* The buffer and the struct are this call's own.
LEMMA InvAllocInfo ==
  ASSUME RearInv, NEW c \in Client, AllocInfo(c)
  PROVE  RearInv'
<1> DEFINE b == client[c].b
<1>1. /\ client' \in [Client -> Call] /\ b \in Block /\ b \in areas
      /\ client[c].pc = "info" /\ client'[c].pc = "struct" /\ client'[c].b = b
      /\ \A d \in Client \ {c} : client'[d] = client[d]
      /\ infos' = infos \cup {b.base}
      /\ UNCHANGED <<phase, scan, list, filled, live, lost, areas, structs>>
  BY StepUpdate DEF AllocInfo
<1>2. \A d \in areas : d # b => d.base # b.base
  BY <1>1, BaseIsBlock DEF RearInv
<1> HIDE DEF b
<1>3. RearTypeOK'
  BY <1>1, BlockFits DEF RearInv, RearTypeOK, Call, scan, list
<1>4. CallInv'
  <2>1. CallOK(c)'
    BY <1>1 DEF CallOK, RearInv, CallInv, b
  <2>2. ASSUME NEW d \in Client \ {c} PROVE CallOK(d)'
    BY <1>1, <1>2, <2>2 DEF CallOK, RearInv, CallInv, b
  <2> QED  BY <1>1, <2>1, <2>2 DEF RearInv, CallInv, b
<1>5. HeapInv'
  BY <1>1 DEF RearInv, HeapInv, b
<1>6. ListInv'
  BY <1>1 DEF RearInv, ListInv, MarkedIsReported, list
<1>7. ThreadInv'
  BY <1>1 DEF RearInv, ThreadInv, ThreadGone, Scanning, scan, list
<1> QED  BY <1>3, <1>4, <1>5, <1>6, <1>7 DEF RearInv

LEMMA InvAllocStruct ==
  ASSUME RearInv, NEW c \in Client, AllocStruct(c)
  PROVE  RearInv'
<1> DEFINE b == client[c].b
<1>1. /\ client' \in [Client -> Call] /\ b \in Block /\ b \in areas
      /\ client[c].pc = "struct" /\ client'[c].pc = "link" /\ client'[c].b = b
      /\ \A d \in Client \ {c} : client'[d] = client[d]
      /\ structs' = structs \cup {b.base}
      /\ UNCHANGED <<phase, scan, list, filled, live, lost, areas, infos>>
  BY StepUpdate DEF AllocStruct
<1>2. \A d \in areas : d # b => d.base # b.base
  BY <1>1, BaseIsBlock DEF RearInv
<1> HIDE DEF b
<1>3. RearTypeOK'
  BY <1>1, BlockFits DEF RearInv, RearTypeOK, Call, scan, list
<1>4. CallInv'
  <2>1. CallOK(c)'
    BY <1>1 DEF CallOK, RearInv, CallInv, b
  <2>2. ASSUME NEW d \in Client \ {c} PROVE CallOK(d)'
    BY <1>1, <1>2, <2>2 DEF CallOK, RearInv, CallInv, b
  <2> QED  BY <1>1, <2>1, <2>2 DEF RearInv, CallInv, b
<1>5. HeapInv'
  BY <1>1 DEF RearInv, HeapInv, b
<1>6. ListInv'
  BY <1>1 DEF RearInv, ListInv, MarkedIsReported, list
<1>7. ThreadInv'
  BY <1>1 DEF RearInv, ThreadInv, ThreadGone, Scanning, scan, list
<1> QED  BY <1>3, <1>4, <1>5, <1>6, <1>7 DEF RearInv

LEMMA InvAllocFails ==
  ASSUME RearInv, NEW c \in Client, AllocFails(c)
  PROVE  RearInv'
<1> DEFINE b == client[c].b
<1>1. /\ client' \in [Client -> Call] /\ b \in Block /\ b \in areas
      /\ client[c].pc \in {"info", "struct"} /\ client'[c] = Idle /\ client'[c].pc = "idle"
      /\ \A d \in Client \ {c} : client'[d] = client[d]
      /\ lost' = lost \cup {b}
      /\ UNCHANGED <<phase, scan, list, filled, live, areas, infos, structs>>
  BY EndUpdate DEF AllocFails
<1>2. b \notin live
  BY <1>1 DEF RearInv, CallInv, CallOK
<1>3. RearTypeOK'
  BY <1>1 DEF RearInv, RearTypeOK, Call, scan, list
<1>4. CallInv'
  <2>1. CallOK(c)'
    BY <1>1 DEF CallOK
  <2>2. ASSUME NEW d \in Client \ {c} PROVE CallOK(d)'
    BY <1>1, <2>2 DEF CallOK, RearInv, CallInv
  <2> QED  BY <1>1, <2>1, <2>2 DEF RearInv, CallInv
<1>5. HeapInv'
  BY <1>1, <1>2 DEF RearInv, HeapInv
<1>6. ListInv'
  BY <1>1 DEF RearInv, ListInv, MarkedIsReported, list
<1>7. ThreadInv'
  BY <1>1 DEF RearInv, ThreadInv, ThreadGone, Scanning, scan, list
<1> QED  BY <1>3, <1>4, <1>5, <1>6, <1>7 DEF RearInv

\* The struct is linked, and the block is its client's.
LEMMA InvLink ==
  ASSUME RearInv, NEW c \in Client, Link(c)
  PROVE  RearInv'
<1> DEFINE b == client[c].b
           z == ZoneOf(b)
<1>1. /\ client' \in [Client -> Call] /\ b \in Block /\ b \in areas
      /\ client[c].pc = "link" /\ client'[c] = Idle /\ client'[c].pc = "idle"
      /\ \A d \in Client \ {c} : client'[d] = client[d]
      /\ ~Scanning
      /\ linked' = linked \cup {z} /\ flag' = flag \ {z} /\ told' = told \ {z}
      /\ live' = live \cup {b}
      /\ UNCHANGED <<phase, scan, filled, heap>>
  BY EndUpdate DEF Link
<1>2. b \notin live \cup lost /\ b.base \in structs /\ b.base \in infos
  BY <1>1 DEF RearInv, CallInv, CallOK
<1>3. RearTypeOK'
  BY <1>1 DEF RearInv, RearTypeOK, Call, scan, heap
<1>4. CallInv'
  <2>1. CallOK(c)'
    BY <1>1 DEF CallOK
  <2>2. ASSUME NEW d \in Client \ {c} PROVE CallOK(d)'
    BY <1>1, <2>2 DEF CallOK, RearInv, CallInv, heap
  <2> QED  BY <1>1, <2>1, <2>2 DEF RearInv, CallInv
<1>5. HeapInv'
  BY <1>1, <1>2 DEF RearInv, HeapInv, heap
<1>6. ListInv'
  BY <1>1 DEF RearInv, ListInv, MarkedIsReported
<1>7. ThreadInv'
  BY <1>1 DEF RearInv, ThreadInv, ThreadGone, Scanning, scan
<1> QED  BY <1>3, <1>4, <1>5, <1>6, <1>7 DEF RearInv

\* A free begins: the block is the call's, its struct still linked.
LEMMA InvEnterFree ==
  ASSUME RearInv, NEW c \in Client, EnterFree(c)
  PROVE  RearInv'
<1>1. PICK b \in live :
        /\ phase = "in" /\ client[c] = Idle
        /\ client' = [client EXCEPT ![c] = [Idle EXCEPT !.pc = "unlink", !.b = b]]
        /\ live' = live \ {b}
        /\ UNCHANGED <<phase, scan, list, filled, heap>>
  BY DEF EnterFree
<1>2. b \in Block /\ b \in areas /\ b \notin lost /\ b.base \in structs /\ b.base \in infos
  BY DEF RearInv, RearTypeOK, HeapInv
<1> DEFINE v == [Idle EXCEPT !.pc = "unlink", !.b = b]
<1>3. v \in Call /\ v.pc = "unlink" /\ v.b = b /\ Idle.pc = "idle"
  BY <1>2 DEF Call, Idle
<1>4. client' = [client EXCEPT ![c] = v]
  BY <1>1
<1> HIDE DEF v
<1>5. /\ client' \in [Client -> Call] /\ client[c].pc = "idle"
      /\ client'[c].pc = "unlink" /\ client'[c].b = b
      /\ \A d \in Client \ {c} : client'[d] = client[d]
  BY <1>1, <1>3, <1>4, CallUpdate DEF RearInv
<1>6. \A d \in Client : client[d].pc # "idle" => client[d].b # b
  BY DEF RearInv, CallInv, CallOK
<1>7. RearTypeOK'
  BY <1>1, <1>5 DEF RearInv, RearTypeOK, Call, scan, list, heap
<1>8. CallInv'
  <2>1. CallOK(c)'
    BY <1>1, <1>2, <1>5 DEF CallOK, heap
  <2>2. ASSUME NEW d \in Client \ {c} PROVE CallOK(d)'
    BY <1>1, <1>5, <2>2 DEF CallOK, RearInv, CallInv, heap
  <2> QED  BY <1>5, <1>6, <2>1, <2>2 DEF RearInv, CallInv
<1>9. HeapInv'
  BY <1>1, <1>5 DEF RearInv, HeapInv, heap
<1>10. ListInv'
  BY <1>1, <1>5 DEF RearInv, ListInv, MarkedIsReported, list
<1>11. ThreadInv'
  BY <1>1 DEF RearInv, ThreadInv, ThreadGone, Scanning, scan, list
<1> QED  BY <1>7, <1>8, <1>9, <1>10, <1>11 DEF RearInv

\* What a search by address finds is the block's own struct.
LEMMA FindsOwn ==
  ASSUME RearInv, NEW c \in Client, client[c].pc = "unlink",
         NEW z \in linked, z.mem_addr = client[c].b.base
  PROVE  z = ZoneOf(client[c].b)
<1>1. PICK b \in areas : b \in Block /\ z = ZoneOf(b)
  BY DEF RearInv, RearTypeOK, CallInv, CallOK, HeapInv, ListInv
<1>2. client[c].b \in areas /\ b.base = client[c].b.base
  BY <1>1, BlockFits DEF RearInv, CallInv, CallOK
<1> QED  BY <1>1, <1>2, BaseIsBlock DEF RearInv

\* Two blocks in use have two structs.
LEMMA ZoneIsBlock ==
  ASSUME RearTypeOK, HeapInv, NEW b \in areas, NEW d \in areas, ZoneOf(b) = ZoneOf(d)
  PROVE  b = d
<1>1. b.base = d.base
  BY BlockFits DEF RearTypeOK
<1> QED  BY <1>1, BaseIsBlock

LEMMA InvUnlink ==
  ASSUME RearInv, NEW c \in Client, Unlink(c)
  PROVE  RearInv'
<1> DEFINE b == client[c].b
           z == ZoneOf(b)
<1>1. PICK y \in linked :
        /\ phase = "in" /\ client[c].pc = "unlink" /\ ~Scanning
        /\ y.mem_addr = b.base
        /\ linked' = linked \ {y}
        /\ client' = [client EXCEPT ![c].pc = "release", ![c].temp = y.mem_addr]
        /\ UNCHANGED <<phase, scan, flag, told, filled, live, heap>>
  BY DEF Unlink
<1>2. y = z
  BY <1>1, FindsOwn
<1>3. /\ b \in Block /\ b \in areas /\ b \notin live \cup lost /\ b.base \in Cell
      /\ b.base \in structs /\ b.base \in infos /\ client[c] \in Call
  BY <1>1, BlockFits DEF RearInv, RearTypeOK, CallInv, CallOK, Call
<1> DEFINE v == [client[c] EXCEPT !.pc = "release", !.temp = b.base]
<1>4. v \in Call /\ v.pc = "release" /\ v.b = b /\ v.temp = b.base
  BY <1>3 DEF Call
<1>5. client' = [client EXCEPT ![c] = v]
  BY <1>1
<1> HIDE DEF v
<1>6. /\ client' \in [Client -> Call]
      /\ client'[c].pc = "release" /\ client'[c].b = b /\ client'[c].temp = b.base
      /\ \A d \in Client \ {c} : client'[d] = client[d]
  BY <1>4, <1>5, CallUpdate DEF RearInv
<1>7. linked' = linked \ {z} /\ todo = {}
  BY <1>1, <1>2 DEF RearInv, ThreadInv
<1>8. /\ \A d \in live : ZoneOf(d) # z
      /\ \A d \in Client \ {c} : client[d].pc = "unlink" => ZoneOf(client[d].b) # z
  BY <1>1, <1>3, ZoneIsBlock DEF RearInv, HeapInv, CallInv, CallOK
<1>9. RearTypeOK'
  BY <1>1, <1>6 DEF RearInv, RearTypeOK, Call, scan, heap
<1>10. CallInv'
  <2>1. CallOK(c)'
    BY <1>1, <1>3, <1>6 DEF CallOK, heap
  <2>2. ASSUME NEW d \in Client \ {c} PROVE CallOK(d)'
    BY <1>1, <1>6, <2>2 DEF CallOK, RearInv, CallInv, heap
  <2> QED  BY <1>1, <1>6, <2>1, <2>2 DEF RearInv, CallInv
<1> HIDE DEF z
<1>11. HeapInv'
  BY <1>1, <1>6 DEF RearInv, HeapInv, heap
<1>12. ListInv'
  BY <1>1, <1>6, <1>7, <1>8 DEF RearInv, ListInv, MarkedIsReported, z
<1>13. ThreadInv'
  BY <1>1, <1>7 DEF RearInv, ThreadInv, ThreadGone, Scanning, scan
<1> QED  BY <1>9, <1>10, <1>11, <1>12, <1>13 DEF RearInv

\* The struct and its buffer go back, no other's.
LEMMA InvRelease ==
  ASSUME RearInv, NEW c \in Client, Release(c)
  PROVE  RearInv'
<1> DEFINE b == client[c].b
<1>1. /\ client' \in [Client -> Call] /\ b \in Block /\ b \in areas
      /\ client[c].pc = "release" /\ client'[c].pc = "area" /\ client'[c].b = b
      /\ client[c].temp = b.base
      /\ \A d \in Client \ {c} : client'[d] = client[d]
      /\ infos' = infos \ {b.base} /\ structs' = structs \ {b.base}
      /\ UNCHANGED <<phase, scan, list, filled, live, lost, areas>>
  BY StepUpdate DEF Release, RearInv, CallInv, CallOK
<1>2. b \notin live \cup lost /\ \A d \in areas : d # b => d.base # b.base
  BY <1>1, BaseIsBlock DEF RearInv, CallInv, CallOK
<1> HIDE DEF b
<1>3. RearTypeOK'
  BY <1>1 DEF RearInv, RearTypeOK, Call, scan, list
<1>4. CallInv'
  <2>1. CallOK(c)'
    BY <1>1, <1>2 DEF CallOK, RearInv, CallInv, b
  <2>2. ASSUME NEW d \in Client \ {c} PROVE CallOK(d)'
    BY <1>1, <1>2, <2>2 DEF CallOK, RearInv, CallInv, b
  <2> QED  BY <1>1, <2>1, <2>2 DEF RearInv, CallInv, b
<1>5. HeapInv'
  BY <1>1, <1>2 DEF RearInv, HeapInv, b
<1>6. ListInv'
  BY <1>1 DEF RearInv, ListInv, MarkedIsReported, list
<1>7. ThreadInv'
  BY <1>1 DEF RearInv, ThreadInv, ThreadGone, Scanning, scan, list
<1> QED  BY <1>3, <1>4, <1>5, <1>6, <1>7 DEF RearInv

\* The area goes back; nothing was left in it.
LEMMA InvFreeArea ==
  ASSUME RearInv, NEW c \in Client, FreeArea(c)
  PROVE  RearInv'
<1> DEFINE b == client[c].b
<1>1. /\ client' \in [Client -> Call] /\ b \in Block /\ b \in areas
      /\ client[c].pc = "area" /\ client'[c] = Idle /\ client'[c].pc = "idle"
      /\ \A d \in Client \ {c} : client'[d] = client[d]
      /\ areas' = areas \ {b} /\ filled' = filled \ Area(b)
      /\ UNCHANGED <<phase, scan, list, live, lost, infos, structs>>
  BY EndUpdate DEF FreeArea
<1>2. b \notin live \cup lost /\ b.base \notin structs /\ b.base \notin infos
  BY <1>1 DEF RearInv, CallInv, CallOK
<1>3. \A d \in areas : GuardCells(d) \subseteq Area(d) /\ (d # b => Area(d) \cap Area(b) = {})
  BY <1>1, BlockFits DEF RearInv, RearTypeOK, HeapInv
<1> HIDE DEF b
<1>4. RearTypeOK'
  BY <1>1 DEF RearInv, RearTypeOK, Call, scan, list
<1>5. CallInv'
  <2>1. CallOK(c)'
    BY <1>1 DEF CallOK
  <2>2. ASSUME NEW d \in Client \ {c} PROVE CallOK(d)'
    BY <1>1, <1>3, <2>2 DEF CallOK, RearInv, CallInv, b
  <2> QED  BY <1>1, <2>1, <2>2 DEF RearInv, CallInv, b
<1>6. HeapInv'
  BY <1>1, <1>2 DEF RearInv, HeapInv, b
<1>7. ListInv'
  BY <1>1 DEF RearInv, ListInv, MarkedIsReported, list
<1>8. ThreadInv'
  BY <1>1 DEF RearInv, ThreadInv, ThreadGone, Scanning, scan, list
<1> QED  BY <1>4, <1>5, <1>6, <1>7, <1>8 DEF RearInv

\* A client writes to its own area only.
LEMMA InvWrite ==
  ASSUME RearInv, Write
  PROVE  RearInv'
<1>0. PICK b \in live : \E x \in Area(b) :
        /\ filled' = IF x \in filled THEN filled \ {x} ELSE filled \cup {x}
        /\ UNCHANGED <<phase, scan, list, client, live, heap>>
  BY DEF Write
<1>1. PICK x \in Area(b) :
        /\ filled' = IF x \in filled THEN filled \ {x} ELSE filled \cup {x}
        /\ UNCHANGED <<phase, scan, list, client, live, heap>>
  BY <1>0
<1>2. b \in areas /\ x \in Cell
  BY DEF RearInv, HeapInv
<1>3. \A c \in Client : client[c].pc # "idle" =>
        /\ client[c].b \in areas /\ client[c].b # b
        /\ x \notin GuardCells(client[c].b)
  BY <1>2, BlockFits DEF RearInv, RearTypeOK, CallInv, CallOK, HeapInv
<1>4. RearTypeOK'
  BY <1>1, <1>2 DEF RearInv, RearTypeOK, scan, list, heap
<1>5. CallInv'
  <2>1. ASSUME NEW d \in Client PROVE CallOK(d)'
    BY <1>1, <1>3 DEF CallOK, RearInv, CallInv, heap
  <2> QED  BY <1>1, <2>1 DEF RearInv, CallInv
<1>6. HeapInv' /\ ListInv' /\ ThreadInv'
  BY <1>1 DEF RearInv, HeapInv, ListInv, MarkedIsReported, ThreadInv, ThreadGone,
              Scanning, scan, list, heap
<1> QED  BY <1>4, <1>5, <1>6 DEF RearInv

\* What a scan does: it marks and reports the same zones, and keeps the list.
LEMMA InvCheck ==
  ASSUME RearInv, Check
  PROVE  RearInv'
<1>1. CASE Sleep \/ Wake \/ EndScan
  <2>1. /\ UNCHANGED <<phase, list, filled, client, live, heap>>
        /\ thread' \in {"top", "sleep", "scan", "done"} /\ thread # "none"
        /\ thread' = "done" => phase = "stopping"
        /\ todo' \subseteq linked /\ (todo' # {} => thread' = "scan")
    BY <1>1 DEF Sleep, Wake, EndScan, RearInv, ThreadInv, Scanning
  <2>2. RearTypeOK'
    BY <2>1 DEF RearInv, RearTypeOK, list, heap
  <2>3. CallInv' /\ HeapInv'
    BY <2>1 DEF RearInv, CallInv, CallOK, HeapInv, heap
  <2>4. ListInv' /\ ThreadInv'
    BY <2>1 DEF RearInv, ListInv, MarkedIsReported, ThreadInv, ThreadGone, Scanning, list
  <2> QED  BY <2>2, <2>3, <2>4 DEF RearInv
<1>2. CASE CheckZone
  <2>1. PICK z \in todo :
          /\ Scanning
          /\ todo' = todo \ {z}
          /\ \/ flag' = flag \cup {z} /\ told' = told \cup {z}
             \/ flag' = flag /\ told' = told
          /\ UNCHANGED <<phase, thread, linked, filled, client, live, heap>>
    BY <1>2 DEF CheckZone
  <2>2. RearTypeOK'
    BY <2>1 DEF RearInv, RearTypeOK, heap
  <2>3. CallInv' /\ HeapInv'
    BY <2>1 DEF RearInv, CallInv, CallOK, HeapInv, heap
  <2>4. ListInv' /\ ThreadInv'
    BY <2>1 DEF RearInv, ListInv, MarkedIsReported, ThreadInv, ThreadGone, Scanning
  <2> QED  BY <2>2, <2>3, <2>4 DEF RearInv
<1> QED  BY <1>1, <1>2 DEF Check

\* insmod, rmmod and its end happen with no call under way.
LEMMA InvModule ==
  ASSUME RearInv, Load \/ Exit \/ Stopped
  PROVE  RearInv'
<1>1. CASE Load
  <2>1. /\ phase = "out" /\ phase' = "in" /\ thread' = "top" /\ todo = {}
        /\ linked' = {} /\ flag' = {} /\ told' = {} /\ live' = {}
        /\ lost' = lost \cup live
        /\ UNCHANGED <<todo, filled, client, areas, infos, structs>>
    BY <1>1 DEF Load, RearInv, ThreadInv, ThreadGone, Scanning
  <2>2. \A c \in Client : client[c].pc = "idle" /\ client[c] = Idle
    BY <2>1 DEF RearInv, CallInv, CallOK
  <2>3. RearTypeOK'
    BY <2>1 DEF RearInv, RearTypeOK
  <2>4. CallInv' /\ HeapInv' /\ ListInv' /\ ThreadInv'
    BY <2>1, <2>2 DEF RearInv, CallInv, CallOK, HeapInv, ListInv, MarkedIsReported,
                      ThreadInv, ThreadGone, Scanning
  <2> QED  BY <2>3, <2>4 DEF RearInv
<1>2. CASE Exit \/ Stopped
  <2>1. /\ \A c \in Client : client[c].pc = "idle" /\ client[c] = Idle
        /\ phase' \in {"out", "stopping"} /\ thread' \in {thread, "none"}
        /\ phase' = "out" <=> thread' = "none"
        /\ thread' = "done" => phase' = "stopping"
        /\ todo # {} => thread' = "scan"
        /\ UNCHANGED <<todo, list, filled, client, live, heap>>
    BY <1>2 DEF Exit, Stopped, scan, RearInv, CallInv, CallOK, ThreadInv, ThreadGone,
                Scanning, Idle
  <2>2. RearTypeOK'
    BY <2>1 DEF RearInv, RearTypeOK, list, heap
  <2>3. CallInv' /\ HeapInv' /\ ListInv' /\ ThreadInv'
    BY <2>1 DEF RearInv, CallInv, CallOK, HeapInv, ListInv, MarkedIsReported,
                ThreadInv, ThreadGone, Scanning, list, heap
  <2> QED  BY <2>2, <2>3 DEF RearInv
<1> QED  BY <1>1, <1>2

LEMMA InvNext == RearInv /\ [Next]_vars => RearInv'
<1> SUFFICES ASSUME RearInv, [Next]_vars PROVE RearInv'
  OBVIOUS
<1>1. CASE UNCHANGED vars
  BY <1>1 DEF RearInv, RearTypeOK, CallInv, CallOK, HeapInv, ListInv, MarkedIsReported,
              ThreadInv, ThreadGone, Scanning, vars
<1>2. ASSUME NEW c \in Client, ClientStep(c) PROVE RearInv'
  BY <1>2, InvAllocArea, InvAllocInfo, InvAllocStruct, InvAllocFails, InvLink,
     InvEnterFree, InvUnlink, InvRelease, InvFreeArea DEF ClientStep
<1> QED  BY <1>1, <1>2, InvWrite, InvCheck, InvModule DEF Next

-----------------------------------------------------------------------------
(* What follows.                                                            *)

\* The invariant holds in every state, for every instance of the constants.
THEOREM RearInvCorrect == Spec => []RearInv
BY InvInit, InvNext, PTL DEF Spec

\* Every variable of the detector keeps its type.
THEOREM RearTypeCorrect == Spec => []RearTypeOK
<1>1. RearInv => RearTypeOK
  BY DEF RearInv
<1> QED  BY RearInvCorrect, <1>1, PTL

\* Whatever was allocated and freed in between, the struct of every block in use
\* is on the list, no other is, and a free finds it by its address.
THEOREM ZoneOfBlockCorrect == Spec => []ZoneOfBlock
<1>1. RearInv => ZoneOfBlock
  <2> SUFFICES ASSUME RearInv PROVE ZoneOfBlock
    OBVIOUS
  <2>1. \A b \in Guarded : b \in areas /\ ZoneOf(b) \in linked
    BY DEF RearInv, HeapInv, ListInv, CallInv, CallOK, Guarded, InCall
  <2>2. \A z \in linked : \E b \in Guarded : z = ZoneOf(b)
    BY DEF RearInv, ListInv, Guarded, InCall
  <2>3. \A y, z \in linked : y.mem_addr = z.mem_addr => y = z
    BY <2>1, <2>2, BlockFits, BaseIsBlock DEF RearInv, RearTypeOK
  <2> QED  BY <2>1, <2>2, <2>3 DEF ZoneOfBlock
<1> QED  BY RearInvCorrect, <1>1, PTL

\* A scan reads no struct, buffer or byte that was given back.
THEOREM ScanReadsAllocatedCorrect == Spec => []ScanReadsAllocated
<1>1. RearInv => ScanReadsAllocated
  <2> SUFFICES ASSUME RearInv, NEW z \in linked
               PROVE  /\ z.mem_addr \in infos /\ z.mem_addr \in structs
                      /\ \E b \in areas : b.base = z.mem_addr /\ ZoneCells(z) \subseteq Area(b)
    BY DEF ScanReadsAllocated, RearInv, ThreadInv
  <2>1. PICK b \in areas : z = ZoneOf(b) /\ b.base \in structs /\ b.base \in infos
    BY DEF RearInv, ListInv, HeapInv, CallInv, CallOK
  <2>2. b \in Block
    BY DEF RearInv, RearTypeOK
  <2> QED  BY <2>1, <2>2, BlockFits
<1> QED  BY RearInvCorrect, <1>1, PTL

\* A client that keeps to what it asked for touches neither a zone nor another
\* area, but with the wrapper that takes its zone out of the pages asked for.
THEOREM AskedFitsCorrect == Spec => []AskedFits
<1>1. RearInv => AskedFits
  BY AskedBeforeZone DEF RearInv, RearTypeOK, HeapInv, AskedFits
<1> QED  BY RearInvCorrect, <1>1, PTL

\* No allocation of the detector's is lost but those of calls that failed.
THEOREM MemoryAccountedCorrect == Spec => []MemoryAccounted
<1>1. RearInv => MemoryAccounted
  <2> SUFFICES ASSUME RearInv PROVE MemoryAccounted
    OBVIOUS
  <2>1. \A c \in Client : client[c] # Idle <=> client[c].pc # "idle"
    BY DEF RearInv, CallInv, CallOK, Idle
  <2>2. areas = live \cup lost \cup {client[c].b : c \in {d \in Client : client[d] # Idle}}
    BY <2>1 DEF RearInv, HeapInv, CallInv, CallOK
  <2>3. /\ Bases(live \cup InCall({"link", "unlink", "release"})) \subseteq structs
        /\ Bases(live \cup InCall({"struct", "link", "unlink", "release"})) \subseteq infos
    BY DEF RearInv, HeapInv, CallInv, CallOK, Bases, InCall
  <2>4. structs \subseteq Bases(areas) /\ infos \subseteq Bases(areas)
    BY DEF RearInv, HeapInv, Bases
  <2> QED  BY <2>2, <2>3, <2>4 DEF MemoryAccounted, RearInv, HeapInv
<1> QED  BY RearInvCorrect, <1>1, PTL

\* The flag of a linked zone is set when, and only when, it was reported.
THEOREM MarkedIsReportedCorrect == Spec => []MarkedIsReported
<1>1. RearInv => MarkedIsReported
  BY DEF RearInv, ListInv
<1> QED  BY RearInvCorrect, <1>1, PTL

\* No thread outlives the module.
THEOREM ThreadGoneCorrect == Spec => []ThreadGone
<1>1. RearInv => ThreadGone
  BY DEF RearInv, ThreadInv
<1> QED  BY RearInvCorrect, <1>1, PTL

-----------------------------------------------------------------------------
(* The detector implements OverflowDetector.                                *)

Guards == {{z} : z \in linked}
Broken == {z \in linked : ~Pristine(z)}
Told == [z \in linked |-> IF z \in told THEN 1 ELSE 0]
Abstract == [Detector!Next]_<<Guards, Broken, Told>>

LEMMA UnionGuards == UNION Guards = linked
BY DEF Guards

\* A step that keeps the list, its zones and the reports is none of OverflowDetector's.
LEMMA Stutters ==
  ASSUME linked' = linked, told' = told,
         \A z \in linked : ZoneCells(z) \cap filled' = ZoneCells(z) \cap filled
  PROVE  Abstract
<1>1. Broken' = Broken
  BY DEF Broken, Pristine
<1>2. Guards' = Guards /\ Told' = Told
  BY DEF Guards, Told
<1> QED  BY <1>1, <1>2 DEF Abstract

\* A zone on the list lies in the area of a block that is in use, or whose free
\* has not yet unlinked it.
LEMMA LinkedZone ==
  ASSUME RearInv, NEW z \in linked
  PROVE  \E b \in areas :
           /\ b \in Block /\ z = ZoneOf(b) /\ ZoneCells(z) \subseteq Area(b)
           /\ b \in live \/ \E c \in Client : client[c].pc = "unlink" /\ client[c].b = b
<1>1. PICK b \in areas :
        /\ z = ZoneOf(b)
        /\ b \in live \/ \E c \in Client : client[c].pc = "unlink" /\ client[c].b = b
  BY DEF RearInv, ListInv, HeapInv, CallInv, CallOK
<1>2. b \in Block
  BY DEF RearInv, RearTypeOK
<1> QED  BY <1>1, <1>2, BlockFits

\* list_add: a new and whole zone is put under guard.
LEMMA LinkProtects ==
  ASSUME RearInv, NEW c \in Client, Link(c)
  PROVE  Detector!Protect
<1> DEFINE b == client[c].b
           z == ZoneOf(b)
<1>1. /\ client[c].pc = "link" /\ b \in areas /\ b \in Block
      /\ linked' = linked \cup {z} /\ told' = told \ {z} /\ filled' = filled
  BY EndUpdate DEF Link
<1>2. GuardCells(b) \subseteq filled /\ b \notin live
  BY <1>1 DEF RearInv, CallInv, CallOK
<1>3. z \notin linked
  <2> SUFFICES ASSUME z \in linked PROVE FALSE
    OBVIOUS
  <2>1. PICK d \in areas :
          /\ z = ZoneOf(d)
          /\ d \in live \/ \E e \in Client : client[e].pc = "unlink" /\ client[e].b = d
    BY LinkedZone
  <2>2. d = b
    BY <1>1, <2>1, ZoneIsBlock DEF RearInv
  <2> QED  BY <1>1, <1>2, <2>1, <2>2 DEF RearInv, CallInv
<1>4. ZoneCells(z) \subseteq filled /\ z \in {ZoneOf(d) : d \in Block}
  BY <1>1, <1>2, BlockFits
<1> HIDE DEF z
<1>5. (UNION Guards) = linked /\ (UNION Guards') = linked'
  BY UnionGuards DEF Guards
<1>6. (UNION Guards') \ (UNION Guards) = {z}
  BY <1>1, <1>3, <1>5
<1>7. Guards' = Guards \cup {{z}}
  BY <1>1 DEF Guards
<1>8. Broken' = Broken
  BY <1>1, <1>4 DEF Broken, Pristine
<1>9. Told' = [y \in (UNION Guards) \cup {z} |-> IF y \in {z} THEN 0 ELSE Told[y]]
  BY <1>1, <1>3, <1>5 DEF Told
<1> QED  BY <1>4, <1>6, <1>7, <1>8, <1>9 DEF Detector!Protect, Detector!Guarded, Guards, Broken, Told

\* list_del: the zone of the freed block is no longer guarded, every other is.
LEMMA UnlinkReleases ==
  ASSUME RearInv, NEW c \in Client, Unlink(c)
  PROVE  Detector!Release
<1>1. PICK z \in linked :
        linked' = linked \ {z} /\ told' = told /\ filled' = filled
  BY DEF Unlink
<1>2. Guards' = Guards \ {{z}} /\ {z} \in Guards
  BY <1>1 DEF Guards
<1>3. Broken' = Broken \ {z}
  BY <1>1 DEF Broken, Pristine
<1>4. UNION Guards = linked
  BY UnionGuards
<1>5. Told' = [y \in (UNION Guards) \ {z} |-> Told[y]]
  BY <1>1, <1>4 DEF Told
<1> QED  BY <1>2, <1>3, <1>5 DEF Detector!Release, Detector!Guarded, Guards, Broken, Told

\* A client overwrites a byte of the one zone its area holds, or none.
LEMMA WriteOverwrites ==
  ASSUME RearInv, Write
  PROVE  Abstract
<1>0. PICK b \in live : \E x \in Area(b) :
        /\ filled' = IF x \in filled THEN filled \ {x} ELSE filled \cup {x}
        /\ UNCHANGED <<phase, scan, list, client, live, heap>>
  BY DEF Write
<1>1. PICK x \in Area(b) :
        /\ filled' = IF x \in filled THEN filled \ {x} ELSE filled \cup {x}
        /\ linked' = linked /\ told' = told
  BY <1>0 DEF list
<1> DEFINE z == ZoneOf(b)
<1>2. z \in linked /\ b \in areas
  BY DEF RearInv, ListInv, HeapInv
<1>3. \A y \in linked \ {z} : x \notin ZoneCells(y)
  BY <1>2, LinkedZone DEF RearInv, HeapInv
<1> HIDE DEF z
<1>4. \A y \in linked \ {z} : ZoneCells(y) \cap filled' = ZoneCells(y) \cap filled
  BY <1>1, <1>3
<1>5. \A y \in linked \ {z} : y \in Broken' <=> y \in Broken
  BY <1>1, <1>4 DEF Broken, Pristine
<1>6. Guards' = Guards /\ Told' = Told /\ UNION Guards = linked
  BY <1>1, UnionGuards DEF Guards, Told
<1>7. Broken' \subseteq linked /\ Broken \subseteq linked
  BY <1>1 DEF Broken
<1>8. CASE z \in Broken' <=> z \in Broken
  <2>1. Broken' = Broken
    BY <1>2, <1>5, <1>7, <1>8
  <2> QED  BY <1>6, <2>1 DEF Abstract
<1>9. CASE ~(z \in Broken' <=> z \in Broken)
  <2>1. Broken' = IF z \in Broken THEN Broken \ {z} ELSE Broken \cup {z}
    BY <1>2, <1>5, <1>7, <1>9
  <2>2. Detector!Overwrite
    BY <1>2, <1>6, <2>1 DEF Detector!Overwrite, Detector!Guarded, Guards, Broken, Told
  <2> QED  BY <2>2 DEF Abstract, Detector!Next
<1> QED  BY <1>8, <1>9

\* check_iso reports a broken zone that it has not reported.
LEMMA CheckZoneReports ==
  ASSUME RearInv, CheckZone
  PROVE  Abstract
<1>1. PICK z \in todo :
        /\ told' = IF z \notin flag /\ ~Pristine(z) THEN told \cup {z} ELSE told
        /\ linked' = linked /\ filled' = filled
  BY DEF CheckZone
<1>2. CASE z \notin flag /\ ~Pristine(z)
  <2>1. z \in linked /\ z \notin told
    BY <1>2 DEF RearInv, ThreadInv, ListInv, MarkedIsReported
  <2>2. z \in Broken /\ Told[z] = 0
    BY <1>2, <2>1 DEF Broken, Told
  <2>3. Told' = [Told EXCEPT ![z] = 1]
    BY <1>1, <1>2, <2>1 DEF Told
  <2>4. Guards' = Guards /\ Broken' = Broken
    BY <1>1 DEF Guards, Broken, Pristine
  <2>5. Detector!Report
    BY <2>2, <2>3, <2>4 DEF Detector!Report, Guards, Broken, Told
  <2> QED  BY <2>5 DEF Abstract, Detector!Next
<1>3. CASE ~(z \notin flag /\ ~Pristine(z))
  BY <1>1, <1>3, Stutters
<1> QED  BY <1>2, <1>3

\* A call that allocates or frees an area touches no zone on the list.
LEMMA CallStutters ==
  ASSUME RearInv, NEW c \in Client,
         AllocArea(c) \/ AllocInfo(c) \/ AllocStruct(c) \/ AllocFails(c)
         \/ EnterFree(c) \/ Release(c) \/ FreeArea(c)
  PROVE  Abstract
<1>1. linked' = linked /\ told' = told
  BY DEF AllocArea, AllocInfo, AllocStruct, AllocFails, EnterFree, Release, FreeArea, list
<1>2. ASSUME NEW z \in linked PROVE ZoneCells(z) \cap filled' = ZoneCells(z) \cap filled
  <2>1. PICK b \in areas :
          /\ b \in Block /\ ZoneCells(z) \subseteq Area(b)
          /\ b \in live \/ \E d \in Client : client[d].pc = "unlink" /\ client[d].b = b
    BY LinkedZone
  <2>2. CASE AllocArea(c)
    <3>1. PICK a \in Block : Obtainable(a) /\ filled' = (filled \ Area(a)) \cup GuardCells(a)
      BY <2>2 DEF AllocArea
    <3>2. GuardCells(a) \subseteq Area(a) /\ Area(b) \cap Area(a) = {}
      BY <3>1, BlockFits DEF Obtainable
    <3> QED  BY <2>1, <3>1, <3>2
  <2>3. CASE FreeArea(c)
    <3>1. /\ client[c].pc = "area" /\ client[c].b \in areas
          /\ filled' = filled \ Area(client[c].b)
      BY <2>3, EndUpdate DEF FreeArea
    <3>2. client[c].b # b
      BY <2>1, <3>1 DEF RearInv, CallInv, CallOK
    <3>3. Area(b) \cap Area(client[c].b) = {}
      BY <3>1, <3>2 DEF RearInv, HeapInv
    <3> QED  BY <2>1, <3>1, <3>3
  <2>4. CASE AllocInfo(c) \/ AllocStruct(c) \/ AllocFails(c) \/ EnterFree(c) \/ Release(c)
    BY <2>4 DEF AllocInfo, AllocStruct, AllocFails, EnterFree, Release
  <2> QED  BY <2>2, <2>3, <2>4
<1> QED  BY <1>1, <1>2, Stutters

LEMMA StepRefines == RearInv /\ [Next]_vars => Abstract
<1> SUFFICES ASSUME RearInv, [Next]_vars PROVE Abstract
  OBVIOUS
<1>1. CASE UNCHANGED vars
  BY <1>1, Stutters DEF vars, list
<1>2. ASSUME NEW c \in Client, ClientStep(c) PROVE Abstract
  <2>1. CASE Link(c)
    BY <2>1, LinkProtects DEF Abstract, Detector!Next
  <2>2. CASE Unlink(c)
    BY <2>2, UnlinkReleases DEF Abstract, Detector!Next
  <2> QED  BY <1>2, <2>1, <2>2, CallStutters DEF ClientStep
<1>3. CASE Check
  <2>1. CASE Sleep \/ Wake \/ EndScan
    BY <2>1, Stutters DEF Sleep, Wake, EndScan, list
  <2> QED  BY <1>3, <2>1, CheckZoneReports DEF Check
<1>4. CASE Load
  <2>1. linked' = {}
    BY <1>4 DEF Load
  <2>2. Guards' = {} /\ Broken' = {} /\ Told' = [z \in {} |-> 0]
    BY <2>1 DEF Guards, Broken, Told
  <2>3. Detector!Restart
    BY <2>2 DEF Detector!Restart, Guards, Broken, Told
  <2> QED  BY <2>3 DEF Abstract, Detector!Next
<1>5. CASE Exit \/ Stopped
  BY <1>5, Stutters DEF Exit, Stopped, list
<1> QED  BY <1>1, <1>2, <1>3, <1>4, <1>5, WriteOverwrites DEF Next

\* For its clients the list, the wrappers and the thread are the detector of
\* OverflowDetector: guarded from allocation to free, and reported once.
THEOREM DetectorImplemented == Spec => DetectorSpec
<1>1. Init => Detector!Init
  BY DEF Init, Detector!Init
<1>2. RearInv /\ [Next]_vars => [Detector!Next]_Detector!detector
  BY StepRefines DEF Abstract, Detector!detector, Guards, Broken, Told
<1> QED  BY RearInvCorrect, <1>1, <1>2, PTL DEF Spec, DetectorSpec, Detector!Spec
===============================================================================
