---------------------------- MODULE IsoZoneProofs ----------------------------
(***************************************************************************)
(* Proofs about IsoZone, for every arena, size of zone, set of requests    *)
(* and set of clients.                                                     *)
(***************************************************************************)
EXTENDS IsoZone, SequenceTheorems, FiniteSetTheorems, TLAPS

-----------------------------------------------------------------------------
(* Layouts.                                                                 *)

LEMMA TimesPositive ==
  ASSUME NEW m \in Nat \ {0}, NEW n \in Nat \ {0}
  PROVE  m * n \in Nat /\ m * n >= n
OBVIOUS

\* Half of an even number of pages.
LEMMA HalfOfPages ==
  ASSUME NEW m \in Nat \ {0}, NEW p \in Nat \ {0}, p % 2 = 0
  PROVE  LET half == (m * p) \div 2 IN half \in Nat \ {0} /\ m * p = 2 * half
<1>1. PICK h \in Nat \ {0} : p = 2 * h
  <2>1. p \div 2 \in Nat \ {0} /\ p = 2 * (p \div 2)
    OBVIOUS
  <2> QED  BY <2>1
<1>2. m * h \in Nat /\ m * h >= h
  BY TimesPositive
<1>3. m * p = 2 * (m * h)
  BY <1>1
<1>4. \A x \in Nat : (2 * x) \div 2 = x
  OBVIOUS
<1>5. (m * p) \div 2 = m * h
  BY <1>2, <1>3, <1>4
<1> QED  BY <1>1, <1>2, <1>3, <1>5

\* The zones of a layout are not empty, come one after the other and end with
\* the area or before it.
LEMMA LayoutFits ==
  ASSUME NEW r \in Request
  PROVE  LET l == Layout(r) IN
           /\ l.total \in Nat \ {0} /\ l.rear \in Nat /\ l.zone \in Nat \ {0}
           /\ l.zone <= l.rear /\ l.rear + l.zone <= l.total
<1> DEFINE need == 2^r[2] * PageSize
           half == need \div 2
<1>1. /\ r[1] \in {"bytes", "doubling", "inside"} /\ r[2] \in Nat
      /\ Iso \in Nat \ {0} /\ PageSize \in Nat \ {0} /\ PageSize >= 2 * Iso
      /\ PageSize % 2 = 0
      /\ 2^r[2] \in Nat \ {0} /\ 2^(r[2] + 1) = 2 * 2^r[2]
  BY IsoAssumption
<1>2. need \in Nat /\ need >= PageSize
  BY <1>1, TimesPositive
<1>3. 2^(r[2] + 1) * PageSize = 2 * need
  BY <1>1
<1>4. half \in Nat \ {0} /\ need = 2 * half
  BY <1>1, HalfOfPages
<1> HIDE DEF need, half
<1>5. CASE r[1] = "bytes"
  BY <1>1, <1>5 DEF Layout, BytesLayout
<1>6. CASE r[1] = "doubling"
  <2>1. Layout(r) = [total |-> 2 * need, zone |-> half, rear |-> need + half]
    BY <1>3, <1>6 DEF Layout, DoublingLayout, need, half
  <2> QED  BY <2>1, <1>1, <1>2, <1>4
<1>7. CASE r[1] = "inside"
  <2>1. Layout(r) = [total |-> need, zone |-> Iso, rear |-> need - Iso]
    BY <1>7 DEF Layout, InsideLayout, need
  <2> QED  BY <2>1, <1>1, <1>2
<1> QED  BY <1>1, <1>5, <1>6, <1>7

\* Two zones of z cells, at a and r cells further on, in an area of t cells.
LEMMA TwoZones ==
  ASSUME NEW a \in Nat, NEW z \in Nat \ {0}, NEW r \in Nat, NEW t \in Nat,
         z <= r, r + z <= t
  PROVE  /\ a \in a .. a + z - 1 /\ a + r \in a + r .. a + r + z - 1
         /\ a .. a + z - 1 \subseteq a .. a + t - 1
         /\ a + r .. a + r + z - 1 \subseteq a .. a + t - 1
         /\ (a .. a + z - 1) \cap (a + r .. a + r + z - 1) = {}
         /\ a + r .. a + r + z - 1 \subseteq Nat
         /\ a + z .. a + r - 1 \subseteq
              (a .. a + t - 1) \ ((a .. a + z - 1) \cup (a + r .. a + r + z - 1))
OBVIOUS

\* The area of a block and the zones in it.
LEMMA AreaParts ==
  ASSUME NEW b \in Block
  PROVE  LET l == Layout(b.req) IN
           /\ b.req \in Request /\ b.base \in Cell /\ b.base \in Nat
           /\ l.total \in Nat /\ l.rear \in Nat /\ l.zone \in Nat \ {0}
           /\ l.zone <= l.rear /\ l.rear + l.zone <= l.total
           /\ Area(b) = b.base .. b.base + l.total - 1
           /\ ZoneCells(FirstZone(b)) = b.base .. b.base + l.zone - 1
           /\ ZoneCells(SecondZone(b)) = b.base + l.rear .. b.base + l.rear + l.zone - 1
<1>1. b.req \in Request /\ b.base \in Cell /\ Cell \subseteq Nat
  BY IsoAssumption DEF Block, Cell
<1>2. /\ FirstZone(b).addr = b.base /\ FirstZone(b).size = Layout(b.req).zone
      /\ SecondZone(b).addr = b.base + Layout(b.req).rear
      /\ SecondZone(b).size = Layout(b.req).zone
  BY DEF FirstZone, SecondZone
<1> QED  BY <1>1, <1>2, LayoutFits DEF Area, ZoneCells

\* The zones lie in the area, apart, and name the block.
LEMMA BlockFits ==
  ASSUME NEW b \in Block
  PROVE  /\ b.base \in Cell /\ b.base \in Area(b)
         /\ FirstZone(b).addr = b.base /\ FirstZone(b).a = b.base
         /\ SecondZone(b).a = b.base
         /\ FirstZone(b).addr \in ZoneCells(FirstZone(b))
         /\ SecondZone(b).addr \in ZoneCells(SecondZone(b))
         /\ ZoneCells(FirstZone(b)) \cap ZoneCells(SecondZone(b)) = {}
         /\ GuardCells(b) = ZoneCells(FirstZone(b)) \cup ZoneCells(SecondZone(b))
         /\ GuardCells(b) \subseteq Area(b)
<1>1. /\ b.base \in Area(b)
      /\ b.base \in ZoneCells(FirstZone(b))
      /\ b.base + Layout(b.req).rear \in ZoneCells(SecondZone(b))
      /\ ZoneCells(FirstZone(b)) \cap ZoneCells(SecondZone(b)) = {}
      /\ ZoneCells(FirstZone(b)) \subseteq Area(b)
      /\ ZoneCells(SecondZone(b)) \subseteq Area(b)
  <2> DEFINE a == b.base
             z == Layout(b.req).zone
             r == Layout(b.req).rear
             t == Layout(b.req).total
  <2>1. /\ a \in Nat /\ z \in Nat \ {0} /\ r \in Nat /\ t \in Nat /\ z <= r /\ r + z <= t
        /\ Area(b) = a .. a + t - 1
        /\ ZoneCells(FirstZone(b)) = a .. a + z - 1
        /\ ZoneCells(SecondZone(b)) = a + r .. a + r + z - 1
    BY AreaParts
  <2> HIDE DEF a, z, r, t
  <2>2. b.base \in a .. a + z - 1 /\ b.base + Layout(b.req).rear \in a + r .. a + r + z - 1
    BY <2>1, TwoZones DEF a, r
  <2>3. /\ a .. a + z - 1 \subseteq a .. a + t - 1
        /\ a + r .. a + r + z - 1 \subseteq a .. a + t - 1
        /\ (a .. a + z - 1) \cap (a + r .. a + r + z - 1) = {}
    BY <2>1, TwoZones
  <2> QED  BY <2>1, <2>2, <2>3
<1>2. /\ FirstZone(b).addr = b.base /\ FirstZone(b).a = b.base
      /\ SecondZone(b).addr = b.base + Layout(b.req).rear
      /\ SecondZone(b).a = b.base
  BY DEF FirstZone, SecondZone
<1> QED  BY <1>1, <1>2, AreaParts DEF GuardCells

\* In memory that exists, they are structs like any other.
LEMMA ZoneTypes ==
  ASSUME NEW b \in Block, Area(b) \subseteq Cell
  PROVE  FirstZone(b) \in Zone /\ SecondZone(b) \in Zone
<1> DEFINE l == Layout(b.req)
<1>1. /\ b.base \in Cell /\ b.base \in Nat /\ l.rear \in Nat /\ l.zone \in Nat \ {0}
      /\ b.base + l.rear \in Area(b) /\ b.base + l.rear + l.zone - 1 \in Area(b)
  <2>1. b.base + l.rear \in Area(b) /\ b.base + l.rear + l.zone - 1 \in Area(b)
    BY AreaParts
  <2> QED  BY <2>1, AreaParts
<1>2. l.zone \in 1 .. NCells /\ b.base + l.rear \in Cell
  BY <1>1, IsoAssumption DEF Cell
<1> QED  BY <1>1, <1>2 DEF Zone, FirstZone, SecondZone

\* What a client asked for lies between the zones.
LEMMA AskedBetweenZones ==
  ASSUME NEW b \in Block, b.req[1] # "inside"
  PROVE  Asked(b) \subseteq Area(b) \ GuardCells(b)
<1> DEFINE a == b.base
           z == Layout(b.req).zone
           r == Layout(b.req).rear
           t == Layout(b.req).total
<1>1. /\ a \in Nat /\ z \in Nat \ {0} /\ r \in Nat /\ t \in Nat /\ z <= r /\ r + z <= t
      /\ Area(b) = a .. a + t - 1
      /\ ZoneCells(FirstZone(b)) = a .. a + z - 1
      /\ ZoneCells(SecondZone(b)) = a + r .. a + r + z - 1
  BY AreaParts
<1>2. /\ b.req[1] \in {"bytes", "doubling"} /\ b.req[2] \in Nat
      /\ 2^b.req[2] \in Nat /\ PageSize \in Nat /\ Iso \in Nat
  BY AreaParts, IsoAssumption
<1> DEFINE size == IF b.req[1] = "bytes" THEN b.req[2] ELSE 2^b.req[2] * PageSize
<1>3. size \in Nat /\ r = z + size
  <2>1. CASE b.req[1] = "bytes"
    BY <1>2, <2>1 DEF Layout, BytesLayout
  <2>2. CASE b.req[1] = "doubling"
    <3>1. size \in Nat
      BY <1>2
    <3>2. r = size + z
      BY <2>2 DEF Layout, DoublingLayout
    <3> HIDE DEF size, r, z
    <3> QED  BY <1>1, <3>1, <3>2
  <2> QED  BY <1>2, <2>1, <2>2
<1>4. Asked(b) = a + z .. a + z + size - 1
  BY DEF Asked
<1> HIDE DEF a, z, r, t, size
<1>5. Asked(b) = a + z .. a + r - 1
  BY <1>1, <1>3, <1>4
<1>6. a + z .. a + r - 1 \subseteq
        (a .. a + t - 1) \ ((a .. a + z - 1) \cup (a + r .. a + r + z - 1))
  BY <1>1, TwoZones
<1> QED  BY <1>1, <1>5, <1>6 DEF GuardCells
-----------------------------------------------------------------------------
(* The inductive invariant: the initial states, then the steps of a call.   *)

Ind == IsoTypeOK /\ CallInv /\ HeapInv /\ ListInv /\ ThreadInv

Call == [pc : {"idle", "info", "array", "link", "unlink", "release", "area"},
         b : Block \cup {None}, temp : Cell \cup {None}]

LEMMA InvInit == Init => Ind
<1> SUFFICES ASSUME Init PROVE Ind
  OBVIOUS
<1>1. (\A c \in Client : client[c] = Idle) /\ Idle.pc = "idle" /\ isoList = << >>
  BY DEF Init, Idle
<1>2. Len(isoList) = 0 /\ isoList \in Seq(Zone) /\ DOMAIN isoList = {}
  BY <1>1, EmptySeq, LenProperties
<1>3. IsoTypeOK
  BY <1>2 DEF Init, IsoTypeOK, Idle
<1>4. CallInv
  BY <1>1 DEF CallInv, CallOK
<1>5. ListInv
  <2>1. Guarded = {} /\ Listed = {}
    BY <1>1, <1>2 DEF Init, Guarded, InCall, Listed, ToSet
  <2>2. Pairs(0, [k \in 1 .. 0 |-> None])
    BY <1>2, <2>1 DEF Pairs
  <2>3. 0 \in 0 .. Len(isoList) /\ [k \in 1 .. 0 |-> None] \in [1 .. 0 -> Guarded]
    BY <1>2
  <2> QED  BY <2>1, <2>2, <2>3 DEF ListInv
<1>6. HeapInv /\ ThreadInv
  BY <1>1 DEF Init, HeapInv, ThreadInv, ThreadGone
<1> QED  BY <1>3, <1>4, <1>5, <1>6 DEF Ind

\* Blocks that are allocated together differ in their addresses.
LEMMA BaseIsBlock ==
  ASSUME IsoTypeOK, HeapInv, NEW b \in areas, NEW d \in areas, b.base = d.base
  PROVE  b = d
<1>1. b \in Block /\ d \in Block
  BY DEF IsoTypeOK
<1>2. b.base \in Area(b) /\ d.base \in Area(d)
  BY <1>1, BlockFits
<1> QED  BY <1>2 DEF HeapInv

\* What the list holds depends on the blocks in use and on nothing else.
LEMMA ListKept ==
  ASSUME ListInv, UNCHANGED <<isoList, flag, told>>, Guarded' = Guarded
  PROVE  ListInv'
<1>1. ASSUME NEW n, NEW order PROVE Pairs(n, order)' <=> Pairs(n, order)
  BY DEF Pairs
<1>2. PICK n \in 0 .. Len(isoList) : \E order \in [1 .. n -> Guarded] : Pairs(n, order)
  BY DEF ListInv
<1>3. n \in 0 .. Len(isoList') /\ \E order \in [1 .. n -> Guarded'] : Pairs(n, order)'
  BY <1>1, <1>2
<1>4. \A z \in Listed' : told'[z.addr] = IF z.addr \in flag' THEN 1 ELSE 0
  BY DEF ListInv, Listed
<1> QED  BY <1>3, <1>4 DEF ListInv

LEMMA ListFrame ==
  ASSUME ListInv, UNCHANGED <<isoList, flag, told, live>>,
         \A c \in Client : client'[c].pc = "unlink" \/ client[c].pc = "unlink" =>
           client'[c].pc = client[c].pc /\ client'[c].b = client[c].b
  PROVE  ListInv'
<1>1. Guarded' = Guarded
  BY DEF Guarded, InCall
<1> QED  BY <1>1, ListKept

\* A call's record gets a new value; the others keep theirs.
LEMMA CallUpdate ==
  ASSUME IsoTypeOK, NEW c \in Client, NEW v \in Call,
         client' = [client EXCEPT ![c] = v]
  PROVE  /\ client' \in [Client -> Call]
         /\ client'[c] = v /\ \A d \in Client \ {c} : client'[d] = client[d]
BY DEF IsoTypeOK, Call

\* A step of a call that is under way keeps its block.
LEMMA StepUpdate ==
  ASSUME Ind, NEW c \in Client,
         NEW from \in {"info", "array", "link", "unlink", "release", "area"},
         NEW to \in {"array", "link", "release", "area"},
         Step(c, from, to)
  PROVE  /\ client' \in [Client -> Call]
         /\ client[c].pc = from /\ client[c].b \in Block /\ client[c].b \in areas
         /\ client'[c].pc = to
         /\ client'[c].b = client[c].b /\ client'[c].temp = client[c].temp
         /\ \A d \in Client \ {c} : client'[d] = client[d]
<1> DEFINE v == [client[c] EXCEPT !.pc = to]
<1>1. client[c] \in Call /\ client[c].pc = from /\ client[c].b \in areas
  BY DEF Ind, IsoTypeOK, CallInv, CallOK, Step, Call
<1>2. v \in Call /\ v.pc = to /\ v.b = client[c].b /\ v.temp = client[c].temp
  BY <1>1 DEF Call
<1>3. client' = [client EXCEPT ![c] = v]
  BY DEF Step
<1>4. client[c].b \in Block
  BY <1>1 DEF Ind, IsoTypeOK
<1> HIDE DEF v
<1>5. /\ client' \in [Client -> Call]
      /\ client'[c] = v /\ \A d \in Client \ {c} : client'[d] = client[d]
  BY <1>2, <1>3, CallUpdate DEF Ind
<1> QED  BY <1>1, <1>2, <1>4, <1>5

\* A call ends.
LEMMA EndUpdate ==
  ASSUME Ind, NEW c \in Client,
         NEW from \in {"info", "array", "link", "unlink", "release", "area"},
         Step(c, from, "idle")
  PROVE  /\ client' \in [Client -> Call]
         /\ client[c].pc = from /\ client[c].b \in Block /\ client[c].b \in areas
         /\ client'[c] = Idle /\ client'[c].pc = "idle"
         /\ \A d \in Client \ {c} : client'[d] = client[d]
<1>1. client[c] \in Call /\ client[c].pc = from /\ client[c].b \in areas
  BY DEF Ind, IsoTypeOK, CallInv, CallOK, Step, Call
<1>2. Idle \in Call /\ Idle.pc = "idle"
  BY DEF Call, Idle
<1>3. client' = [client EXCEPT ![c] = Idle]
  BY DEF Step
<1>4. client[c].b \in Block
  BY <1>1 DEF Ind, IsoTypeOK
<1>5. /\ client' \in [Client -> Call]
      /\ client'[c] = Idle /\ \A d \in Client \ {c} : client'[d] = client[d]
  BY <1>2, <1>3, CallUpdate DEF Ind
<1> QED  BY <1>1, <1>2, <1>4, <1>5

\* The kernel gives an area that no allocated one touches.
LEMMA InvAllocArea ==
  ASSUME Ind, NEW c \in Client, AllocArea(c)
  PROVE  Ind'
<1>1. PICK b \in Block :
        /\ phase = "in" /\ client[c] = Idle
        /\ Obtainable(b)
        /\ areas' = areas \cup {b}
        /\ filled' = (filled \ Area(b)) \cup GuardCells(b)
        /\ client' = [client EXCEPT ![c] = [Idle EXCEPT !.pc = "info", !.b = b]]
        /\ UNCHANGED <<phase, thread, cursor, isoList, flag, live, lost, infos,
                       arrays, told>>
  BY DEF AllocArea
<1> DEFINE v == [Idle EXCEPT !.pc = "info", !.b = b]
<1>2. v \in Call /\ v.pc = "info" /\ v.b = b /\ Idle.pc = "idle"
  BY DEF Call, Idle
<1>3. client' = [client EXCEPT ![c] = v]
  BY <1>1
<1> HIDE DEF v
<1>4. /\ client' \in [Client -> Call]
      /\ client'[c].pc = "info" /\ client'[c].b = b
      /\ \A d \in Client \ {c} : client'[d] = client[d]
  BY <1>2, <1>3, CallUpdate DEF Ind
<1>5. /\ Area(b) \subseteq Cell /\ b.base \in Area(b) /\ GuardCells(b) \subseteq Area(b)
      /\ \A d \in areas : Area(d) \cap Area(b) = {} /\ d.base \in Area(d)
                           /\ GuardCells(d) \subseteq Area(d)
  BY <1>1, BlockFits DEF Obtainable, Ind, IsoTypeOK
<1>6. b \notin areas /\ b.base \notin arrays /\ b.base \notin infos
  BY <1>5 DEF Ind, HeapInv
<1>7. client[c].pc = "idle" /\ \A d \in Client : client[d].pc # "idle" => client[d].b \in areas
  BY <1>1, <1>2 DEF Ind, CallInv, CallOK
<1>8. IsoTypeOK'
  BY <1>1, <1>4, <1>5 DEF Ind, IsoTypeOK, Call
<1>9. CallInv'
  <2>1. CallOK(c)'
    BY <1>1, <1>4, <1>5, <1>6 DEF CallOK, Ind, HeapInv
  <2>2. ASSUME NEW d \in Client \ {c} PROVE CallOK(d)'
    BY <1>1, <1>4, <1>5, <1>7, <2>2 DEF CallOK, Ind, CallInv
  <2> QED  BY <1>4, <1>6, <1>7, <2>1, <2>2 DEF Ind, CallInv
<1>10. HeapInv'
  BY <1>1, <1>4, <1>5, <1>6, <1>7 DEF Ind, HeapInv
<1>11. ListInv'
  BY <1>1, <1>4, <1>7, ListFrame DEF Ind
<1>12. ThreadInv'
  BY <1>1 DEF Ind, ThreadInv, ThreadGone, Scanning
<1> QED  BY <1>8, <1>9, <1>10, <1>11, <1>12 DEF Ind

\* The buffer and the structs are this call's own.
LEMMA InvAllocInfo ==
  ASSUME Ind, NEW c \in Client, AllocInfo(c)
  PROVE  Ind'
<1> DEFINE b == client[c].b
<1>1. /\ client' \in [Client -> Call] /\ b \in Block /\ b \in areas
      /\ client[c].pc = "info" /\ client'[c].pc = "array" /\ client'[c].b = b
      /\ \A d \in Client \ {c} : client'[d] = client[d]
      /\ infos' = infos \cup {b.base}
      /\ UNCHANGED <<phase, thread, cursor, isoList, flag, filled, live, lost,
                     areas, arrays, told>>
  BY StepUpdate DEF AllocInfo
<1>2. \A d \in areas : d # b => d.base # b.base
  BY <1>1, BaseIsBlock DEF Ind
<1> HIDE DEF b
<1>3. IsoTypeOK'
  BY <1>1, BlockFits DEF Ind, IsoTypeOK, Call
<1>4. CallInv'
  <2>1. CallOK(c)'
    BY <1>1 DEF CallOK, Ind, CallInv, b
  <2>2. ASSUME NEW d \in Client \ {c} PROVE CallOK(d)'
    BY <1>1, <1>2, <2>2 DEF CallOK, Ind, CallInv, b
  <2> QED  BY <1>1, <2>1, <2>2 DEF Ind, CallInv, b
<1>5. HeapInv'
  BY <1>1 DEF Ind, HeapInv, b
<1>6. ListInv'
  BY <1>1, ListFrame DEF Ind
<1>7. ThreadInv'
  BY <1>1 DEF Ind, ThreadInv, ThreadGone, Scanning
<1> QED  BY <1>3, <1>4, <1>5, <1>6, <1>7 DEF Ind

LEMMA InvAllocArray ==
  ASSUME Ind, NEW c \in Client, AllocArray(c)
  PROVE  Ind'
<1> DEFINE b == client[c].b
<1>1. /\ client' \in [Client -> Call] /\ b \in Block /\ b \in areas
      /\ client[c].pc = "array" /\ client'[c].pc = "link" /\ client'[c].b = b
      /\ \A d \in Client \ {c} : client'[d] = client[d]
      /\ arrays' = arrays \cup {b.base}
      /\ UNCHANGED <<phase, thread, cursor, isoList, flag, filled, live, lost,
                     areas, infos, told>>
  BY StepUpdate DEF AllocArray
<1>2. \A d \in areas : d # b => d.base # b.base
  BY <1>1, BaseIsBlock DEF Ind
<1> HIDE DEF b
<1>3. IsoTypeOK'
  BY <1>1, BlockFits DEF Ind, IsoTypeOK, Call
<1>4. CallInv'
  <2>1. CallOK(c)'
    BY <1>1 DEF CallOK, Ind, CallInv, b
  <2>2. ASSUME NEW d \in Client \ {c} PROVE CallOK(d)'
    BY <1>1, <1>2, <2>2 DEF CallOK, Ind, CallInv, b
  <2> QED  BY <1>1, <2>1, <2>2 DEF Ind, CallInv, b
<1>5. HeapInv'
  BY <1>1 DEF Ind, HeapInv, b
<1>6. ListInv'
  BY <1>1, ListFrame DEF Ind
<1>7. ThreadInv'
  BY <1>1 DEF Ind, ThreadInv, ThreadGone, Scanning
<1> QED  BY <1>3, <1>4, <1>5, <1>6, <1>7 DEF Ind

LEMMA InvAllocFails ==
  ASSUME Ind, NEW c \in Client, AllocFails(c)
  PROVE  Ind'
<1> DEFINE b == client[c].b
<1>1. /\ client' \in [Client -> Call] /\ b \in Block /\ b \in areas
      /\ client[c].pc \in {"info", "array"} /\ client'[c] = Idle /\ client'[c].pc = "idle"
      /\ \A d \in Client \ {c} : client'[d] = client[d]
      /\ lost' = lost \cup {b}
      /\ UNCHANGED <<phase, thread, cursor, isoList, flag, filled, live, areas,
                     infos, arrays, told>>
  BY EndUpdate DEF AllocFails
<1>2. b \notin live
  BY <1>1 DEF Ind, CallInv, CallOK
<1>3. IsoTypeOK'
  BY <1>1 DEF Ind, IsoTypeOK, Call
<1>4. CallInv'
  <2>1. CallOK(c)'
    BY <1>1 DEF CallOK
  <2>2. ASSUME NEW d \in Client \ {c} PROVE CallOK(d)'
    BY <1>1, <2>2 DEF CallOK, Ind, CallInv
  <2> QED  BY <1>1, <2>1, <2>2 DEF Ind, CallInv
<1>5. HeapInv'
  BY <1>1, <1>2 DEF Ind, HeapInv
<1>6. ListInv'
  BY <1>1, ListFrame DEF Ind
<1>7. ThreadInv'
  BY <1>1 DEF Ind, ThreadInv, ThreadGone, Scanning
<1> QED  BY <1>3, <1>4, <1>5, <1>6, <1>7 DEF Ind

-----------------------------------------------------------------------------
(* The list.                                                                *)

\* An index of a list of pairs is that of a first or of a second.
LEMMA PairIndex ==
  ASSUME NEW n \in Nat, NEW i \in 1 .. 2 * n
  PROVE  \E k \in 1 .. n : i = 2 * k - 1 \/ i = 2 * k
<1>1. (i + 1) \div 2 \in 1 .. n
      /\ (i = 2 * ((i + 1) \div 2) - 1 \/ i = 2 * ((i + 1) \div 2))
  OBVIOUS
<1> QED  BY <1>1

\* Taking the m-th pair out.
LEMMA CutPair ==
  ASSUME NEW S, NEW s \in Seq(S), NEW n \in Nat, Len(s) = 2 * n, NEW m \in 1 .. n
  PROVE  LET t == SubSeq(s, 1, 2 * m - 2) \o SubSeq(s, 2 * m + 1, Len(s)) IN
           /\ t \in Seq(S) /\ Len(t) = 2 * (n - 1)
           /\ \A i \in 1 .. 2 * (n - 1) : t[i] = IF i <= 2 * m - 2 THEN s[i] ELSE s[i + 2]
<1> DEFINE x == SubSeq(s, 1, 2 * m - 2)
           y == SubSeq(s, 2 * m + 1, Len(s))
<1>1. \A i \in 1 .. 2 * n : s[i] \in S
  BY ElementOfSeq
<1>2. /\ x \in Seq(S) /\ Len(x) = 2 * m - 2
      /\ \A i \in 1 .. 2 * m - 2 : x[i] = s[i]
  <2>1. 1 \in Int /\ 2 * m - 2 \in Int /\ \A i \in 1 .. 2 * m - 2 : s[i] \in S
    BY <1>1
  <2>2. /\ x \in Seq(S) /\ Len(x) = IF 1 <= 2 * m - 2 THEN (2 * m - 2) - 1 + 1 ELSE 0
        /\ \A i \in 1 .. (2 * m - 2) - 1 + 1 : x[i] = s[1 + i - 1]
    BY <2>1, SubSeqProperties
  <2> HIDE DEF x
  <2> QED  BY <2>2
<1>3. /\ y \in Seq(S) /\ Len(y) = 2 * n - 2 * m
      /\ \A i \in 1 .. 2 * n - 2 * m : y[i] = s[2 * m + i]
  <2>1. 2 * m + 1 \in Int /\ 2 * n \in Int /\ \A i \in 2 * m + 1 .. 2 * n : s[i] \in S
    BY <1>1
  <2>2. /\ y \in Seq(S)
        /\ Len(y) = IF 2 * m + 1 <= 2 * n THEN 2 * n - (2 * m + 1) + 1 ELSE 0
        /\ \A i \in 1 .. 2 * n - (2 * m + 1) + 1 : y[i] = s[(2 * m + 1) + i - 1]
    BY <2>1, SubSeqProperties
  <2> HIDE DEF y
  <2>3. Len(y) = 2 * n - 2 * m
    BY <2>2
  <2>4. ASSUME NEW i \in 1 .. 2 * n - 2 * m PROVE y[i] = s[2 * m + i]
    <3>1. i \in 1 .. 2 * n - (2 * m + 1) + 1 /\ (2 * m + 1) + i - 1 = 2 * m + i
      OBVIOUS
    <3> QED  BY <2>2, <3>1
  <2> QED  BY <2>2, <2>3, <2>4
<1> HIDE DEF x, y
<1>4. /\ x \o y \in Seq(S) /\ Len(x \o y) = Len(x) + Len(y)
      /\ \A i \in 1 .. Len(x) + Len(y) : (x \o y)[i] =
           IF i <= Len(x) THEN x[i] ELSE y[i - Len(x)]
  BY <1>2, <1>3, ConcatProperties
<1>5. Len(x \o y) = 2 * (n - 1)
  BY <1>2, <1>3, <1>4
<1>6. ASSUME NEW i \in 1 .. 2 * (n - 1)
      PROVE  (x \o y)[i] = IF i <= 2 * m - 2 THEN s[i] ELSE s[i + 2]
  <2>1. CASE i <= 2 * m - 2
    BY <1>2, <1>3, <1>4, <2>1
  <2>2. CASE ~(i <= 2 * m - 2)
    <3>1. i - Len(x) \in 1 .. 2 * n - 2 * m /\ 2 * m + (i - Len(x)) = i + 2
      BY <1>2, <2>2
    <3>2. (x \o y)[i] = y[i - Len(x)]
      BY <1>2, <1>3, <1>4, <2>2
    <3>3. y[i - Len(x)] = s[2 * m + (i - Len(x))]
      BY <1>3, <3>1
    <3> QED  BY <2>2, <3>1, <3>2, <3>3
  <2> QED  BY <2>1, <2>2
<1> QED  BY <1>4, <1>5, <1>6 DEF x, y

\* Putting a pair before the first.
LEMMA AddPair ==
  ASSUME NEW S, NEW s \in Seq(S), NEW u \in S, NEW v \in S
  PROVE  LET t == <<u, v>> \o s IN
           /\ t \in Seq(S) /\ Len(t) = Len(s) + 2
           /\ t[1] = u /\ t[2] = v
           /\ \A i \in 1 .. Len(s) : t[i + 2] = s[i]
<1> DEFINE x == <<u, v>>
<1>1. x \in Seq(S) /\ Len(x) = 2 /\ x[1] = u /\ x[2] = v
  OBVIOUS
<1>2. Len(s) \in Nat
  BY LenProperties
<1> HIDE DEF x
<1>3. /\ x \o s \in Seq(S) /\ Len(x \o s) = Len(x) + Len(s)
      /\ \A i \in 1 .. Len(x) + Len(s) : (x \o s)[i] =
           IF i <= Len(x) THEN x[i] ELSE s[i - Len(x)]
  BY <1>1, ConcatProperties
<1>4. (x \o s)[1] = u /\ (x \o s)[2] = v
  BY <1>1, <1>2, <1>3
<1>5. ASSUME NEW i \in 1 .. Len(s) PROVE (x \o s)[i + 2] = s[i]
  BY <1>1, <1>2, <1>3
<1> QED  BY <1>1, <1>2, <1>3, <1>4, <1>5 DEF x

\* A block that is guarded is allocated, with all that belongs to it.
LEMMA GuardedFacts ==
  ASSUME Ind, NEW b \in Guarded
  PROVE  /\ b \in Block /\ b \in areas /\ Area(b) \subseteq Cell
         /\ b.base \in arrays /\ b.base \in infos
BY DEF Ind, IsoTypeOK, HeapInv, CallInv, CallOK, Guarded, InCall

\* The zones on the list are those of the guarded blocks.
LEMMA ListedZones ==
  ASSUME Ind
  PROVE  Listed = {FirstZone(b) : b \in Guarded} \cup {SecondZone(b) : b \in Guarded}
<1>1. PICK n \in 0 .. Len(isoList) : \E order \in [1 .. n -> Guarded] : Pairs(n, order)
  BY DEF Ind, ListInv
<1>2. PICK order \in [1 .. n -> Guarded] : Pairs(n, order)
  BY <1>1
<1>3. Len(isoList) = 2 * n /\ n \in Nat /\ DOMAIN isoList = 1 .. 2 * n
  BY <1>2, LenProperties DEF Pairs, Ind, IsoTypeOK
<1>4. Listed = {isoList[i] : i \in 1 .. 2 * n}
  BY <1>3 DEF Listed, ToSet
<1>5. ASSUME NEW i \in 1 .. 2 * n
      PROVE  \E b \in Guarded : isoList[i] = FirstZone(b) \/ isoList[i] = SecondZone(b)
  <2>1. PICK k \in 1 .. n : i = 2 * k - 1 \/ i = 2 * k
    BY <1>3, PairIndex
  <2>2. order[k] \in Guarded
    BY <1>2
  <2> QED  BY <1>2, <2>1, <2>2 DEF Pairs
<1>6. ASSUME NEW b \in Guarded PROVE FirstZone(b) \in Listed /\ SecondZone(b) \in Listed
  <2>1. PICK k \in 1 .. n : order[k] = b
    BY <1>2 DEF Pairs
  <2>2. 2 * k - 1 \in 1 .. 2 * n /\ 2 * k \in 1 .. 2 * n
    BY <1>3
  <2> QED  BY <1>2, <1>4, <2>1, <2>2 DEF Pairs
<1> QED  BY <1>4, <1>5, <1>6

LEMMA ListedTypes ==
  ASSUME Ind, NEW z \in Listed PROVE z \in Zone
<1>1. isoList \in Seq(Zone) /\ \E i \in 1 .. Len(isoList) : z = isoList[i]
  BY LenProperties DEF Ind, IsoTypeOK, Listed, ToSet
<1> QED  BY <1>1, ElementOfSeq

\* A zone of an allocated block: its address is no other zone's.
LEMMA AddrOwn ==
  ASSUME IsoTypeOK, HeapInv, NEW b \in areas, NEW d \in areas,
         NEW y \in {FirstZone(b), SecondZone(b)}, NEW z \in {FirstZone(d), SecondZone(d)},
         y.addr = z.addr
  PROVE  b = d /\ y = z
<1>1. b \in Block /\ d \in Block
  BY DEF IsoTypeOK
<1>2. y.addr \in Area(b) /\ z.addr \in Area(d)
  BY <1>1, BlockFits
<1>3. b = d
  BY <1>2 DEF HeapInv
<1> QED  BY <1>1, <1>3, BlockFits

\* The structs are linked, and the block is its client's.
LEMMA ListLink ==
  ASSUME Ind, NEW c \in Client, client[c].pc = "link", Link(c),
         Guarded' = Guarded \cup {client[c].b}
  PROVE  ListInv' /\ isoList' \in Seq(Zone)
<1>0. PICK b : b = client[c].b
  OBVIOUS
<1>1. /\ b \in Block /\ Area(b) \subseteq Cell /\ b \notin Guarded
      /\ isoList \in Seq(Zone)
  BY <1>0 DEF Ind, IsoTypeOK, HeapInv, CallInv, CallOK, Guarded, InCall
<1>2. FirstZone(b) \in Zone /\ SecondZone(b) \in Zone
  BY <1>1, ZoneTypes
<1>3. /\ isoList' = <<SecondZone(b), FirstZone(b)>> \o isoList
      /\ flag' = flag \ {FirstZone(b).addr, SecondZone(b).addr}
      /\ told' = [told EXCEPT ![FirstZone(b).addr] = 0, ![SecondZone(b).addr] = 0]
      /\ told \in [Cell -> Nat]
  BY <1>0 DEF Link, Ind, IsoTypeOK
<1>4. PICK n \in 0 .. Len(isoList) : \E order \in [1 .. n -> Guarded] : Pairs(n, order)
  BY DEF Ind, ListInv
<1>5. PICK order \in [1 .. n -> Guarded] : Pairs(n, order)
  BY <1>4
<1>6. n \in Nat /\ Len(isoList) = 2 * n
  BY <1>1, <1>5, LenProperties DEF Pairs
<1>7. /\ isoList' \in Seq(Zone) /\ Len(isoList') = 2 * n + 2
      /\ isoList'[1] = SecondZone(b) /\ isoList'[2] = FirstZone(b)
      /\ \A i \in 1 .. 2 * n : isoList'[i + 2] = isoList[i]
  BY <1>1, <1>2, <1>3, <1>6, AddPair
<1>8. PICK new \in [1 .. n + 1 -> Guarded \cup {b}] :
        /\ new[1] = b
        /\ \A k \in 1 .. n : new[k + 1] = order[k]
        /\ \A k \in 1 .. n + 1 : k = 1 \/ (k - 1 \in 1 .. n /\ new[k] = order[k - 1])
  <2> DEFINE x == [k \in 1 .. n + 1 |-> IF k = 1 THEN b ELSE order[k - 1]]
  <2>1. \A k \in 1 .. n + 1 : k = 1 \/ k - 1 \in 1 .. n
    BY <1>6
  <2>2. \A k \in 1 .. n : k + 1 \in 1 .. n + 1 /\ k + 1 # 1 /\ (k + 1) - 1 = k
    BY <1>6
  <2>3. /\ x \in [1 .. n + 1 -> Guarded \cup {b}] /\ x[1] = b
        /\ \A k \in 1 .. n : x[k + 1] = order[k]
        /\ \A k \in 1 .. n + 1 : k = 1 \/ (k - 1 \in 1 .. n /\ x[k] = order[k - 1])
    BY <1>6, <2>1, <2>2
  <2> QED  BY <2>3
<1>9. Pairs(n + 1, new)'
  <2>1. Len(isoList') = 2 * (n + 1)
    BY <1>6, <1>7
  <2>2. ASSUME NEW k \in 1 .. n + 1
        PROVE  /\ isoList'[2 * k - 1] = SecondZone(new[k])
               /\ isoList'[2 * k] = FirstZone(new[k])
    <3>1. CASE k = 1
      BY <1>7, <1>8, <3>1
    <3>2. CASE k # 1
      <4>1. /\ k - 1 \in 1 .. n /\ new[k] = order[k - 1]
            /\ isoList[2 * (k - 1) - 1] = SecondZone(order[k - 1])
            /\ isoList[2 * (k - 1)] = FirstZone(order[k - 1])
        BY <1>5, <1>8, <3>2 DEF Pairs
      <4>2. /\ 2 * (k - 1) - 1 \in 1 .. 2 * n /\ (2 * (k - 1) - 1) + 2 = 2 * k - 1
            /\ 2 * (k - 1) \in 1 .. 2 * n /\ 2 * (k - 1) + 2 = 2 * k
        BY <1>6, <4>1
      <4>3. /\ isoList'[(2 * (k - 1) - 1) + 2] = isoList[2 * (k - 1) - 1]
            /\ isoList'[2 * (k - 1) + 2] = isoList[2 * (k - 1)]
        BY <1>7, <4>2
      <4> QED  BY <4>1, <4>2, <4>3
    <3> QED  BY <3>1, <3>2
  <2>3. ASSUME NEW j \in 1 .. n + 1, NEW k \in 1 .. n + 1, new[j] = new[k]
        PROVE  j = k
    <3>1. \A i \in 1 .. n + 1 : i # 1 => new[i] # b
      BY <1>1, <1>5, <1>8
    <3>2. CASE j = 1 \/ k = 1
      BY <1>8, <2>3, <3>1, <3>2
    <3>3. CASE j # 1 /\ k # 1
      <4>1. j - 1 \in 1 .. n /\ k - 1 \in 1 .. n /\ order[j - 1] = order[k - 1]
        BY <1>8, <2>3, <3>3
      <4>2. j - 1 = k - 1
        BY <1>5, <4>1 DEF Pairs
      <4> QED  BY <1>6, <4>2
    <3> QED  BY <3>2, <3>3
  <2>4. ASSUME NEW d \in Guarded \cup {b} PROVE \E k \in 1 .. n + 1 : new[k] = d
    <3>1. CASE d = b
      BY <1>6, <1>8, <3>1
    <3>2. CASE d \in Guarded
      <4>1. PICK k \in 1 .. n : order[k] = d
        BY <1>5, <3>2 DEF Pairs
      <4>2. k + 1 \in 1 .. n + 1
        BY <1>6
      <4> QED  BY <1>8, <4>1, <4>2
    <3> QED  BY <3>1, <3>2
  <2>5. Guarded' = Guarded \cup {b}
    BY <1>0
  <2>6. \A d \in Guarded' : \E k \in 1 .. n + 1 : new[k] = d
    BY <2>4, <2>5
  <2> QED  BY <2>1, <2>2, <2>3, <2>6 DEF Pairs
<1>10. \A z \in Listed' : told'[z.addr] = IF z.addr \in flag' THEN 1 ELSE 0
  <2>1. Listed' \subseteq Listed \cup {FirstZone(b), SecondZone(b)}
    <3>1. DOMAIN isoList' = 1 .. 2 * n + 2 /\ DOMAIN isoList = 1 .. 2 * n
      BY <1>1, <1>6, <1>7, LenProperties
    <3>2. \A i \in 1 .. 2 * n + 2 : i = 1 \/ i = 2 \/ (i - 2 \in 1 .. 2 * n /\ i = (i - 2) + 2)
      BY <1>6
    <3>3. \A i \in 1 .. 2 * n + 2 :
            \/ isoList'[i] \in {FirstZone(b), SecondZone(b)}
            \/ \E j \in 1 .. 2 * n : isoList'[i] = isoList[j]
      BY <1>7, <3>2
    <3> QED  BY <3>1, <3>3 DEF Listed, ToSet
  <2>2. ASSUME NEW z \in Listed' PROVE z.addr \in Cell
    BY <1>2, <2>1, ListedTypes DEF Zone
  <2>3. ASSUME NEW z \in Listed', z.addr \in {FirstZone(b).addr, SecondZone(b).addr}
        PROVE  told'[z.addr] = 0 /\ z.addr \notin flag'
    BY <1>3, <2>2, <2>3
  <2>4. ASSUME NEW z \in Listed', z.addr \notin {FirstZone(b).addr, SecondZone(b).addr}
        PROVE  /\ z \in Listed /\ told'[z.addr] = told[z.addr]
               /\ z.addr \in flag' <=> z.addr \in flag
    BY <1>3, <2>1, <2>2, <2>4
  <2>5. \A z \in Listed : told[z.addr] = IF z.addr \in flag THEN 1 ELSE 0
    BY DEF Ind, ListInv
  <2> QED  BY <2>3, <2>4, <2>5
<1>11. n + 1 \in 0 .. Len(isoList') /\ new \in [1 .. n + 1 -> Guarded']
  BY <1>0, <1>6, <1>7, <1>8
<1> QED  BY <1>7, <1>9, <1>10, <1>11 DEF ListInv

\* The search of a free ends at the first zone of its block.
LEMMA FindsOwn ==
  ASSUME Ind, NEW n \in Nat, NEW order \in [1 .. n -> Guarded], Pairs(n, order),
         NEW m \in 1 .. n
  PROVE  FoundAt(order[m]) = 2 * m
<1> DEFINE b == order[m]
           found == {i \in 1 .. Len(isoList) : isoList[i].addr = b.base}
<1>1. b \in Guarded /\ b \in Block /\ b \in areas /\ Len(isoList) = 2 * n
  BY GuardedFacts DEF Pairs
<1>2. FirstZone(b).addr = b.base /\ isoList[2 * m] = FirstZone(b) /\ 2 * m \in 1 .. 2 * n
  BY <1>1, BlockFits DEF Pairs
<1>3. ASSUME NEW i \in 1 .. 2 * n, isoList[i].addr = b.base PROVE i = 2 * m
  <2>1. PICK k \in 1 .. n : i = 2 * k - 1 \/ i = 2 * k
    BY PairIndex
  <2>2. /\ isoList[2 * k - 1] = SecondZone(order[k]) /\ isoList[2 * k] = FirstZone(order[k])
        /\ order[k] \in areas
    BY GuardedFacts DEF Pairs
  <2>3. isoList[i] \in {FirstZone(order[k]), SecondZone(order[k])}
    BY <2>1, <2>2
  <2>4. order[k] = b /\ isoList[i] = FirstZone(b)
    BY <1>1, <1>2, <1>3, <2>2, <2>3, AddrOwn DEF Ind
  <2>5. k = m
    BY <2>4 DEF Pairs
  <2>6. FirstZone(b) # SecondZone(b)
    BY <1>1, BlockFits
  <2> QED  BY <2>1, <2>2, <2>4, <2>5, <2>6
<1>4. found = {2 * m}
  BY <1>1, <1>2, <1>3
<1> HIDE DEF found
<1>5. Min(found) = 2 * m
  BY <1>4 DEF Min
<1> QED  BY <1>5 DEF FoundAt, found

\* The pair of the block leaves the list, no other does.
LEMMA ListUnlink ==
  ASSUME Ind, NEW c \in Client, client[c].pc = "unlink", Unlink(c),
         Guarded' = Guarded \ {client[c].b}
  PROVE  /\ ListInv' /\ isoList' \in Seq(Zone)
         /\ isoList[FoundAt(client[c].b)].a = client[c].b.base
<1>1. PICK b \in Guarded : b = client[c].b
  BY DEF Guarded, InCall
<1>2. PICK n \in 0 .. Len(isoList) : \E order \in [1 .. n -> Guarded] : Pairs(n, order)
  BY DEF Ind, ListInv
<1>3. PICK order \in [1 .. n -> Guarded] : Pairs(n, order)
  BY <1>2
<1>4. isoList \in Seq(Zone) /\ n \in Nat /\ Len(isoList) = 2 * n
  BY <1>3, LenProperties DEF Pairs, Ind, IsoTypeOK
<1>5. PICK m \in 1 .. n : order[m] = b
  BY <1>3 DEF Pairs
<1>6. FoundAt(b) = 2 * m
  BY <1>3, <1>4, <1>5, FindsOwn
<1>7. isoList' = SubSeq(isoList, 1, 2 * m - 2) \o SubSeq(isoList, 2 * m + 1, Len(isoList))
      /\ UNCHANGED <<flag, told>>
  BY <1>1, <1>6 DEF Unlink
<1>8. /\ isoList' \in Seq(Zone) /\ Len(isoList') = 2 * (n - 1)
      /\ \A i \in 1 .. 2 * (n - 1) :
           isoList'[i] = IF i <= 2 * m - 2 THEN isoList[i] ELSE isoList[i + 2]
  <2> DEFINE cut(s, i) == SubSeq(s, 1, 2 * i - 2) \o SubSeq(s, 2 * i + 1, Len(s))
  <2>1. /\ cut(isoList, m) \in Seq(Zone) /\ Len(cut(isoList, m)) = 2 * (n - 1)
        /\ \A i \in 1 .. 2 * (n - 1) : cut(isoList, m)[i] =
             IF i <= 2 * m - 2 THEN isoList[i] ELSE isoList[i + 2]
    BY <1>4, CutPair, Zenon
  <2> QED  BY <1>7, <2>1, Zenon
<1>9. PICK new \in [1 .. n - 1 -> Guarded \ {b}] :
        \A k \in 1 .. n - 1 : new[k] = IF k < m THEN order[k] ELSE order[k + 1]
  <2> DEFINE x == [k \in 1 .. n - 1 |-> IF k < m THEN order[k] ELSE order[k + 1]]
  <2>1. ASSUME NEW k \in 1 .. n - 1 PROVE x[k] \in Guarded \ {b}
    <3>1. k \in 1 .. n /\ k + 1 \in 1 .. n /\ (k < m => k # m) /\ (~(k < m) => k + 1 # m)
      BY <1>4
    <3>2. \A j \in 1 .. n : j # m => order[j] \in Guarded \ {b}
      BY <1>3, <1>5 DEF Pairs
    <3> QED  BY <3>1, <3>2
  <2>2. x \in [1 .. n - 1 -> Guarded \ {b}]
    BY <2>1
  <2> QED  BY <2>2
<1>10. Pairs(n - 1, new)'
  <2>1. ASSUME NEW k \in 1 .. n - 1
        PROVE  /\ isoList'[2 * k - 1] = SecondZone(new[k])
               /\ isoList'[2 * k] = FirstZone(new[k])
    <3>1. /\ 2 * k - 1 \in 1 .. 2 * (n - 1) /\ 2 * k \in 1 .. 2 * (n - 1)
          /\ k \in 1 .. n /\ k + 1 \in 1 .. n
      BY <1>4
    <3>2. CASE k < m
      <4>1. 2 * k - 1 <= 2 * m - 2 /\ 2 * k <= 2 * m - 2
        BY <1>4, <3>2
      <4>2. isoList'[2 * k - 1] = isoList[2 * k - 1] /\ isoList'[2 * k] = isoList[2 * k]
        BY <1>8, <3>1, <4>1
      <4> QED  BY <1>3, <1>9, <3>1, <3>2, <4>2 DEF Pairs
    <3>3. CASE ~(k < m)
      <4>1. /\ ~(2 * k - 1 <= 2 * m - 2) /\ ~(2 * k <= 2 * m - 2)
            /\ (2 * k - 1) + 2 = 2 * (k + 1) - 1 /\ 2 * k + 2 = 2 * (k + 1)
        BY <1>4, <3>3
      <4>2. /\ isoList'[2 * k - 1] = isoList[2 * (k + 1) - 1]
            /\ isoList'[2 * k] = isoList[2 * (k + 1)]
        <5>1. isoList'[2 * k - 1] = isoList[(2 * k - 1) + 2]
          BY <1>8, <3>1, <4>1
        <5>2. isoList'[2 * k] = isoList[2 * k + 2]
          BY <1>8, <3>1, <4>1
        <5> QED  BY <4>1, <5>1, <5>2
      <4> QED  BY <1>3, <1>9, <3>1, <3>3, <4>2 DEF Pairs
    <3> QED  BY <3>2, <3>3
  <2>2. ASSUME NEW j \in 1 .. n - 1, NEW k \in 1 .. n - 1, new[j] = new[k]
        PROVE  j = k
    <3> DEFINE at(i) == IF i < m THEN i ELSE i + 1
    <3>1. /\ at(j) \in 1 .. n /\ at(k) \in 1 .. n
          /\ new[j] = order[at(j)] /\ new[k] = order[at(k)]
      BY <1>4, <1>9
    <3>2. at(j) = at(k)
      <4> HIDE DEF at
      <4> QED  BY <1>3, <2>2, <3>1 DEF Pairs
    <3> QED  BY <1>4, <3>2
  <2>3. ASSUME NEW d \in Guarded \ {b} PROVE \E k \in 1 .. n - 1 : new[k] = d
    <3>1. PICK k \in 1 .. n : order[k] = d
      BY <1>3 DEF Pairs
    <3>2. k # m
      BY <1>5, <2>3, <3>1
    <3>3. CASE k < m
      <4>1. k \in 1 .. n - 1
        BY <1>4, <3>3
      <4> QED  BY <1>9, <3>1, <3>3, <4>1
    <3>4. CASE k > m
      <4>1. k - 1 \in 1 .. n - 1 /\ ~(k - 1 < m) /\ (k - 1) + 1 = k
        BY <1>4, <3>4
      <4> QED  BY <1>9, <3>1, <4>1
    <3> QED  BY <1>4, <3>2, <3>3, <3>4
  <2>4. \A d \in Guarded' : \E k \in 1 .. n - 1 : new[k] = d
    BY <1>1, <2>3
  <2> QED  BY <1>8, <2>1, <2>2, <2>4 DEF Pairs
<1>11. Listed' \subseteq Listed
  <2>1. DOMAIN isoList' = 1 .. 2 * (n - 1) /\ DOMAIN isoList = 1 .. 2 * n
    BY <1>4, <1>8, LenProperties
  <2>2. \A i \in 1 .. 2 * (n - 1) : i \in 1 .. 2 * n /\ i + 2 \in 1 .. 2 * n
    BY <1>4
  <2>3. \A i \in 1 .. 2 * (n - 1) : \E j \in 1 .. 2 * n : isoList'[i] = isoList[j]
    BY <1>8, <2>2
  <2> QED  BY <2>1, <2>3 DEF Listed, ToSet
<1>12. \A z \in Listed' : told'[z.addr] = IF z.addr \in flag' THEN 1 ELSE 0
  BY <1>7, <1>11 DEF Ind, ListInv
<1>13. n - 1 \in 0 .. Len(isoList') /\ new \in [1 .. n - 1 -> Guarded']
  BY <1>1, <1>4, <1>8
<1>14. isoList[FoundAt(b)].a = b.base
  <2>1. isoList[2 * m] = FirstZone(b) /\ b \in Block
    BY <1>3, <1>5, GuardedFacts DEF Pairs
  <2> QED  BY <1>6, <2>1, BlockFits
<1> QED  BY <1>1, <1>8, <1>10, <1>12, <1>13, <1>14 DEF ListInv

-----------------------------------------------------------------------------
(* Blocks returned and given back.                                          *)

LEMMA InvLink ==
  ASSUME Ind, NEW c \in Client, Link(c)
  PROVE  Ind'
<1> DEFINE b == client[c].b
<1>1. /\ client' \in [Client -> Call] /\ b \in Block /\ b \in areas
      /\ client[c].pc = "link" /\ client'[c] = Idle /\ client'[c].pc = "idle"
      /\ \A d \in Client \ {c} : client'[d] = client[d]
      /\ ~Scanning
      /\ live' = live \cup {b}
      /\ UNCHANGED <<phase, thread, cursor, filled, lost, areas, infos, arrays>>
  BY EndUpdate DEF Link
<1>2. b \notin live \cup lost /\ b.base \in arrays /\ b.base \in infos
  BY <1>1 DEF Ind, CallInv, CallOK
<1>3. Guarded' = Guarded \cup {b}
  BY <1>1 DEF Guarded, InCall
<1>4. ListInv' /\ isoList' \in Seq(Zone)
  BY <1>1, <1>3, ListLink
<1>5. /\ flag' = flag \ {FirstZone(b).addr, SecondZone(b).addr}
      /\ told' = [told EXCEPT ![FirstZone(b).addr] = 0, ![SecondZone(b).addr] = 0]
  BY DEF Link
<1>6. told' \in [Cell -> Nat]
  BY <1>5 DEF Ind, IsoTypeOK
<1>7. cursor = 1 /\ 1 \in 1 .. Len(isoList') + 1
  BY <1>1, <1>4, LenProperties DEF Ind, ThreadInv
<1> HIDE DEF b
<1>8. IsoTypeOK'
  BY <1>1, <1>4, <1>5, <1>6, <1>7 DEF Ind, IsoTypeOK, Call
<1>9. CallInv'
  <2>1. CallOK(c)'
    BY <1>1 DEF CallOK
  <2>2. ASSUME NEW d \in Client \ {c} PROVE CallOK(d)'
    BY <1>1, <2>2 DEF CallOK, Ind, CallInv, b
  <2> QED  BY <1>1, <2>1, <2>2 DEF Ind, CallInv
<1>10. HeapInv'
  BY <1>1, <1>2 DEF Ind, HeapInv, b
<1>11. ThreadInv'
  BY <1>1 DEF Ind, ThreadInv, ThreadGone, Scanning
<1> QED  BY <1>4, <1>8, <1>9, <1>10, <1>11 DEF Ind

\* A free begins: the block is the call's, its structs still linked.
LEMMA InvEnterFree ==
  ASSUME Ind, NEW c \in Client, EnterFree(c)
  PROVE  Ind'
<1>1. PICK b \in live :
        /\ phase = "in" /\ client[c] = Idle
        /\ client' = [client EXCEPT ![c] = [Idle EXCEPT !.pc = "unlink", !.b = b]]
        /\ live' = live \ {b}
        /\ UNCHANGED <<phase, thread, cursor, isoList, flag, filled, lost, areas,
                       infos, arrays, told>>
  BY DEF EnterFree
<1>2. b \in Block /\ b \in areas /\ b \notin lost /\ b.base \in arrays /\ b.base \in infos
  BY DEF Ind, IsoTypeOK, HeapInv
<1> DEFINE v == [Idle EXCEPT !.pc = "unlink", !.b = b]
<1>3. v \in Call /\ v.pc = "unlink" /\ v.b = b /\ Idle.pc = "idle"
  BY <1>2 DEF Call, Idle
<1>4. client' = [client EXCEPT ![c] = v]
  BY <1>1
<1> HIDE DEF v
<1>5. /\ client' \in [Client -> Call] /\ client[c].pc = "idle"
      /\ client'[c].pc = "unlink" /\ client'[c].b = b
      /\ \A d \in Client \ {c} : client'[d] = client[d]
  BY <1>1, <1>3, <1>4, CallUpdate DEF Ind
<1>6. \A d \in Client : client[d].pc # "idle" => client[d].b # b
  BY DEF Ind, CallInv, CallOK
<1>7. IsoTypeOK'
  BY <1>1, <1>5 DEF Ind, IsoTypeOK, Call
<1>8. CallInv'
  <2>1. CallOK(c)'
    BY <1>1, <1>2, <1>5 DEF CallOK
  <2>2. ASSUME NEW d \in Client \ {c} PROVE CallOK(d)'
    BY <1>1, <1>5, <2>2 DEF CallOK, Ind, CallInv
  <2> QED  BY <1>5, <1>6, <2>1, <2>2 DEF Ind, CallInv
<1>9. HeapInv'
  BY <1>1, <1>5 DEF Ind, HeapInv
<1>10. ListInv'
  <2>1. Guarded' = Guarded
    BY <1>1, <1>5 DEF Guarded, InCall
  <2> QED  BY <1>1, <2>1, ListKept DEF Ind
<1>11. ThreadInv'
  BY <1>1 DEF Ind, ThreadInv, ThreadGone, Scanning
<1> QED  BY <1>7, <1>8, <1>9, <1>10, <1>11 DEF Ind

LEMMA InvUnlink ==
  ASSUME Ind, NEW c \in Client, Unlink(c)
  PROVE  Ind'
<1> DEFINE b == client[c].b
           i == FoundAt(b)
<1>1. /\ phase = "in" /\ client[c].pc = "unlink" /\ ~Scanning
      /\ UNCHANGED <<phase, thread, cursor, flag, filled, live, lost, areas,
                     infos, arrays, told>>
  BY DEF Unlink, heap
<1>2. /\ b \in Block /\ b \in areas /\ b \notin live \cup lost /\ b.base \in Cell
      /\ b.base \in arrays /\ b.base \in infos /\ client[c] \in Call
  BY <1>1, BlockFits DEF Ind, IsoTypeOK, CallInv, CallOK, Call
<1> DEFINE v(t) == [client[c] EXCEPT !.pc = "release", !.temp = t]
<1>3. \A t : v(t).pc = "release" /\ v(t).b = b
  BY <1>2 DEF Call
<1>4. client' = [client EXCEPT ![c] = v(isoList[i].a)]
  BY DEF Unlink
<1>5. v(b.base) \in Call /\ v(b.base).temp = b.base
  BY <1>2 DEF Call
<1> HIDE DEF v, i
<1>6. /\ client'[c].pc = "release"
      /\ \A d \in Client \ {c} : client'[d] = client[d]
  BY <1>3, <1>4 DEF Ind, IsoTypeOK
<1>7. Guarded' = Guarded \ {b}
  <2>1. \A d \in Client \ {c} : client[d].pc = "unlink" => client[d].b # b
    BY <1>1 DEF Ind, CallInv
  <2> HIDE DEF b
  <2>2. InCall({"unlink"})' = InCall({"unlink"}) \ {b}
    <3>1. client[c].b = b
      BY DEF b
    <3> QED  BY <1>1, <1>6, <2>1, <3>1 DEF InCall
  <2> QED  BY <1>1, <1>2, <2>2 DEF Guarded
<1>8. ListInv' /\ isoList' \in Seq(Zone) /\ isoList[i].a = b.base
  BY <1>1, <1>7, ListUnlink DEF i
<1>9. /\ client' \in [Client -> Call]
      /\ client'[c].b = b /\ client'[c].temp = b.base
  BY <1>3, <1>4, <1>5, <1>8, CallUpdate DEF Ind
<1>10. cursor = 1 /\ 1 \in 1 .. Len(isoList') + 1
  BY <1>1, <1>8, LenProperties DEF Ind, ThreadInv
<1> HIDE DEF b
<1>11. IsoTypeOK'
  BY <1>1, <1>8, <1>9, <1>10 DEF Ind, IsoTypeOK, Call
<1>12. CallInv'
  <2>1. CallOK(c)'
    BY <1>1, <1>2, <1>6, <1>9 DEF CallOK
  <2>2. ASSUME NEW d \in Client \ {c} PROVE CallOK(d)'
    BY <1>1, <1>6, <2>2 DEF CallOK, Ind, CallInv
  <2> QED  BY <1>1, <1>6, <1>9, <2>1, <2>2 DEF Ind, CallInv, b
<1>13. HeapInv'
  BY <1>1, <1>6, <1>9 DEF Ind, HeapInv, b
<1>14. ThreadInv'
  BY <1>1 DEF Ind, ThreadInv, ThreadGone, Scanning
<1> QED  BY <1>8, <1>11, <1>12, <1>13, <1>14 DEF Ind

\* The structs and their buffer go back, no other's.
LEMMA InvRelease ==
  ASSUME Ind, NEW c \in Client, Release(c)
  PROVE  Ind'
<1> DEFINE b == client[c].b
<1>1. /\ client' \in [Client -> Call] /\ b \in Block /\ b \in areas
      /\ client[c].pc = "release" /\ client'[c].pc = "area" /\ client'[c].b = b
      /\ client[c].temp = b.base
      /\ \A d \in Client \ {c} : client'[d] = client[d]
      /\ infos' = infos \ {b.base} /\ arrays' = arrays \ {b.base}
      /\ UNCHANGED <<phase, thread, cursor, isoList, flag, filled, live, lost,
                     areas, told>>
  BY StepUpdate DEF Release, Ind, CallInv, CallOK
<1>2. b \notin live \cup lost /\ \A d \in areas : d # b => d.base # b.base
  BY <1>1, BaseIsBlock DEF Ind, CallInv, CallOK
<1> HIDE DEF b
<1>3. IsoTypeOK'
  BY <1>1 DEF Ind, IsoTypeOK, Call
<1>4. CallInv'
  <2>1. CallOK(c)'
    BY <1>1, <1>2 DEF CallOK, Ind, CallInv, b
  <2>2. ASSUME NEW d \in Client \ {c} PROVE CallOK(d)'
    BY <1>1, <1>2, <2>2 DEF CallOK, Ind, CallInv, b
  <2> QED  BY <1>1, <2>1, <2>2 DEF Ind, CallInv, b
<1>5. HeapInv'
  BY <1>1, <1>2 DEF Ind, HeapInv, b
<1>6. ListInv'
  BY <1>1, ListFrame DEF Ind
<1>7. ThreadInv'
  BY <1>1 DEF Ind, ThreadInv, ThreadGone, Scanning
<1> QED  BY <1>3, <1>4, <1>5, <1>6, <1>7 DEF Ind

\* The area goes back; nothing was left in it.
LEMMA InvFreeArea ==
  ASSUME Ind, NEW c \in Client, FreeArea(c)
  PROVE  Ind'
<1> DEFINE b == client[c].b
<1>1. /\ client' \in [Client -> Call] /\ b \in Block /\ b \in areas
      /\ client[c].pc = "area" /\ client'[c] = Idle /\ client'[c].pc = "idle"
      /\ \A d \in Client \ {c} : client'[d] = client[d]
      /\ areas' = areas \ {b} /\ filled' = filled \ Area(b)
      /\ UNCHANGED <<phase, thread, cursor, isoList, flag, live, lost, infos,
                     arrays, told>>
  BY EndUpdate DEF FreeArea
<1>2. b \notin live \cup lost /\ b.base \notin arrays /\ b.base \notin infos
  BY <1>1 DEF Ind, CallInv, CallOK
<1>3. \A d \in areas : GuardCells(d) \subseteq Area(d) /\ (d # b => Area(d) \cap Area(b) = {})
  BY <1>1, BlockFits DEF Ind, IsoTypeOK, HeapInv
<1> HIDE DEF b
<1>4. IsoTypeOK'
  BY <1>1 DEF Ind, IsoTypeOK, Call
<1>5. CallInv'
  <2>1. CallOK(c)'
    BY <1>1 DEF CallOK
  <2>2. ASSUME NEW d \in Client \ {c} PROVE CallOK(d)'
    BY <1>1, <1>3, <2>2 DEF CallOK, Ind, CallInv, b
  <2> QED  BY <1>1, <2>1, <2>2 DEF Ind, CallInv, b
<1>6. HeapInv'
  BY <1>1, <1>2 DEF Ind, HeapInv, b
<1>7. ListInv'
  BY <1>1, ListFrame DEF Ind
<1>8. ThreadInv'
  BY <1>1 DEF Ind, ThreadInv, ThreadGone, Scanning
<1> QED  BY <1>4, <1>5, <1>6, <1>7, <1>8 DEF Ind

-----------------------------------------------------------------------------
(* The other steps.                                                         *)

\* A client writes to its own area only.
LEMMA InvWrite ==
  ASSUME Ind, Write
  PROVE  Ind'
<1>0. PICK b \in live : \E x \in Area(b) :
        /\ filled' = IF x \in filled THEN filled \ {x} ELSE filled \cup {x}
        /\ UNCHANGED <<phase, thread, cursor, isoList, flag, client, live, told, heap>>
  BY DEF Write
<1>1. PICK x \in Area(b) :
        /\ filled' = IF x \in filled THEN filled \ {x} ELSE filled \cup {x}
        /\ UNCHANGED <<phase, thread, cursor, isoList, flag, client, live, told,
                       areas, infos, arrays, lost>>
  BY <1>0 DEF heap
<1>2. b \in areas /\ x \in Cell
  BY DEF Ind, HeapInv
<1>3. \A c \in Client : client[c].pc # "idle" =>
        /\ client[c].b \in areas /\ client[c].b # b
        /\ x \notin GuardCells(client[c].b)
  BY <1>2, BlockFits DEF Ind, IsoTypeOK, CallInv, CallOK, HeapInv
<1>4. IsoTypeOK'
  BY <1>1, <1>2 DEF Ind, IsoTypeOK
<1>5. CallInv'
  <2>1. ASSUME NEW d \in Client PROVE CallOK(d)'
    BY <1>1, <1>3 DEF CallOK, Ind, CallInv
  <2> QED  BY <1>1, <2>1 DEF Ind, CallInv
<1>6. ListInv'
  BY <1>1, ListFrame DEF Ind
<1>7. HeapInv' /\ ThreadInv'
  BY <1>1 DEF Ind, HeapInv, ThreadInv, ThreadGone, Scanning
<1> QED  BY <1>4, <1>5, <1>6, <1>7 DEF Ind

\* A step that neither touches memory nor changes a call or the list.
LEMMA InvThread ==
  ASSUME Ind, UNCHANGED <<isoList, flag, filled, client, live, told, heap>>,
         \A c \in Client : client[c].pc = "idle" \/ phase' = phase,
         phase' \in {"out", "in", "stopping"},
         cursor' \in 1 .. Len(isoList) + 1,
         thread' \in {"none", "top", "sleep", "scan", "done"},
         ThreadInv'
  PROVE  Ind'
<1>1. UNCHANGED <<isoList, flag, filled, client, live, told, areas, infos, arrays, lost>>
  BY DEF heap
<1>2. IsoTypeOK'
  BY <1>1 DEF Ind, IsoTypeOK
<1>3. CallInv'
  <2>1. ASSUME NEW d \in Client PROVE CallOK(d)'
    BY <1>1 DEF CallOK, Ind, CallInv
  <2> QED  BY <1>1, <2>1 DEF Ind, CallInv
<1>4. HeapInv'
  BY <1>1 DEF Ind, HeapInv
<1>5. ListInv'
  BY <1>1, ListFrame DEF Ind
<1> QED  BY <1>2, <1>3, <1>4, <1>5 DEF Ind

\* check_iso sets the flag of a zone when it reports it.
LEMMA InvCheckZone ==
  ASSUME Ind, CheckZone
  PROVE  Ind'
<1>1. PICK z : z = isoList[cursor]
  OBVIOUS
<1>2. PICK overflow \in BOOLEAN : overflow <=> z.addr \notin flag /\ ~Pristine(z)
  <2>1. (z.addr \notin flag /\ ~Pristine(z)) \in BOOLEAN
    OBVIOUS
  <2> QED  BY <2>1
<1>3. /\ Scanning /\ cursor <= Len(isoList) /\ cursor' = cursor + 1
      /\ flag' = IF overflow THEN flag \cup {z.addr} ELSE flag
      /\ told' = [told EXCEPT ![z.addr] = IF overflow THEN @ + 1 ELSE @]
      /\ UNCHANGED <<phase, thread, isoList, filled, client, live, areas, infos,
                     arrays, lost>>
  BY <1>1, <1>2 DEF CheckZone, heap
<1>4. isoList \in Seq(Zone) /\ Len(isoList) \in Nat /\ cursor \in 1 .. Len(isoList)
  BY <1>3, LenProperties DEF Ind, IsoTypeOK
<1>5. z \in Zone /\ z.addr \in Cell /\ z \in Listed
  <2>1. z \in Zone
    BY <1>1, <1>4, ElementOfSeq
  <2>2. DOMAIN isoList = 1 .. Len(isoList)
    BY <1>4, LenProperties
  <2>3. z \in Listed
    BY <1>1, <1>4, <2>2 DEF Listed, ToSet
  <2> QED  BY <2>1, <2>3 DEF Zone
<1>6. IsoTypeOK'
  <2>1. cursor' \in 1 .. Len(isoList') + 1
    BY <1>3, <1>4
  <2>2. flag' \subseteq Cell
    BY <1>3, <1>5 DEF Ind, IsoTypeOK
  <2>3. told' \in [Cell -> Nat]
    BY <1>3, <1>5 DEF Ind, IsoTypeOK
  <2> QED  BY <1>3, <2>1, <2>2, <2>3 DEF Ind, IsoTypeOK
<1>7. CallInv'
  <2>1. ASSUME NEW d \in Client PROVE CallOK(d)'
    BY <1>3 DEF CallOK, Ind, CallInv
  <2> QED  BY <1>3, <2>1 DEF Ind, CallInv
<1>8. HeapInv' /\ ThreadInv'
  BY <1>3 DEF Ind, HeapInv, ThreadInv, ThreadGone, Scanning
<1>9. ListInv'
  <2>1. Guarded' = Guarded /\ Listed' = Listed
    BY <1>3 DEF Guarded, InCall, Listed
  <2>2. ASSUME NEW n, NEW order PROVE Pairs(n, order)' <=> Pairs(n, order)
    BY <1>3, <2>1 DEF Pairs
  <2>3. \E n \in 0 .. Len(isoList) : \E order \in [1 .. n -> Guarded] : Pairs(n, order)
    BY DEF Ind, ListInv
  <2>4. \E n \in 0 .. Len(isoList') : \E order \in [1 .. n -> Guarded'] : Pairs(n, order)'
    BY <1>3, <2>1, <2>2, <2>3
  <2>5. ASSUME NEW y \in Listed PROVE told'[y.addr] = IF y.addr \in flag' THEN 1 ELSE 0
    <3>1. told[y.addr] = IF y.addr \in flag THEN 1 ELSE 0
      BY DEF Ind, ListInv
    <3>2. y.addr \in Cell /\ told \in [Cell -> Nat]
      BY ListedTypes DEF Zone, Ind, IsoTypeOK
    <3>3. CASE y.addr = z.addr
      BY <1>2, <1>3, <3>1, <3>2, <3>3
    <3>4. CASE y.addr # z.addr
      BY <1>3, <3>1, <3>2, <3>4
    <3> QED  BY <3>3, <3>4
  <2> QED  BY <2>1, <2>4, <2>5 DEF ListInv
<1> QED  BY <1>6, <1>7, <1>8, <1>9 DEF Ind

LEMMA InvCheck ==
  ASSUME Ind, Check
  PROVE  Ind'
<1>1. CASE Sleep \/ Wake \/ EndScan
  <2>1. /\ UNCHANGED <<phase, isoList, flag, filled, client, live, told, heap>>
        /\ thread' \in {"top", "sleep", "scan", "done"} /\ thread # "none"
        /\ thread' = "done" => phase = "stopping"
        /\ cursor' = 1 \/ (cursor' = cursor /\ thread # "scan")
    BY <1>1 DEF Sleep, Wake, EndScan, Scanning
  <2>2. cursor' = 1
    BY <2>1 DEF Ind, ThreadInv, Scanning
  <2>3. 1 \in 1 .. Len(isoList) + 1
    BY LenProperties DEF Ind, IsoTypeOK
  <2>4. ThreadInv'
    BY <2>1, <2>2 DEF Ind, ThreadInv, ThreadGone, Scanning
  <2>5. phase \in {"out", "in", "stopping"}
    BY DEF Ind, IsoTypeOK
  <2> QED  BY <2>1, <2>2, <2>3, <2>4, <2>5, InvThread
<1> QED  BY <1>1, InvCheckZone DEF Check

\* insmod, rmmod and its end happen with no call under way.
LEMMA InvModule ==
  ASSUME Ind, Load \/ Exit \/ Stopped
  PROVE  Ind'
<1>1. CASE Load
  <2>1. /\ phase = "out" /\ phase' = "in" /\ thread' = "top" /\ cursor = 1
        /\ isoList' = <<>> /\ flag' = {} /\ told' = [x \in Cell |-> 0] /\ live' = {}
        /\ lost' = lost \cup live
        /\ UNCHANGED <<cursor, filled, client, areas, infos, arrays>>
    BY <1>1 DEF Load, Ind, ThreadInv, ThreadGone, Scanning
  <2>2. \A c \in Client : client[c].pc = "idle" /\ client[c] = Idle
    BY <2>1 DEF Ind, CallInv, CallOK
  <2>3. Len(isoList') = 0 /\ isoList' \in Seq(Zone) /\ DOMAIN isoList' = {}
    BY <2>1, EmptySeq, LenProperties
  <2>4. IsoTypeOK'
    BY <2>1, <2>3 DEF Ind, IsoTypeOK
  <2>5. CallInv' /\ HeapInv'
    BY <2>1, <2>2 DEF Ind, CallInv, CallOK, HeapInv
  <2>6. ListInv'
    <3>1. Guarded' = {} /\ Listed' = {}
      BY <2>1, <2>2, <2>3 DEF Guarded, InCall, Listed, ToSet
    <3>2. Pairs(0, [k \in 1 .. 0 |-> None])'
      BY <2>3, <3>1 DEF Pairs
    <3>3. 0 \in 0 .. Len(isoList') /\ [k \in 1 .. 0 |-> None] \in [1 .. 0 -> Guarded']
      BY <2>3
    <3> QED  BY <3>1, <3>2, <3>3 DEF ListInv
  <2>7. ThreadInv'
    BY <2>1 DEF Ind, ThreadInv, ThreadGone, Scanning
  <2> QED  BY <2>4, <2>5, <2>6, <2>7 DEF Ind
<1>2. CASE Exit \/ Stopped
  <2>1. /\ \A c \in Client : client[c].pc = "idle"
        /\ phase' \in {"out", "stopping"} /\ thread' \in {thread, "none"}
        /\ phase' = "out" <=> thread' = "none"
        /\ thread' = "done" => phase' = "stopping"
        /\ UNCHANGED <<cursor, isoList, flag, filled, client, live, told, heap>>
        /\ thread' # thread => cursor = 1
    BY <1>2 DEF Exit, Stopped, Ind, CallInv, CallOK, ThreadInv, ThreadGone, Scanning, Idle
  <2>2. ThreadInv'
    BY <2>1 DEF Ind, ThreadInv, ThreadGone, Scanning
  <2>3. /\ thread' \in {"none", "top", "sleep", "scan", "done"}
        /\ phase' \in {"out", "in", "stopping"} /\ cursor' \in 1 .. Len(isoList) + 1
    BY <2>1 DEF Ind, IsoTypeOK
  <2> QED  BY <2>1, <2>2, <2>3, InvThread
<1> QED  BY <1>1, <1>2

LEMMA InvNext == Ind /\ [Next]_vars => Ind'
<1> SUFFICES ASSUME Ind, [Next]_vars PROVE Ind'
  OBVIOUS
<1>1. CASE UNCHANGED vars
  <2>1. /\ UNCHANGED <<phase, thread, cursor, isoList, flag, filled, client, live, told, heap>>
    BY <1>1 DEF vars, heap
  <2>2. /\ phase' \in {"out", "in", "stopping"} /\ cursor' \in 1 .. Len(isoList) + 1
        /\ thread' \in {"none", "top", "sleep", "scan", "done"} /\ ThreadInv'
    BY <2>1 DEF Ind, IsoTypeOK, ThreadInv, ThreadGone, Scanning
  <2> QED  BY <2>1, <2>2, InvThread
<1>2. ASSUME NEW c \in Client, ClientStep(c) PROVE Ind'
  BY <1>2, InvAllocArea, InvAllocInfo, InvAllocArray, InvAllocFails, InvLink,
     InvEnterFree, InvUnlink, InvRelease, InvFreeArea DEF ClientStep
<1> QED  BY <1>1, <1>2, InvWrite, InvCheck, InvModule DEF Next

-----------------------------------------------------------------------------
(* What follows.                                                            *)

\* The list holds two structs for each guarded block, one behind the other.
LEMMA PairsOfBlocks == Ind => ZonesOfBlocks
<1> SUFFICES ASSUME Ind PROVE ZonesOfBlocks
  OBVIOUS
<1>1. PICK n \in 0 .. Len(isoList) : \E order \in [1 .. n -> Guarded] : Pairs(n, order)
  BY DEF Ind, ListInv
<1>2. PICK order \in [1 .. n -> Guarded] : Pairs(n, order)
  BY <1>1
<1>3. Len(isoList) = 2 * n /\ n \in Nat
  BY <1>2, LenProperties DEF Pairs, Ind, IsoTypeOK
<1>4. Cardinality(Guarded) = n
  <2>1. order \in Bijection(1 .. n, Guarded)
    BY <1>2 DEF Pairs, Bijection, Injection, IsInjective, Surjection
  <2>2. ExistsBijection(1 .. n, Guarded)
    BY <2>1 DEF ExistsBijection
  <2> QED  BY <1>3, <2>2, FS_CountingElements
<1>5. ASSUME NEW b \in Guarded
      PROVE  \E i \in 2 .. Len(isoList) :
               isoList[i] = FirstZone(b) /\ isoList[i - 1] = SecondZone(b)
  <2>1. PICK k \in 1 .. n : order[k] = b
    BY <1>2 DEF Pairs
  <2>2. isoList[2 * k] = FirstZone(b) /\ isoList[2 * k - 1] = SecondZone(b)
    BY <1>2, <2>1 DEF Pairs
  <2>3. 2 * k \in 2 .. Len(isoList)
    BY <1>3
  <2> QED  BY <2>2, <2>3
<1> QED  BY <1>3, <1>4, <1>5, ListedZones DEF ZonesOfBlocks

LEMMA IndCorrect == Spec => []Ind
BY InvInit, InvNext, PTL DEF Spec

\* The invariant holds in every state, for every instance of the constants:
\* among others, that the list is the pairs of structs of the blocks in use, so
\* that a free which unlinks "pos" and "pos->prev" unlinks its own.
THEOREM IsoInvCorrect == Spec => []IsoInv
<1>1. Ind => IsoInv
  BY PairsOfBlocks DEF Ind, IsoInv
<1> QED  BY IndCorrect, <1>1, PTL

\* A scan reads no struct, buffer or byte that was given back, and no two areas
\* share a cell.
THEOREM ScanReadsAllocatedCorrect == Spec => []ScanReadsAllocated
<1>1. Ind => ScanReadsAllocated
  <2> SUFFICES ASSUME Ind PROVE ScanReadsAllocated
    OBVIOUS
  <2>1. ASSUME NEW z \in Listed
        PROVE  /\ z.a \in infos /\ z.a \in arrays
               /\ \E b \in areas : b.base = z.a /\ ZoneCells(z) \subseteq Area(b)
    <3>1. PICK b \in Guarded : z = FirstZone(b) \/ z = SecondZone(b)
      BY ListedZones
    <3>2. b \in Block /\ b \in areas /\ b.base \in arrays /\ b.base \in infos
      BY GuardedFacts
    <3>3. z.a = b.base /\ ZoneCells(z) \subseteq Area(b)
      BY <3>1, <3>2, BlockFits
    <3> QED  BY <3>2, <3>3
  <2> QED  BY <2>1 DEF ScanReadsAllocated, Ind, HeapInv
<1> QED  BY IndCorrect, <1>1, PTL

\* A client that keeps to what it asked for touches neither a zone nor another
\* area, but with the wrapper that takes its zones out of the pages asked for.
THEOREM AskedFitsCorrect == Spec => []AskedFits
<1>1. Ind => AskedFits
  BY AskedBetweenZones DEF Ind, IsoTypeOK, AskedFits
<1> QED  BY IndCorrect, <1>1, PTL

\* No allocation of the detector's is lost but those of calls that failed.
THEOREM MemoryAccountedCorrect == Spec => []MemoryAccounted
<1>1. Ind => MemoryAccounted
  <2> SUFFICES ASSUME Ind PROVE MemoryAccounted
    OBVIOUS
  <2>1. \A c \in Client : client[c] # Idle <=> client[c].pc # "idle"
    BY DEF Ind, CallInv, CallOK, Idle
  <2>2. areas = live \cup lost \cup {client[c].b : c \in {d \in Client : client[d] # Idle}}
    BY <2>1 DEF Ind, HeapInv, CallInv, CallOK
  <2>3. /\ Bases(live \cup InCall({"link", "unlink", "release"})) \subseteq arrays
        /\ Bases(live \cup InCall({"array", "link", "unlink", "release"})) \subseteq infos
    BY DEF Ind, HeapInv, CallInv, CallOK, Bases, InCall
  <2>4. arrays \subseteq Bases(areas) /\ infos \subseteq Bases(areas)
    BY DEF Ind, HeapInv, Bases
  <2> QED  BY <2>2, <2>3, <2>4 DEF MemoryAccounted, Ind, HeapInv
<1> QED  BY IndCorrect, <1>1, PTL

-----------------------------------------------------------------------------
(* The detector implements OverflowDetector.                                *)

Broken == {z \in Listed : ~Pristine(z)}
Told == [z \in Listed |-> told[z.addr]]
Abstract == [Detector!Next]_<<Guards, Broken, Told>>
ZonesOf(b) == {FirstZone(b), SecondZone(b)}

LEMMA UnionGuards == UNION Guards = Listed
BY DEF Guards

\* Under guard are the two zones of each block whose structs are linked.
LEMMA GuardsOfBlocks ==
  Ind => Listed = UNION {ZonesOf(b) : b \in Guarded} /\ Guards = {ZonesOf(b) : b \in Guarded}
<1> SUFFICES ASSUME Ind
             PROVE  /\ Listed = UNION {ZonesOf(b) : b \in Guarded}
                    /\ Guards = {ZonesOf(b) : b \in Guarded}
  OBVIOUS
<1>1. Listed = UNION {ZonesOf(b) : b \in Guarded}
  BY ListedZones DEF ZonesOf
<1>2. ASSUME NEW b \in Guarded
      PROVE  /\ \A z \in ZonesOf(b) : z.a = b.base
             /\ ZonesOf(b) = {z \in Listed : z.a = b.base}
  <2>1. \A d \in Guarded : \A z \in ZonesOf(d) : z.a = d.base /\ d \in areas
    BY GuardedFacts, BlockFits DEF ZonesOf
  <2>2. \A d \in Guarded : d.base = b.base => d = b
    BY GuardedFacts, BaseIsBlock DEF Ind
  <2> QED  BY <1>1, <2>1, <2>2
<1>3. {y.a : y \in Listed} = {b.base : b \in Guarded}
  <2>1. \A b \in Guarded : FirstZone(b) \in ZonesOf(b)
    BY DEF ZonesOf
  <2> QED  BY <1>1, <1>2, <2>1
<1>4. Guards = {ZonesOf(b) : b \in Guarded}
  <2> DEFINE with(x) == {z \in Listed : z.a = x}
  <2>1. Guards = {with(x) : x \in {b.base : b \in Guarded}}
    BY <1>3 DEF Guards
  <2>2. \A b \in Guarded : ZonesOf(b) = with(b.base)
    BY <1>2
  <2> HIDE DEF with
  <2> QED  BY <2>1, <2>2
<1> QED  BY <1>1, <1>4

LEMMA GuardsNext ==
  Ind' => (Listed = UNION {ZonesOf(b) : b \in Guarded} /\ Guards = {ZonesOf(b) : b \in Guarded})'
BY GuardsOfBlocks, PTL

\* Two zones on the list differ in their addresses.
LEMMA AddrOfListed ==
  ASSUME Ind, NEW y \in Listed, NEW z \in Listed, y.addr = z.addr
  PROVE  y = z
<1>1. PICK b \in Guarded : y \in ZonesOf(b)
  BY GuardsOfBlocks
<1>2. PICK d \in Guarded : z \in ZonesOf(d)
  BY GuardsOfBlocks
<1>3. b \in areas /\ d \in areas
  BY GuardedFacts
<1> QED  BY <1>1, <1>2, <1>3, AddrOwn DEF Ind, ZonesOf

\* A zone on the list lies in the area of a block that is in use, or whose free
\* has not yet unlinked it.
LEMMA ListedZone ==
  ASSUME Ind, NEW z \in Listed
  PROVE  \E b \in areas :
           /\ b \in Block /\ z \in ZonesOf(b) /\ ZoneCells(z) \subseteq Area(b)
           /\ b \in live \/ \E c \in Client : client[c].pc = "unlink" /\ client[c].b = b
<1>1. PICK b \in Guarded : z \in ZonesOf(b)
  BY GuardsOfBlocks
<1>2. b \in areas /\ b \in Block
  BY GuardedFacts
<1>3. ZoneCells(z) \subseteq Area(b)
  BY <1>1, <1>2, BlockFits DEF ZonesOf
<1>4. b \in live \/ \E c \in Client : client[c].pc = "unlink" /\ client[c].b = b
  BY DEF Guarded, InCall
<1> QED  BY <1>1, <1>2, <1>3, <1>4

\* A step that keeps the list, its zones and the reports is none of OverflowDetector's.
LEMMA Stutters ==
  ASSUME isoList' = isoList, told' = told,
         \A z \in Listed : ZoneCells(z) \cap filled' = ZoneCells(z) \cap filled
  PROVE  Abstract
<1>1. Listed' = Listed
  BY DEF Listed
<1>2. Broken' = Broken
  BY <1>1 DEF Broken, Pristine
<1>3. Guards' = Guards /\ Told' = Told
  BY <1>1 DEF Guards, Told
<1> QED  BY <1>2, <1>3 DEF Abstract

\* list_add: two new and whole zones are put under guard.
LEMMA LinkProtects ==
  ASSUME Ind, NEW c \in Client, Link(c)
  PROVE  Detector!Protect
<1>0. PICK b : b = client[c].b
  OBVIOUS
<1>1. /\ client[c].pc = "link" /\ b \in areas /\ b \in Block
      /\ client'[c].pc = "idle" /\ \A d \in Client \ {c} : client'[d] = client[d]
      /\ live' = live \cup {b} /\ filled' = filled
      /\ told' = [told EXCEPT ![FirstZone(b).addr] = 0, ![SecondZone(b).addr] = 0]
  BY <1>0, EndUpdate DEF Link
<1>2. /\ GuardCells(b) \subseteq filled /\ Area(b) \subseteq Cell
      /\ b \notin Guarded /\ told \in [Cell -> Nat]
  <2>1. GuardCells(b) \subseteq filled /\ b \notin live
    BY <1>0, <1>1 DEF Ind, CallInv, CallOK
  <2>2. \A d \in Client : client[d].pc = "unlink" => client[d].b # b
    BY <1>0, <1>1 DEF Ind, CallInv
  <2>3. b \notin Guarded
    BY <2>1, <2>2 DEF Guarded, InCall
  <2> QED  BY <1>1, <2>1, <2>3 DEF Ind, IsoTypeOK, HeapInv
<1>3. Guarded' = Guarded \cup {b}
  BY <1>0, <1>1 DEF Guarded, InCall
<1>4. PICK G : G = ZonesOf(b)
  OBVIOUS
<1>5. /\ G # {} /\ G \subseteq Zone
      /\ \A z \in G : ZoneCells(z) \subseteq filled /\ z.addr \in Cell
                       /\ z.addr \in {FirstZone(b).addr, SecondZone(b).addr}
  <2>1. FirstZone(b) \in Zone /\ SecondZone(b) \in Zone
    BY <1>1, <1>2, ZoneTypes
  <2>2. GuardCells(b) = ZoneCells(FirstZone(b)) \cup ZoneCells(SecondZone(b))
    BY <1>1, BlockFits
  <2> QED  BY <1>2, <1>4, <2>1, <2>2 DEF ZonesOf, Zone
<1>6. ASSUME NEW y \in Listed
      PROVE  y \notin G /\ y.addr \in Cell
             /\ y.addr # FirstZone(b).addr /\ y.addr # SecondZone(b).addr
  <2>1. PICK d \in Guarded : y \in ZonesOf(d)
    BY GuardsOfBlocks
  <2>2. d \in areas /\ d # b
    BY <1>2, GuardedFacts
  <2>3. \A z \in ZonesOf(b) : y.addr # z.addr
    BY <1>1, <2>1, <2>2, AddrOwn DEF Ind, ZonesOf
  <2> QED  BY <1>4, <2>3, ListedTypes DEF ZonesOf, Zone
<1>7. Listed' = Listed \cup G /\ Guards' = Guards \cup {G}
  <2>1. /\ Listed = UNION {ZonesOf(d) : d \in Guarded} /\ Guards = {ZonesOf(d) : d \in Guarded}
        /\ Listed' = UNION {ZonesOf(d) : d \in Guarded'}
        /\ Guards' = {ZonesOf(d) : d \in Guarded'}
    BY GuardsOfBlocks, GuardsNext, InvLink
  <2> QED  BY <1>3, <1>4, <2>1
<1>8. (UNION Guards) = Listed /\ (UNION Guards') = Listed'
  BY UnionGuards DEF Guards
<1>9. (UNION Guards') \ (UNION Guards) = G
  BY <1>6, <1>7, <1>8
<1>10. Broken' = Broken
  <2>1. \A z \in G : ZoneCells(z) \subseteq filled
    BY <1>5
  <2> QED  BY <1>1, <1>7, <2>1 DEF Broken, Pristine
<1>11. Told' = [z \in (UNION Guards) \cup G |-> IF z \in G THEN 0 ELSE Told[z]]
  <2>1. \A z \in G : told'[z.addr] = 0
    BY <1>1, <1>2, <1>5
  <2>2. \A z \in Listed : z \notin G /\ told'[z.addr] = told[z.addr] /\ Told[z] = told[z.addr]
    BY <1>1, <1>2, <1>6 DEF Told
  <2> QED  BY <1>7, <1>8, <2>1, <2>2 DEF Told
<1> QED  BY <1>5, <1>7, <1>9, <1>10, <1>11
         DEF Detector!Protect, Detector!Guarded, Guards, Broken, Told

\* list_del, twice: the zones of the freed block are no longer guarded, every
\* other is.
LEMMA UnlinkReleases ==
  ASSUME Ind, NEW c \in Client, Unlink(c)
  PROVE  Detector!Release
<1>0. PICK b : b = client[c].b
  OBVIOUS
<1>1. /\ client[c].pc = "unlink" /\ client[c] \in Call
      /\ UNCHANGED <<filled, told, live>>
      /\ client' = [client EXCEPT ![c].pc = "release",
                                  ![c].temp = isoList[FoundAt(client[c].b)].a]
  BY DEF Unlink, Ind, IsoTypeOK, Call
<1>2. client'[c].pc = "release" /\ \A d \in Client \ {c} : client'[d] = client[d]
  BY <1>1 DEF Ind, IsoTypeOK, Call
<1>3. b \in Guarded /\ b \notin live
  BY <1>0, <1>1 DEF Guarded, InCall, Ind, CallInv, CallOK
<1>4. Guarded' = Guarded \ {b}
  <2>1. \A d \in Client \ {c} : client[d].pc = "unlink" => client[d].b # b
    BY <1>0, <1>1 DEF Ind, CallInv
  <2>2. InCall({"unlink"})' = InCall({"unlink"}) \ {b}
    <3>1. client[c].pc = "unlink"
      BY <1>1
    <3> QED  BY <1>0, <1>2, <2>1, <3>1 DEF InCall
  <2>3. live' = live
    BY <1>1
  <2> QED  BY <1>3, <2>2, <2>3 DEF Guarded
<1>5. PICK G : G = ZonesOf(b)
  OBVIOUS
<1>6. \A d \in Guarded \ {b} : ZonesOf(d) # G /\ ZonesOf(d) \cap G = {}
  <2> SUFFICES ASSUME NEW d \in Guarded, d # b
               PROVE  ZonesOf(d) # G /\ ZonesOf(d) \cap G = {}
    OBVIOUS
  <2>1. d \in areas /\ b \in areas
    BY <1>3, GuardedFacts
  <2>2. \A z \in ZonesOf(d) : z \notin G
    BY <1>5, <2>1, AddrOwn DEF Ind, ZonesOf
  <2> QED  BY <2>2 DEF ZonesOf
<1>7. Listed' = Listed \ G /\ Guards' = Guards \ {G} /\ G \in Guards
  <2>1. /\ Listed = UNION {ZonesOf(d) : d \in Guarded} /\ Guards = {ZonesOf(d) : d \in Guarded}
        /\ Listed' = UNION {ZonesOf(d) : d \in Guarded'}
        /\ Guards' = {ZonesOf(d) : d \in Guarded'}
    BY GuardsOfBlocks, GuardsNext, InvUnlink
  <2>2. Guards' = Guards \ {G} /\ G \in Guards
    BY <1>3, <1>4, <1>5, <1>6, <2>1
  <2>3. Listed' = Listed \ G
    BY <1>3, <1>4, <1>5, <1>6, <2>1
  <2> QED  BY <2>2, <2>3
<1>8. Broken' = Broken \ G
  BY <1>1, <1>7 DEF Broken, Pristine
<1>9. UNION Guards = Listed
  BY UnionGuards
<1>10. Told' = [z \in (UNION Guards) \ G |-> Told[z]]
  BY <1>1, <1>7, <1>9 DEF Told
<1> QED  BY <1>7, <1>8, <1>10 DEF Detector!Release, Detector!Guarded, Guards, Broken, Told

\* A client overwrites a byte of one of the two zones in its area, or of none.
LEMMA WriteOverwrites ==
  ASSUME Ind, Write
  PROVE  Abstract
<1>0. PICK b \in live : \E x \in Area(b) :
        /\ filled' = IF x \in filled THEN filled \ {x} ELSE filled \cup {x}
        /\ isoList' = isoList /\ told' = told
  BY DEF Write
<1>1. PICK x \in Area(b) :
        /\ filled' = IF x \in filled THEN filled \ {x} ELSE filled \cup {x}
        /\ isoList' = isoList /\ told' = told
  BY <1>0
<1>2. b \in Guarded /\ b \in areas /\ b \in Block
  BY DEF Guarded, Ind, IsoTypeOK, HeapInv
<1>3. ZonesOf(b) \subseteq Listed
  BY <1>2, GuardsOfBlocks
<1>4. PICK z \in Listed : \A y \in Listed \ {z} : x \notin ZoneCells(y)
  <2>1. ASSUME NEW y \in Listed, y \notin ZonesOf(b) PROVE x \notin ZoneCells(y)
    <3>1. PICK d \in areas : y \in ZonesOf(d) /\ ZoneCells(y) \subseteq Area(d)
      BY ListedZone
    <3> QED  BY <1>2, <2>1, <3>1 DEF Ind, HeapInv
  <2>2. ZoneCells(FirstZone(b)) \cap ZoneCells(SecondZone(b)) = {}
    BY <1>2, BlockFits
  <2>3. CASE x \in ZoneCells(FirstZone(b))
    BY <1>3, <2>1, <2>2, <2>3 DEF ZonesOf
  <2>4. CASE x \notin ZoneCells(FirstZone(b))
    BY <1>3, <2>1, <2>4 DEF ZonesOf
  <2> QED  BY <2>3, <2>4
<1>5. \A y \in Listed \ {z} : ZoneCells(y) \cap filled' = ZoneCells(y) \cap filled
  BY <1>1, <1>4
<1>6. Listed' = Listed
  BY <1>1 DEF Listed
<1>7. \A y \in Listed \ {z} : y \in Broken' <=> y \in Broken
  BY <1>5, <1>6 DEF Broken, Pristine
<1>8. Guards' = Guards /\ Told' = Told /\ UNION Guards = Listed
  BY <1>1, <1>6, UnionGuards DEF Guards, Told
<1>9. Broken' \subseteq Listed /\ Broken \subseteq Listed
  BY <1>6 DEF Broken
<1>10. CASE z \in Broken' <=> z \in Broken
  <2>1. Broken' = Broken
    BY <1>4, <1>7, <1>9, <1>10
  <2> QED  BY <1>8, <2>1 DEF Abstract
<1>11. CASE ~(z \in Broken' <=> z \in Broken)
  <2>1. Broken' = IF z \in Broken THEN Broken \ {z} ELSE Broken \cup {z}
    BY <1>4, <1>7, <1>9, <1>11
  <2>2. Detector!Overwrite
    BY <1>4, <1>8, <2>1 DEF Detector!Overwrite, Detector!Guarded, Guards, Broken, Told
  <2> QED  BY <2>2 DEF Abstract, Detector!Next
<1> QED  BY <1>10, <1>11

\* check_iso reports a broken zone that it has not reported.
LEMMA CheckZoneReports ==
  ASSUME Ind, CheckZone
  PROVE  Abstract
<1>1. PICK z : z = isoList[cursor]
  OBVIOUS
<1>2. /\ cursor <= Len(isoList)
      /\ told' = [told EXCEPT ![z.addr] =
                    IF z.addr \notin flag /\ ~Pristine(z) THEN @ + 1 ELSE @]
      /\ isoList' = isoList /\ filled' = filled
  BY <1>1 DEF CheckZone
<1>3. z \in Listed
  <2>1. isoList \in Seq(Zone) /\ cursor \in 1 .. Len(isoList)
    BY <1>2, LenProperties DEF Ind, IsoTypeOK
  <2>2. DOMAIN isoList = 1 .. Len(isoList)
    BY <2>1, LenProperties
  <2> QED  BY <1>1, <2>1, <2>2 DEF Listed, ToSet
<1>4. told \in [Cell -> Nat] /\ \A y \in Listed : y.addr \in Cell
  BY ListedTypes DEF Ind, IsoTypeOK, Zone
<1>5. CASE z.addr \notin flag /\ ~Pristine(z)
  <2>1. told[z.addr] = 0
    BY <1>3, <1>5 DEF Ind, ListInv
  <2>2. told' = [told EXCEPT ![z.addr] = 1]
    BY <1>2, <1>3, <1>4, <1>5, <2>1
  <2>3. z \in Broken /\ Told[z] = 0
    BY <1>3, <1>5, <2>1 DEF Broken, Told
  <2>4. Listed' = Listed
    BY <1>2 DEF Listed
  <2>5. Told' = [Told EXCEPT ![z] = 1]
    <3>1. \A y \in Listed : told'[y.addr] = IF y = z THEN 1 ELSE told[y.addr]
      BY <1>3, <1>4, <2>2, AddrOfListed
    <3> QED  BY <1>3, <2>4, <3>1 DEF Told
  <2>6. Guards' = Guards /\ Broken' = Broken
    BY <1>2, <2>4 DEF Guards, Broken, Pristine
  <2>7. Detector!Report
    BY <2>3, <2>5, <2>6 DEF Detector!Report, Guards, Broken, Told
  <2> QED  BY <2>7 DEF Abstract, Detector!Next
<1>6. CASE ~(z.addr \notin flag /\ ~Pristine(z))
  <2>1. told' = told
    BY <1>2, <1>4, <1>6
  <2> QED  BY <1>2, <2>1, Stutters
<1> QED  BY <1>5, <1>6

\* A call that allocates or frees an area touches no zone on the list.
LEMMA CallStutters ==
  ASSUME Ind, NEW c \in Client,
         AllocArea(c) \/ AllocInfo(c) \/ AllocArray(c) \/ AllocFails(c)
         \/ EnterFree(c) \/ Release(c) \/ FreeArea(c)
  PROVE  Abstract
<1>1. isoList' = isoList /\ told' = told
  BY DEF AllocArea, AllocInfo, AllocArray, AllocFails, EnterFree, Release, FreeArea
<1>2. ASSUME NEW z \in Listed PROVE ZoneCells(z) \cap filled' = ZoneCells(z) \cap filled
  <2>1. PICK b \in areas :
          /\ b \in Block /\ ZoneCells(z) \subseteq Area(b)
          /\ b \in live \/ \E d \in Client : client[d].pc = "unlink" /\ client[d].b = b
    BY ListedZone
  <2>2. CASE AllocArea(c)
    <3>1. PICK a \in Block : Obtainable(a) /\ filled' = (filled \ Area(a)) \cup GuardCells(a)
      BY <2>2 DEF AllocArea
    <3>2. GuardCells(a) \subseteq Area(a) /\ Area(b) \cap Area(a) = {}
      BY <3>1, BlockFits DEF Obtainable
    <3> QED  BY <2>1, <3>1, <3>2
  <2>3. CASE FreeArea(c)
    <3>1. /\ client[c].pc = "area" /\ client[c].b \in areas
          /\ filled' = filled \ Area(client[c].b)
      BY <2>3, EndUpdate DEF FreeArea
    <3>2. client[c].b # b
      BY <2>1, <3>1 DEF Ind, CallInv, CallOK
    <3>3. Area(b) \cap Area(client[c].b) = {}
      BY <3>1, <3>2 DEF Ind, HeapInv
    <3> QED  BY <2>1, <3>1, <3>3
  <2>4. CASE AllocInfo(c) \/ AllocArray(c) \/ AllocFails(c) \/ EnterFree(c) \/ Release(c)
    BY <2>4 DEF AllocInfo, AllocArray, AllocFails, EnterFree, Release
  <2> QED  BY <2>2, <2>3, <2>4
<1> QED  BY <1>1, <1>2, Stutters

LEMMA StepRefines == Ind /\ [Next]_vars => Abstract
<1> SUFFICES ASSUME Ind, [Next]_vars PROVE Abstract
  OBVIOUS
<1>1. CASE UNCHANGED vars
  BY <1>1, Stutters DEF vars
<1>2. ASSUME NEW c \in Client, ClientStep(c) PROVE Abstract
  <2>1. CASE Link(c)
    BY <2>1, LinkProtects DEF Abstract, Detector!Next
  <2>2. CASE Unlink(c)
    BY <2>2, UnlinkReleases DEF Abstract, Detector!Next
  <2> QED  BY <1>2, <2>1, <2>2, CallStutters DEF ClientStep
<1>3. CASE Check
  <2>1. CASE Sleep \/ Wake \/ EndScan
    BY <2>1, Stutters DEF Sleep, Wake, EndScan
  <2> QED  BY <1>3, <2>1, CheckZoneReports DEF Check
<1>4. CASE Load
  <2>1. Listed' = {}
    BY <1>4 DEF Load, Listed, ToSet
  <2>2. Guards' = {} /\ Broken' = {} /\ Told' = [z \in {} |-> 0]
    BY <2>1 DEF Guards, Broken, Told
  <2>3. Detector!Restart
    BY <2>2 DEF Detector!Restart, Guards, Broken, Told
  <2> QED  BY <2>3 DEF Abstract, Detector!Next
<1>5. CASE Exit \/ Stopped
  BY <1>5, Stutters DEF Exit, Stopped
<1> QED  BY <1>1, <1>2, <1>3, <1>4, <1>5, WriteOverwrites DEF Next

\* For its clients the list, the wrappers and the thread are the detector of
\* OverflowDetector: both zones guarded from allocation to free, and each
\* overwritten zone reported once, whatever had its address before.
THEOREM DetectorImplemented == Spec => DetectorSpec
<1>1. Init => Detector!Init
  <2> SUFFICES ASSUME Init PROVE Detector!Init
    OBVIOUS
  <2>1. Listed = {}
    BY DEF Init, Listed, ToSet
  <2> QED  BY <2>1 DEF Detector!Init, Guards
<1>2. Ind /\ [Next]_vars => [Detector!Next]_Detector!detector
  BY StepRefines DEF Abstract, Detector!detector, Guards, Broken, Told
<1> QED  BY IndCorrect, <1>1, <1>2, PTL DEF Spec, DetectorSpec, Detector!Spec

=============================================================================
