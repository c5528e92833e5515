-------------------------- MODULE OverflowDetector --------------------------
(***************************************************************************)
(* What mem_overflow_check.c promises its clients, without the list, its   *)
(* lock, the allocations behind it and the scanning thread: every block is *)
(* guarded from the moment it is returned to the moment it is freed, and a *)
(* guard that was overwritten is reported, once.  IsoZone implements it.   *)
(***************************************************************************)
EXTENDS Naturals

CONSTANTS Zone

VARIABLES
  guards,   \* one set of zones for every block in use
  broken,   \* the zones that no longer hold the filling
  told      \* how many times each zone was reported

detector == <<guards, broken, told>>

Guarded == UNION guards

\* A block is returned: its zones are new and whole.
Protect ==
  LET G == (UNION guards') \ Guarded IN
    /\ G # {} /\ G \subseteq Zone
    /\ guards' = guards \cup {G}
    /\ told' = [z \in Guarded \cup G |-> IF z \in G THEN 0 ELSE told[z]]
    /\ UNCHANGED broken

\* A block is given back: all of its guards go, no other does.
Release ==
  \E G \in guards :
    /\ guards' = guards \ {G}
    /\ broken' = broken \ G
    /\ told' = [z \in Guarded \ G |-> told[z]]

\* Its owner writes over a guard, or puts the filling back.
Overwrite ==
  \E z \in Guarded :
    /\ broken' = IF z \in broken THEN broken \ {z} ELSE broken \cup {z}
    /\ UNCHANGED <<guards, told>>

Report ==
  \E z \in broken :
    /\ told[z] = 0
    /\ told' = [told EXCEPT ![z] = 1]
    /\ UNCHANGED <<guards, broken>>

\* The module was removed and comes back knowing no block.
Restart == guards' = {} /\ broken' = {} /\ told' = [z \in {} |-> 0]

Init == guards = {} /\ broken = {} /\ told = [z \in {} |-> 0]

Next == Protect \/ Release \/ Overwrite \/ Report \/ Restart

Spec == Init /\ [][Next]_detector
=============================================================================
