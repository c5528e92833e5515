----------------------------- MODULE PageTracker -----------------------------
(***************************************************************************)
(* What the tracker of huawei_log_page.c promises, without its records,    *)
(* pools, locks and probe handlers: for every page, what print_page        *)
(* answers.  LogPage implements it.                                        *)
(***************************************************************************)
EXTENDS Integers

CONSTANTS Page, Caller, Orders, None

Block(p, k) == p .. (p + 2^k - 1)

VARIABLES
  watching,  \* every free is seen
  owner,     \* the allocation that gave a page to its owner, or None
  log        \* the answer for a page: an extent and a call trace, or None

tracker == <<watching, owner, log>>

\* A traced allocation returns: nobody had its pages, no answer named them.
Record(p, k, c) ==
  /\ watching
  /\ \A q \in Block(p, k) : q \in Page /\ owner[q] = None /\ log[q] = None
  /\ owner' = [q \in Page |-> IF q \in Block(p, k)
                              THEN [page |-> p, order |-> k, by |-> c]
                              ELSE owner[q]]
  /\ log' = [q \in Page |-> IF q \in Block(p, k)
                            THEN [start |-> p, end |-> p + 2^k, entries |-> c]
                            ELSE log[q]]
  /\ UNCHANGED watching

\* Allocations nobody traces: while every free is seen, no answer names them.
Miss ==
  /\ owner' # owner
  /\ \A q \in Page : owner'[q] # owner[q] =>
       /\ owner[q] = None
       /\ owner'[q] \in [page : Page, order : Orders, by : {None}]
       /\ watching => log[q] = None
  /\ UNCHANGED <<watching, log>>

\* The owners of a block give it up; the answers still name it.
GiveUp(p, k) ==
  /\ \A q \in Block(p, k) : q \in Page /\ owner[q] # None
  /\ owner' = [q \in Page |-> IF q \in Block(p, k) THEN None ELSE owner[q]]
  /\ UNCHANGED <<watching, log>>

\* The pages a .. b-1 leave the log.  An extent that reached into them ends
\* where they begin, or begins where they end; every other answer stays.
Forget(a, b) ==
  /\ \A q \in a .. (b - 1) : owner[q] = None /\ log[q] # None
  /\ log' = [q \in Page |->
       IF log[q] = None \/ q \in a .. (b - 1) THEN None
       ELSE IF q < a /\ a < log[q].end THEN [log[q] EXCEPT !.end = a]
       ELSE IF b <= q /\ log[q].start < b THEN [log[q] EXCEPT !.start = b]
       ELSE log[q]]
  /\ UNCHANGED <<watching, owner>>

\* The module begins and ends to see every free.
Watch ==
  /\ ~watching
  /\ \A q \in Page : log[q] = None
  /\ watching' = TRUE
  /\ UNCHANGED <<owner, log>>

Unwatch == watching /\ watching' = FALSE /\ UNCHANGED <<owner, log>>

\* The module goes, and with it every answer.
Reset ==
  /\ ~watching
  /\ log' = [q \in Page |-> None]
  /\ owner' = [q \in Page |-> IF owner[q] = None THEN None
                              ELSE [owner[q] EXCEPT !.by = None]]
  /\ UNCHANGED watching

Init ==
  /\ watching = FALSE
  /\ owner = [q \in Page |-> None]
  /\ log = [q \in Page |-> None]

Next ==
  \/ \E p \in Page, k \in Orders : GiveUp(p, k) \/ \E c \in Caller : Record(p, k, c)
  \/ \E a, b \in Page \cup {p + 1 : p \in Page} : a < b /\ Forget(a, b)
  \/ Miss \/ Watch \/ Unwatch \/ Reset

Spec == Init /\ [][Next]_tracker
=============================================================================
