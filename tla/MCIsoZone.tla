------------------------------ MODULE MCIsoZone ------------------------------
(***************************************************************************)
(* A small instance of IsoZone for TLC: a request for each of the layouts. *)
(***************************************************************************)
EXTENDS IsoZone

Wrappers == {<<"bytes", 1>>, <<"doubling", 0>>, <<"inside", 0>>}
=============================================================================
