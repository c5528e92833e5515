------------------------------ MODULE MCRearZone ------------------------------
(***************************************************************************)
(* A small instance of RearZone for TLC: a request for each of the layouts.*)
(***************************************************************************)
EXTENDS RearZone

Wrappers == {<<"bytes", 1>>, <<"doubling", 0>>, <<"inside", 0>>}
=============================================================================
