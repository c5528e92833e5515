------------------------------ MODULE MCRmapQuery ------------------------------
(***************************************************************************)
(* Small instances of RmapQuery: entries and tasks are interchangeable.    *)
(***************************************************************************)
EXTENDS RmapQuery

Perms == Permutations(Node) \cup Permutations(Task)
=============================================================================
