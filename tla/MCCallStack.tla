----------------------------- MODULE MCCallStack -----------------------------
(***************************************************************************)
(* Stacks for CallStack: a function of the kernel, two of one module and   *)
(* one of another, in any order and up to a length that is cut at both     *)
(* ends.                                                                   *)
(***************************************************************************)
EXTENDS CallStack

CONSTANTS ModA, ModB, MaxDepth

MCModuleOf == 0 :> NoModule @@ 1 :> NoModule @@ 2 :> ModA @@ 3 :> ModA @@ 4 :> ModB
MCStacks == BoundedSeq(1..4, MaxDepth)
=============================================================================
