-------------------------- MODULE MCSandboxTrading --------------------------
(***************************************************************************)
(* Model checking of SandboxTrading.  The id of a new order is a CHOOSE    *)
(* among the unused ones; the choices differ by a permutation of the ids,  *)
(* so the symmetry below keeps one of each class of states.                *)
(***************************************************************************)
EXTENDS SandboxTrading, TLC

OrderSymmetry == Permutations(OrderIds)
=============================================================================
