---------------------------- MODULE MCPortalTurn ----------------------------
(***************************************************************************)
(* A turn in words and one about pictures, and two browser calls at a time *)
(***************************************************************************)
EXTENDS PortalTurn, TLC

\* Calls are interchangeable.
PortalSymmetry == Permutations(Calls)
=============================================================================
