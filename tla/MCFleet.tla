------------------------------- MODULE MCFleet -------------------------------
(***************************************************************************)
(* A small instance of the fleet and the identity contract together.       *)
(***************************************************************************)
EXTENDS FleetRefinement, TLC

UserSymmetry == Permutations(Users)

\* A bound: nobody administers the identity contract.  What its admin and its
\* reporters do changes nothing that a fleet depends on, and MCIdentity
\* explores it.
IdentityUnadministered == identityAdmin = None
=============================================================================
