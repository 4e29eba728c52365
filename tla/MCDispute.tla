------------------------------ MODULE MCDispute ------------------------------
(***************************************************************************)
(* Small instances of the composed system for TLC.                         *)
(***************************************************************************)
EXTENDS Progress, JourneyRefinement, TLC

\* No action tells the users apart; the deployer is chosen among them.
UserSymmetry == Permutations(Users)

\* The token contract refuses the first one.
MCAmounts == {-1, 10}
=============================================================================
