------------------------- MODULE MCEscrowRefinement -------------------------
(***************************************************************************)
(* A small instance of EscrowRefinement: one escrow, and three users so    *)
(* that sender, driver and admin may be three people or fewer.             *)
(***************************************************************************)
EXTENDS EscrowRefinement, TLC

UserSymmetry == Permutations(Users)

\* A negative amount, none at all, and one on which fees and shares round.
MCAmounts == {-1, 0, 10}
=============================================================================
