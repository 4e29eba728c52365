------------------------------ MODULE MCEscrow ------------------------------
(***************************************************************************)
(* Small instances of Escrow for TLC.                                      *)
(***************************************************************************)
EXTENDS Escrow, TLC

\* The users start alike and no action tells them apart.
UserSymmetry == Permutations(Users)

\* A negative amount, which the token contract refuses, and one on which a
\* fee of 10% and a share of a third are rounded.
MCAmounts == {-1, 15}
=============================================================================
