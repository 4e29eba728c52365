-------------------------- MODULE EscrowRefinement --------------------------
(***************************************************************************)
(* escrow_contract implements EscrowPromise: an escrow that is Locked or   *)
(* Paused is a deal whose money is held.                                   *)
(***************************************************************************)
EXTENDS Escrow

CONSTANT FeeCap  \* the cap that the fees in InitFees respect

ASSUME FeeCapAssumption ==
    FeeCap \in Nat /\ FeeCap >= 1000 /\ \A bps \in InitFees : bps <= FeeCap

DealOf(r) == IF r = None THEN None
             ELSE [sender |-> r.sender, driver |-> r.driver,
                   coin |-> r.token, amount |-> r.amount]

PhaseOf(r) == CASE r = None -> "none"
                [] Open(r) -> "held"
                [] OTHER -> IF r.status = "Released" THEN "released"
                                                     ELSE "refunded"

Promise == INSTANCE EscrowPromise WITH
    People <- Users, Vault <- EscrowAddress, Coins <- Tokens,
    DealIds <- DeliveryIds, NoDeal <- None, FeeCapBps <- FeeCap,
    Opening <- InitialBalances,
    deal <- [d \in DeliveryIds |-> DealOf(escrows[d])],
    phase <- [d \in DeliveryIds |-> PhaseOf(escrows[d])],
    purse <- balance

\* Every settlement pays out exactly the locked amount, once: a release pays
\* the driver all but a fee within the cap and nothing to the sender, a
\* refund or a split pays sender and driver and no fee; whichever of the
\* sender, the driver and the admin are the same person.
KeepsPromise == Promise!PromiseSpec
=============================================================================
