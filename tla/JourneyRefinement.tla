-------------------------- MODULE JourneyRefinement --------------------------
(***************************************************************************)
(* The three contracts, called in any order by anyone once they are        *)
(* deployed, implement PaymentJourney: the delivery record is the parcel,  *)
(* the escrow record the money and the case the verdict.                   *)
(***************************************************************************)
EXTENDS Dispute

ParcelWord(status) ==
    CASE status = "Delivered" -> "arrived"
      [] status = "Cancelled" -> "withdrawn"
      [] status = "Disputed"  -> "disputed"
      [] OTHER -> "underway"

MoneyWord(status) ==
    CASE status = "Locked"   -> "held"
      [] status = "Paused"   -> "frozen"
      [] status = "Released" -> "paid"
      [] OTHER -> "returned"

VerdictWord(status) ==
    CASE status = "Open"           -> "open"
      [] status = "ResolvedRefund" -> "refund"
      [] status = "ResolvedPayout" -> "payout"
      [] OTHER -> "split"

ParcelOf(r) == IF r = None THEN "none" ELSE ParcelWord(r.status)
MoneyOf(r) == IF r = None THEN "none" ELSE MoneyWord(r.status)
VerdictOf(c) == IF c = None THEN "none" ELSE VerdictWord(c.status)

Journey == INSTANCE PaymentJourney WITH
    Ids <- DeliveryIds,
    parcel <- [d \in DeliveryIds |-> ParcelOf(deliveries[d])],
    money <- [d \in DeliveryIds |-> MoneyOf(escrows[d])],
    verdict <- [d \in DeliveryIds |-> VerdictOf(disputes[d])]

\* Every call of any of the three contracts moves the parcel, the money and
\* the verdict of at most one delivery, and moves them together: no handler
\* that calls two contracts (cancel_delivery, confirm_delivery, the two ways
\* to raise a dispute, the three verdicts) leaves one of them behind, and no
\* call to a single contract takes a way that the others rule out.
FollowsJourney == Journey!JourneySpec
=============================================================================
