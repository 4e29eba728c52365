------------------------------ MODULE Progress ------------------------------
(***************************************************************************)
(* What the contracts bring to an end when the people behind them do their *)
(* part.  A contract never acts on its own, so nothing here is fair by     *)
(* itself: the assumption is that a participant who can keep making a call *)
(* signs it in the end, and that the ledger takes it.  It is stated only   *)
(* for the calls that the protocol expects of the arbiter, the driver and  *)
(* the recipient.  Everything else may happen at any time, or never.       *)
(***************************************************************************)
EXTENDS Dispute

\* The deployer keeps all roles of an administrator: after a hand-over in one
\* contract only, nobody can give a verdict any more.
AdministrationStays == UNCHANGED <<escrowAdmin, pendingAdmin, disputeAdmins>>

\* The arbiter closes a case, in one of the three ways.
ArbiterDecides(d) ==
    \E arbiter \in Users :
        \/ resolve_dispute_refund_sender(arbiter, d)
        \/ resolve_dispute_pay_driver(arbiter, d)
        \/ \E share \in Shares : resolve_dispute_split_funds(arbiter, d, share)

\* The same person decides on a frozen escrow for which there is no case.
EscrowAdminDecides(d) ==
    /\ \E arbiter \in Users, toDriver \in BOOLEAN :
           resolve_dispute(arbiter, d, toDriver)
    /\ UNCHANGED <<deliveryOnlyVars, now, disputeOnlyVars>>

DriverDeparts(d) ==
    /\ \E driver \in Users : mark_in_transit(driver, d)
    /\ UNCHANGED disputeOnlyVars

RecipientConfirms(d) ==
    /\ \E recipient \in Users : confirm_delivery(recipient, d)
    /\ UNCHANGED disputeOnlyVars

ParticipantsActOn(d) ==
    /\ WF_vars(ArbiterDecides(d))
    /\ WF_vars(EscrowAdminDecides(d))
    /\ WF_vars(DriverDeparts(d))
    /\ WF_vars(RecipientConfirms(d))

SupportedSpec ==
    /\ DeployedInit
    /\ [][Next /\ AdministrationStays]_vars
    /\ \A d \in DeliveryIds : ParticipantsActOn(d)

-----------------------------------------------------------------------------
(* Properties.                                                             *)

\* Every case gets its verdict: whatever was done to the escrow behind the
\* back of this contract (a refund by cancel_delivery, a resolution by the
\* escrow contract itself), one of the three resolutions can still be made.
CaseIsOpen(d) == CaseExists(d) /\ disputes[d].status = "Open"

CasesGetClosed == \A d \in DeliveryIds : CaseIsOpen(d) ~> ~ CaseIsOpen(d)

\* The payment for a delivery that is under way does not stay in escrow: it
\* is confirmed and paid, or cancelled, or frozen and then decided on, in
\* whichever of the three contracts that was done and whoever froze it, a
\* stranger through freeze_funds included.  The escrow has to name the
\* recipient of the delivery: create_escrow does not see to that.
PaymentWaits(d) ==
    /\ Known(d)
    /\ deliveries[d].status \in {"Active", "InTransit"}
    /\ Open(escrows[d])
    /\ escrows[d].recipient = deliveries[d].recipient

PaymentsSettle == \A d \in DeliveryIds : PaymentWaits(d) ~> ~ Open(escrows[d])
=============================================================================
