------------------------------- MODULE Dispute -------------------------------
(***************************************************************************)
(* dispute_resolution_contract, on top of the delivery and the escrow      *)
(* contract: the whole system that decides what happens to a payment.      *)
(***************************************************************************)
EXTENDS Delivery

CONSTANTS TimeLimits,  \* dispute_time_limit values that a deployer may pass
          U64Max,      \* largest timestamp
          MaxEvidence  \* bound on the evidence hashes of a case

ASSUME DisputeAssumption ==
    TimeLimits \subseteq Nat /\ U64Max \in Nat /\ MaxEvidence \in Nat

DisputeStatus == {"Open", "ResolvedRefund", "ResolvedPayout", "Split"}

\* The contract compares no evidence hashes: they are counted.
DisputeCase == [status : DisputeStatus, raised_by : Users, raised_at : Nat,
                evidence : Nat]

ASSUME NoneIsNoCase == None \notin DisputeCase

VARIABLES timeLimit,      \* DataKey::DisputeTimeLimit, None until init, which
                          \* stores the two contract addresses with it
          disputeAdmins,  \* the addresses a for which DataKey::Admin(a) is set
          disputes        \* DataKey::Dispute(id)

disputeOnlyVars == <<timeLimit, disputeAdmins, disputes>>
vars == <<deliveryVars, disputeOnlyVars>>

-----------------------------------------------------------------------------
DisputeInitialised == timeLimit # None

CaseExists(d) == disputes[d] # None

dispute_is_admin(caller) == caller \in disputeAdmins

dispute_init(admin, limit) ==
    /\ ~ DisputeInitialised
    /\ timeLimit' = limit
    /\ disputeAdmins' = disputeAdmins \union {admin}
    /\ UNCHANGED <<disputes, deliveryVars>>

add_admin(caller, new) ==
    /\ dispute_is_admin(caller)
    /\ disputeAdmins' = disputeAdmins \union {new}
    /\ UNCHANGED <<timeLimit, disputes, deliveryVars>>

\* An admin may remove any admin, the last one and itself included.
remove_admin(caller, old) ==
    /\ dispute_is_admin(caller)
    /\ disputeAdmins' = disputeAdmins \ {old}
    /\ UNCHANGED <<timeLimit, disputes, deliveryVars>>

\* Slip: the window closes one tick late.
WithinWindow_Late(d) ==
    /\ deliveries[d].delivered_at + timeLimit <= U64Max
    /\ now <= deliveries[d].delivered_at + timeLimit + 1

\* The sum is a checked u64 addition: a limit that is too large panics.
WithinWindow(d) ==
    /\ deliveries[d].delivered_at + timeLimit <= U64Max
    /\ now <= deliveries[d].delivered_at + timeLimit

\* The escrow contract is called twice in one invocation: raise_dispute, by
\* the delivery contract, and then freeze_funds on what that call left.
RaiseThenFreeze(caller, d) ==
    /\ MayDispute(caller, d)
    /\ escrows' = Frozen(Marked(escrows, caller, d), d)
    /\ UNCHANGED <<escrowAdmin, pendingAdmin, feeBps, balance>>

\* A delivery under way becomes Disputed first.  For a confirmed delivery
\* freeze_funds is the only call, and it leaves an escrow that is not Locked
\* as it is.
dispute_raise_dispute(caller, d) ==
    /\ DisputeInitialised
    /\ Known(d)
    /\ caller \in {deliveries[d].sender, deliveries[d].recipient}
    /\ \/ /\ deliveries[d].status = "Delivered"
          /\ WithinWindow(d)
          /\ freeze_funds(d)
          /\ UNCHANGED <<deliveryOnlyVars, now>>
       \/ /\ deliveries[d].status \in {"Active", "InTransit"}
          /\ Disputing(caller, d)
          /\ RaiseThenFreeze(caller, d)
    /\ ~ CaseExists(d)
    /\ disputes' = [disputes EXCEPT ![d] =
           [status |-> "Open", raised_by |-> caller, raised_at |-> now,
            evidence |-> 0]]
    /\ UNCHANGED <<timeLimit, disputeAdmins>>

add_evidence_hash(caller, d) ==
    /\ CaseExists(d)
    /\ disputes[d].status = "Open"
    /\ Known(d)
    /\ caller \in {deliveries[d].sender, deliveries[d].recipient}
    /\ disputes[d].evidence < MaxEvidence
    /\ disputes' = [disputes EXCEPT ![d].evidence = @ + 1]
    /\ UNCHANGED <<timeLimit, disputeAdmins, deliveryVars>>

\* Slip: a closed case can be closed again.
Closing_Again(caller, d, status) ==
    /\ dispute_is_admin(caller)
    /\ CaseExists(d)
    /\ disputes' = [disputes EXCEPT ![d].status = status]
    /\ UNCHANGED <<deliveryOnlyVars, now, timeLimit, disputeAdmins>>

\* What the three resolutions have in common.
Closing(caller, d, status) ==
    /\ dispute_is_admin(caller)
    /\ CaseExists(d)
    /\ disputes[d].status = "Open"
    /\ disputes' = [disputes EXCEPT ![d].status = status]
    /\ UNCHANGED <<deliveryOnlyVars, now, timeLimit, disputeAdmins>>

\* The escrow contract asks for its own admin: the caller has to be both.
resolve_dispute_refund_sender(caller, d) ==
    /\ Closing(caller, d, "ResolvedRefund")
    /\ resolve_dispute(caller, d, FALSE)

\* Slip: the flag of the other resolution is passed on.
resolve_dispute_pay_driver_Refunds(caller, d) ==
    /\ Closing(caller, d, "ResolvedPayout")
    /\ resolve_dispute(caller, d, FALSE)

resolve_dispute_pay_driver(caller, d) ==
    /\ Closing(caller, d, "ResolvedPayout")
    /\ resolve_dispute(caller, d, TRUE)

\* Slip: an escrow that is not Paused is an error.
resolve_dispute_split_funds_PausedOnly(caller, d, share) ==
    /\ Closing(caller, d, "Split")
    /\ resolve_dispute_split(caller, d, share)

\* An escrow that is not Paused is left as it is, and the case is closed.
resolve_dispute_split_funds(caller, d, share) ==
    /\ Closing(caller, d, "Split")
    /\ Exists(d)
    /\ \/ /\ escrows[d].status = "Paused"
          /\ resolve_dispute_split(caller, d, share)
       \/ /\ escrows[d].status # "Paused"
          /\ UNCHANGED escrowVars

-----------------------------------------------------------------------------
DisputeEmpty == disputes = [d \in DeliveryIds |-> None]

\* All contracts are on the ledger and none was initialised.
Init == DeliveryInit /\ timeLimit = None /\ disputeAdmins = {} /\ DisputeEmpty

\* The deployer initialised every contract before anyone used them.
DeployedInit ==
    \E admin \in Users :
        /\ DeliveryDeployed(admin)
        /\ timeLimit \in TimeLimits
        /\ disputeAdmins = {admin}
        /\ DisputeEmpty

DisputeCalls ==
    \/ \E admin \in Users, limit \in TimeLimits : dispute_init(admin, limit)
    \/ \E caller, new \in Users : add_admin(caller, new)
    \/ \E caller, old \in Users : remove_admin(caller, old)
    \/ \E d \in DeliveryIds, caller \in Users :
           \/ dispute_raise_dispute(caller, d)
           \/ add_evidence_hash(caller, d)
           \/ resolve_dispute_refund_sender(caller, d)
           \/ resolve_dispute_pay_driver(caller, d)
           \/ \E share \in Shares : resolve_dispute_split_funds(caller, d, share)

DirectDeliveryCalls == DeliveryNext /\ UNCHANGED disputeOnlyVars

Next == DirectDeliveryCalls \/ DisputeCalls

Spec == Init /\ [][Next]_vars

DeployedSpec == DeployedInit /\ [][Next]_vars

-----------------------------------------------------------------------------
(* Properties.                                                             *)

\* Every variable of this contract holds a value of its storage type.
DisputeTypeOK ==
    /\ timeLimit \in Nat \union {None}
    /\ disputeAdmins \subseteq Users
    /\ disputes \in [DeliveryIds -> DisputeCase \union {None}]

TypeOK == EscrowTypeOK /\ DeliveryTypeOK /\ DisputeTypeOK

\* Once a case was raised, neither the recipient nor anyone else can have
\* the escrow released as if nothing had happened: it is not Locked, and
\* that stays so when the case is closed.
CaseFreezesEscrow ==
    \A d \in DeliveryIds : CaseExists(d) =>
        Exists(d) /\ escrows[d].status # "Locked"

\* A verdict is given once: a closed case keeps its verdict and its evidence,
\* and an open one keeps who raised it and when, and loses no evidence.
CaseStep ==
    \A d \in DeliveryIds : CaseExists(d) =>
        LET old == disputes[d] new == disputes'[d] IN
        /\ new # None
        /\ new.raised_by = old.raised_by /\ new.raised_at = old.raised_at
        /\ new.evidence >= old.evidence
        /\ old.status # "Open" => new = old

VerdictsAreFinal == [][CaseStep]_vars

\* The verdict on record is what happened to the money: a case closed with a
\* refund has a refunded escrow, one closed with a payout a released one, and
\* no closed case leaves an escrow unsettled.
CaseOutcomeMatchesEscrow ==
    \A d \in DeliveryIds : CaseExists(d) =>
        CASE disputes[d].status = "ResolvedRefund" ->
                 escrows[d].status = "Refunded"
          [] disputes[d].status = "ResolvedPayout" ->
                 escrows[d].status = "Released"
          [] disputes[d].status = "Split" -> ~ Open(escrows[d])
          [] OTHER -> TRUE

\* The step that gives a verdict on an open case is the step that carries it
\* out, to the last unit: a refund gives the sender the whole amount, a
\* payout the driver the amount less the fee and the admin the fee, and a
\* split gives the sender a share that the arbiter may ask for and the driver
\* all the rest, with no fee.  Only a split may come too late, for an escrow
\* that somebody settled before; then nobody gains or loses anything.
VerdictStep ==
    \A d \in DeliveryIds :
        CaseExists(d) /\ disputes'[d].status # disputes[d].status =>
            /\ disputes'[d].status = "ResolvedRefund" =>
                  Open(escrows[d]) /\ SenderGains(escrows[d])
            /\ disputes'[d].status = "ResolvedPayout" =>
                  Open(escrows[d]) /\ DriverGains(escrows[d])
            /\ disputes'[d].status = "Split" =>
                  IF Open(escrows[d])
                  THEN \E share \in Shares : /\ share <= BasisPoints
                                            /\ BothGain(escrows[d], share)
                  ELSE UNCHANGED balance

VerdictsMoveMoney == [][VerdictStep]_vars

\* A dispute that was settled ends there: a delivery that is Disputed and
\* whose escrow is settled, by a verdict or by a direct call of the escrow
\* contract, never changes again, and neither does its escrow.
SettledDisputeStep ==
    \A d \in DeliveryIds :
        Known(d) /\ deliveries[d].status = "Disputed"
            /\ Exists(d) /\ ~ Open(escrows[d])
                => deliveries'[d] = deliveries[d] /\ escrows'[d] = escrows[d]

SettledDisputesRest == [][SettledDisputeStep]_vars

\* A case about a confirmed delivery was raised after the confirmation and
\* within the time limit, and a case about any other delivery was raised
\* while it was under way: such a delivery is Disputed, or was cancelled.
CasesAreTimely ==
    \A d \in DeliveryIds : CaseExists(d) =>
        /\ deliveries[d].status \in {"Delivered", "Disputed", "Cancelled"}
        /\ deliveries[d].status = "Delivered" =>
              disputes[d].raised_at \in deliveries[d].delivered_at ..
                  deliveries[d].delivered_at + timeLimit

\* What the architecture document says of a dispute that is not decided yet:
\* it "freezes the escrow_contract for a specific delivery", for an admin "to
\* slash funds, force-refund, or split funds": there are funds to decide on.
OpenCaseHoldsFunds ==
    \A d \in DeliveryIds :
        CaseExists(d) /\ disputes[d].status = "Open"
            => escrows[d].status = "Paused"

\* What the table of transitions says ("Disputed -> Delivered, Cancelled"):
\* being Disputed is no terminal state, so once the arbiter has decided, there
\* is a handler that someone can call to leave it.  Only cancel_delivery and
\* confirm_delivery do, and both need the escrow that the verdict settled.
\* (An escrow that names other people than its delivery would be a reason of
\* its own, and is left out.)
DecidedWithOwnEscrow(d) ==
    /\ CaseExists(d) /\ disputes[d].status # "Open"
    /\ escrows[d].sender = deliveries[d].sender
    /\ escrows[d].recipient = deliveries[d].recipient

DisputedDeliveryCanClose ==
    \A d \in DeliveryIds :
        Known(d) /\ deliveries[d].status = "Disputed"
            /\ DecidedWithOwnEscrow(d) =>
            \E u \in Users : \/ ENABLED cancel_delivery(u, d)
                             \/ ENABLED confirm_delivery(u, d)
=============================================================================
