---------------------------- MODULE JourneyProofs ----------------------------
(***************************************************************************)
(* The three contracts implement PaymentJourney, and the escrow contract   *)
(* keeps EscrowPromise when the other two call it: for every set of users, *)
(* tokens and deliveries, and for every amount, fee and share.             *)
(***************************************************************************)
EXTENDS JourneyRefinement, DisputeProofs, RefinementProofs

-----------------------------------------------------------------------------
(* The mapping of one record that changes.                                 *)

Parcels == [d \in DeliveryIds |-> ParcelOf(deliveries[d])]
Moneys == [d \in DeliveryIds |-> MoneyOf(escrows[d])]
Verdicts == [d \in DeliveryIds |-> VerdictOf(disputes[d])]

JourneyStep == [Journey!JourneyNext]_(Journey!journeyVars)

LEMMA OneParcelMoves ==
    ASSUME NEW d \in DeliveryIds, deliveries'[d] # None,
           \A e \in DeliveryIds \ {d} : deliveries'[e] = deliveries[e]
    PROVE  Parcels' = [Parcels EXCEPT ![d] = ParcelWord(deliveries'[d].status)]
BY DEF Parcels, ParcelOf

LEMMA OneMoneyMoves ==
    ASSUME NEW d \in DeliveryIds, escrows'[d] # None,
           \A e \in DeliveryIds \ {d} : escrows'[e] = escrows[e]
    PROVE  Moneys' = [Moneys EXCEPT ![d] = MoneyWord(escrows'[d].status)]
BY DEF Moneys, MoneyOf

LEMMA OneVerdictMoves ==
    ASSUME NEW d \in DeliveryIds, disputes'[d] # None,
           \A e \in DeliveryIds \ {d} : disputes'[e] = disputes[e]
    PROVE  Verdicts' = [Verdicts EXCEPT ![d] = VerdictWord(disputes'[d].status)]
BY DEF Verdicts, VerdictOf

\* Whatever leaves the three maps alone is no step of the journey.
LEMMA JourneyStands ==
    ASSUME UNCHANGED <<Parcels, Moneys, Verdicts>>
    PROVE  JourneyStep
BY DEF JourneyStep, Journey!journeyVars, Parcels, Moneys, Verdicts

LEMMA DeliveriesStay ==
    ASSUME UNCHANGED deliveryOnlyVars PROVE UNCHANGED Parcels
BY DEF deliveryOnlyVars, Parcels

LEMMA EscrowsStay ==
    ASSUME UNCHANGED escrows PROVE UNCHANGED Moneys
BY DEF Moneys

LEMMA DisputesStay ==
    ASSUME UNCHANGED disputeOnlyVars PROVE UNCHANGED Verdicts
BY DEF disputeOnlyVars, Verdicts

-----------------------------------------------------------------------------
(* What each handler does to the money.                                    *)

LEMMA StatusMovesMoney ==
    ASSUME EscrowTypeOK, NEW d \in DeliveryIds, Exists(d),
           NEW s \in EscrowStatus, SetStatus(d, s)
    PROVE  /\ Moneys[d] = MoneyWord(escrows[d].status)
           /\ Moneys' = [Moneys EXCEPT ![d] = MoneyWord(s)]
<1>1. Moneys[d] = MoneyWord(escrows[d].status)
  BY DEF Moneys, MoneyOf, Exists
<1>2. escrows'[d] # None /\ escrows'[d].status = s
  BY SetStatusIsVisible
<1>3. \A e \in DeliveryIds \ {d} : escrows'[e] = escrows[e]
  BY DEF SetStatus, EscrowTypeOK
<1>4. QED
  BY <1>1, <1>2, <1>3, OneMoneyMoves

\* A settlement: held or frozen money is paid or returned.
LEMMA SettlingMovesMoney ==
    ASSUME EscrowTypeOK, NEW d \in DeliveryIds, Exists(d), Open(escrows[d]),
           NEW s \in {"Released", "Refunded"}, SetStatus(d, s)
    PROVE  /\ Moneys[d] = IF escrows[d].status = "Locked" THEN "held"
                                                          ELSE "frozen"
           /\ Moneys' = [Moneys EXCEPT ![d] = IF s = "Released" THEN "paid"
                                                                ELSE "returned"]
<1>1. s \in EscrowStatus
  BY DEF EscrowStatus
<1>2. QED
  BY <1>1, StatusMovesMoney DEF Open, MoneyWord

LEMMA DisputeFreezesMoney ==
    ASSUME EscrowTypeOK, NEW d \in DeliveryIds, NEW caller \in Users,
           escrow_raise_dispute(caller, d)
    PROVE  Moneys[d] = "held" /\ Moneys' = [Moneys EXCEPT ![d] = "frozen"]
<1>1. /\ Exists(d) /\ escrows[d].status = "Locked"
      /\ escrows' = [escrows EXCEPT ![d].status = "Paused",
                                    ![d].disputed_by = caller]
  BY DEF escrow_raise_dispute, MayDispute, Marked
<1> DEFINE r == [escrows[d] EXCEPT !.status = "Paused", !.disputed_by = caller]
<1>2. r \in EscrowRecord /\ r.status = "Paused"
  BY <1>1, RecordIsTyped DEF EscrowRecord, EscrowStatus
<1>3. /\ escrows'[d] = r
      /\ \A e \in DeliveryIds \ {d} : escrows'[e] = escrows[e]
  BY <1>1 DEF EscrowTypeOK
<1> HIDE DEF r
<1>4. Moneys' = [Moneys EXCEPT ![d] = MoneyWord("Paused")]
  BY <1>2, <1>3, NoneIsNoEscrow, OneMoneyMoves
<1>5. QED
  BY <1>1, <1>4 DEF Moneys, MoneyOf, MoneyWord, Exists

LEMMA FreezingMovesMoney ==
    ASSUME EscrowTypeOK, NEW d \in DeliveryIds, freeze_funds(d)
    PROVE  \/ Moneys[d] = "held" /\ Moneys' = [Moneys EXCEPT ![d] = "frozen"]
           \/ escrows[d].status # "Locked" /\ UNCHANGED Moneys
<1>1. CASE escrows[d].status = "Locked"
  <2>1. Exists(d) /\ SetStatus(d, "Paused")
    BY <1>1 DEF freeze_funds, Frozen, SetStatus
  <2>2. QED
    BY <1>1, <2>1, StatusMovesMoney DEF EscrowStatus, MoneyWord
<1>2. CASE escrows[d].status # "Locked"
  BY <1>2, EscrowsStay DEF freeze_funds, Frozen
<1>3. QED
  BY <1>1, <1>2

LEMMA FundingMovesMoney ==
    ASSUME EscrowTypeOK, NEW d \in DeliveryIds, NEW sender \in Users,
           NEW recipient \in Users, NEW driver \in Users, NEW c \in Tokens,
           NEW n \in Amounts,
           create_escrow(sender, recipient, driver, d, c, n)
    PROVE  Moneys[d] = "none" /\ Moneys' = [Moneys EXCEPT ![d] = "held"]
<1> DEFINE r == [sender |-> sender, recipient |-> recipient, driver |-> driver,
                 token |-> c, amount |-> n, status |-> "Locked",
                 disputed_by |-> None]
<1>1. ~ Exists(d) /\ n \in Nat /\ escrows' = [escrows EXCEPT ![d] = r]
  BY EscrowAssumption DEF create_escrow, CanPay
<1>2. r \in EscrowRecord /\ r.status = "Locked"
  BY <1>1 DEF EscrowRecord, EscrowStatus
<1> HIDE DEF r
<1>3. /\ escrows'[d] = r
      /\ \A e \in DeliveryIds \ {d} : escrows'[e] = escrows[e]
  BY <1>1 DEF EscrowTypeOK
<1>4. Moneys' = [Moneys EXCEPT ![d] = MoneyWord("Locked")]
  BY <1>2, <1>3, NoneIsNoEscrow, OneMoneyMoves
<1>5. QED
  BY <1>1, <1>4 DEF Moneys, MoneyOf, MoneyWord, Exists

-----------------------------------------------------------------------------
(* What each handler does to the parcel.                                   *)

LEMMA StatusMovesParcel ==
    ASSUME DeliveryTypeOK, NEW d \in DeliveryIds, Known(d),
           NEW status \in DeliveryStatus, NEW driver \in Users \union {None},
           NEW time \in Nat \union {None}, MovesTo(d, status, driver, time)
    PROVE  /\ Parcels[d] = ParcelWord(deliveries[d].status)
           /\ Parcels' = [Parcels EXCEPT ![d] = ParcelWord(status)]
<1>1. /\ deliveries'[d] # None /\ deliveries'[d].status = status
      /\ \A e \in DeliveryIds \ {d} : deliveries'[e] = deliveries[e]
  BY MoveIsVisible DEF RecordBecomes
<1>2. Parcels[d] = ParcelWord(deliveries[d].status)
  BY DEF Parcels, ParcelOf, Known
<1>3. QED
  BY <1>1, <1>2, OneParcelMoves

\* A transition of the table that only changes the status.
LEMMA TransitionMovesParcel ==
    ASSUME DeliveryTypeOK, NEW d \in DeliveryIds, NEW status \in DeliveryStatus,
           MayBecome(d, status),
           deliveries' = [deliveries EXCEPT ![d].status = status]
    PROVE  /\ Parcels[d] = ParcelWord(deliveries[d].status)
           /\ Parcels' = [Parcels EXCEPT ![d] = ParcelWord(status)]
<1>1. Known(d)
  BY DEF MayBecome
<1>2. /\ deliveries[d].driver \in Users \union {None}
      /\ deliveries[d].delivered_at \in Nat \union {None}
  BY <1>1, DeliveryIsTyped DEF DeliveryRecord
<1>3. MovesTo(d, status, deliveries[d].driver, deliveries[d].delivered_at)
  BY <1>1, StatusMoves
<1>4. QED
  BY <1>1, <1>2, <1>3, StatusMovesParcel

\* The table of transitions in the words of the journey.
LEMMA TransitionsInWords ==
    ASSUME NEW d \in DeliveryIds
    PROVE  /\ MayBecome(d, "Active") =>
                  ParcelWord(deliveries[d].status) = "underway"
           /\ MayBecome(d, "InTransit") =>
                  ParcelWord(deliveries[d].status) = "underway"
           /\ MayBecome(d, "Disputed") =>
                  ParcelWord(deliveries[d].status) = "underway"
           /\ MayBecome(d, "Delivered") \/ MayBecome(d, "Cancelled") =>
                  ParcelWord(deliveries[d].status) \in {"underway", "disputed"}
           /\ MayBecome(d, "Delivered") /\ deliveries[d].status # "Disputed" =>
                  ParcelWord(deliveries[d].status) = "underway"
BY DEF MayBecome, validate_transition, Transitions, ParcelWord

-----------------------------------------------------------------------------
(* Calls of the escrow contract that leave the two others alone.           *)

LEMMA FundingFollows ==
    ASSUME UNCHANGED <<Parcels, Verdicts>>, NEW d \in DeliveryIds,
           Moneys[d] = "none", Moneys' = [Moneys EXCEPT ![d] = "held"]
    PROVE  JourneyStep
<1>1. Journey!Fund(d)
  BY DEF Journey!Fund, Parcels, Moneys, Verdicts
<1>2. QED
  BY <1>1 DEF JourneyStep, Journey!JourneyNext

LEMMA FreezingFollows ==
    ASSUME UNCHANGED <<Parcels, Verdicts>>, NEW d \in DeliveryIds,
           Moneys[d] = "held", Moneys' = [Moneys EXCEPT ![d] = "frozen"]
    PROVE  JourneyStep
<1>1. Journey!Freeze(d)
  BY DEF Journey!Freeze, Parcels, Moneys, Verdicts
<1>2. QED
  BY <1>1 DEF JourneyStep, Journey!JourneyNext

LEMMA SettlingFollows ==
    ASSUME EscrowTypeOK, UNCHANGED <<Parcels, Verdicts>>,
           NEW d \in DeliveryIds, Exists(d), Open(escrows[d]),
           NEW s \in {"Released", "Refunded"}, SetStatus(d, s)
    PROVE  JourneyStep
<1> DEFINE end == IF s = "Released" THEN "paid" ELSE "returned"
<1>1. /\ Moneys[d] \in {"held", "frozen"}
      /\ Moneys' = [Moneys EXCEPT ![d] = end]
  BY SettlingMovesMoney
<1>2. Journey!Settle(d, end)
  BY <1>1 DEF Journey!Settle, Parcels, Moneys, Verdicts
<1>3. end \in Journey!Settled
  BY DEF Journey!Settled
<1>4. QED
  BY <1>2, <1>3 DEF JourneyStep, Journey!JourneyNext

\* The handlers that settle, whoever calls them.
LEMMA SettlingCalls ==
    ASSUME EscrowTypeOK, NEW d \in DeliveryIds, NEW caller,
           \/ release_escrow(caller, d)
           \/ refund_escrow(caller, d)
           \/ \E toDriver \in BOOLEAN : resolve_dispute(caller, d, toDriver)
           \/ \E share \in Shares : resolve_dispute_split(caller, d, share)
    PROVE  \E s \in {"Released", "Refunded"} :
               Exists(d) /\ Open(escrows[d]) /\ SetStatus(d, s)
BY DEF release_escrow, refund_escrow, resolve_dispute, resolve_dispute_split,
   Open, Exists

LEMMA EscrowCallsFollow ==
    ASSUME EscrowTypeOK, EscrowNext, UNCHANGED <<Parcels, Verdicts>>
    PROVE  JourneyStep
<1>1. CASE EscrowAdministration \/ UserTransfers
  <2>1. UNCHANGED escrows
    BY <1>1 DEF EscrowAdministration, UserTransfers, escrow_init,
       update_platform_fee, propose_admin, accept_admin, token_transfer
  <2>2. QED
    BY <2>1, EscrowsStay, JourneyStands
<1>2. ASSUME NEW d \in DeliveryIds, NEW sender \in Users,
             NEW recipient \in Users, NEW driver \in Users, NEW c \in Tokens,
             NEW n \in Amounts,
             create_escrow(sender, recipient, driver, d, c, n)
      PROVE  JourneyStep
  BY <1>2, FundingMovesMoney, FundingFollows
<1>3. ASSUME NEW d \in DeliveryIds, NEW caller \in Users,
             \/ release_escrow(caller, d)
             \/ refund_escrow(caller, d)
             \/ \E toDriver \in BOOLEAN : resolve_dispute(caller, d, toDriver)
             \/ \E share \in Shares : resolve_dispute_split(caller, d, share)
      PROVE  JourneyStep
  BY <1>3, SettlingCalls, SettlingFollows
<1>4. ASSUME NEW d \in DeliveryIds, NEW caller \in Users,
             escrow_raise_dispute(caller, d)
      PROVE  JourneyStep
  BY <1>4, DisputeFreezesMoney, FreezingFollows
<1>5. ASSUME NEW d \in DeliveryIds, freeze_funds(d)
      PROVE  JourneyStep
  BY <1>5, FreezingMovesMoney, FreezingFollows, JourneyStands
<1>6. QED
  BY <1>1, <1>2, <1>3, <1>4, <1>5 DEF EscrowNext, EscrowLifecycleCalls

-----------------------------------------------------------------------------
(* Calls of the delivery contract that leave the cases alone.              *)

LEMMA CreationIsBook ==
    ASSUME DeliveryTypeOK, Numbered, UNCHANGED Verdicts,
           NEW sender \in Users, NEW recipient \in Users,
           create_delivery(sender, recipient)
    PROVE  JourneyStep
<1> DEFINE d == deliveryCounter + 1
<1>1. d \in DeliveryIds /\ UNCHANGED escrows
  BY SharedAssumption DEF create_delivery, DeliveryIds, DeliveryTypeOK, escrowVars
<1>2. Creation(d, sender, recipient)
  BY <1>1 DEF create_delivery, Creation
<1>3. /\ deliveries'[d] # None /\ deliveries'[d].status = "Pending"
      /\ \A e \in DeliveryIds \ {d} : deliveries'[e] = deliveries[e]
  BY <1>1, <1>2, CreationIsVisible
<1>4. Parcels[d] = "none"
  <2>1. deliveries[d] = None
    BY <1>1, DeliveryIdsAreNumbers DEF Numbered, Known, DeliveryTypeOK
  <2>2. QED
    BY <1>1, <2>1 DEF Parcels, ParcelOf
<1> HIDE DEF d
<1>5. Parcels' = [Parcels EXCEPT ![d] = "underway"]
  BY <1>1, <1>3, OneParcelMoves DEF ParcelWord
<1>6. Journey!Book(d)
  BY <1>1, <1>4, <1>5, EscrowsStay DEF Journey!Book, Parcels, Moneys, Verdicts
<1>7. QED
  BY <1>1, <1>6 DEF JourneyStep, Journey!JourneyNext

LEMMA CancellationIsWithdraw ==
    ASSUME DeliveryTypeOK, EscrowTypeOK, UNCHANGED Verdicts,
           NEW d \in DeliveryIds, NEW sender \in Users,
           cancel_delivery(sender, d)
    PROVE  JourneyStep
<1>1. /\ Exists(d) /\ Open(escrows[d]) /\ SetStatus(d, "Refunded")
      /\ MayBecome(d, "Cancelled") /\ "Cancelled" \in DeliveryStatus
      /\ deliveries' = [deliveries EXCEPT ![d].status = "Cancelled"]
  BY DEF cancel_delivery, refund_escrow, Open, Exists, DeliveryStatus
<1>2. /\ Parcels[d] \in {"underway", "disputed"}
      /\ Parcels' = [Parcels EXCEPT ![d] = "withdrawn"]
  BY <1>1, TransitionMovesParcel, TransitionsInWords DEF ParcelWord
<1>3. /\ Moneys[d] \in {"held", "frozen"}
      /\ Moneys' = [Moneys EXCEPT ![d] = "returned"]
  BY <1>1, SettlingMovesMoney
<1>4. Journey!Withdraw(d)
  BY <1>2, <1>3 DEF Journey!Withdraw, Parcels, Moneys, Verdicts
<1>5. QED
  BY <1>4 DEF JourneyStep, Journey!JourneyNext

\* A Disputed delivery is not Locked (StatusAgreement), so it never arrives.
LEMMA ConfirmationIsArrive ==
    ASSUME DeliveryTypeOK, EscrowTypeOK, StatusAgreement, UNCHANGED Verdicts,
           NEW d \in DeliveryIds, NEW recipient \in Users,
           confirm_delivery(recipient, d)
    PROVE  JourneyStep
<1>1. /\ Exists(d) /\ escrows[d].status = "Locked" /\ SetStatus(d, "Released")
      /\ MayBecome(d, "Delivered") /\ Known(d)
  BY DEF confirm_delivery, release_escrow, MayBecome
<1>2. deliveries[d].status # "Disputed"
  BY <1>1 DEF StatusAgreement, AgreesWithEscrow
<1>3. /\ MovesTo(d, "Delivered", deliveries[d].driver, now)
      /\ deliveries[d].driver \in Users \union {None}
      /\ now \in Nat /\ "Delivered" \in DeliveryStatus
  BY <1>1, ConfirmationMoves, DeliveryIsTyped
     DEF DeliveryRecord, DeliveryTypeOK, DeliveryStatus
<1>4. /\ Parcels[d] = "underway"
      /\ Parcels' = [Parcels EXCEPT ![d] = "arrived"]
  <2>1. /\ Parcels[d] = ParcelWord(deliveries[d].status)
        /\ Parcels' = [Parcels EXCEPT ![d] = ParcelWord("Delivered")]
    BY <1>1, <1>3, StatusMovesParcel
  <2>2. QED
    BY <1>1, <1>2, <2>1, TransitionsInWords DEF ParcelWord
<1>5. Moneys[d] = "held" /\ Moneys' = [Moneys EXCEPT ![d] = "paid"]
  BY <1>1, SettlingMovesMoney DEF Open, Exists
<1>6. Journey!Arrive(d)
  BY <1>4, <1>5 DEF Journey!Arrive, Parcels, Moneys, Verdicts
<1>7. QED
  BY <1>6 DEF JourneyStep, Journey!JourneyNext

\* Both contracts take note of a dispute on the way in the same step.
LEMMA DisputeStopsBoth ==
    ASSUME DeliveryTypeOK, EscrowTypeOK, NEW d \in DeliveryIds,
           NEW caller \in Users, delivery_raise_dispute(caller, d)
    PROVE  /\ Parcels[d] = "underway" /\ Moneys[d] = "held"
           /\ Parcels' = [Parcels EXCEPT ![d] = "disputed"]
           /\ Moneys' = [Moneys EXCEPT ![d] = "frozen"]
<1>1. /\ MayBecome(d, "Disputed") /\ "Disputed" \in DeliveryStatus
      /\ deliveries' = [deliveries EXCEPT ![d].status = "Disputed"]
      /\ escrow_raise_dispute(caller, d)
  BY DEF delivery_raise_dispute, Disputing, DeliveryStatus
<1>2. QED
  BY <1>1, TransitionMovesParcel, TransitionsInWords, DisputeFreezesMoney
     DEF ParcelWord

LEMMA DisputingIsDispute ==
    ASSUME NEW d \in DeliveryIds,
           Parcels[d] = "underway", Moneys[d] = "held",
           Parcels' = [Parcels EXCEPT ![d] = "disputed"],
           Moneys' = [Moneys EXCEPT ![d] = "frozen"],
           \/ UNCHANGED Verdicts
           \/ /\ Verdicts[d] = "none"
              /\ Verdicts' = [Verdicts EXCEPT ![d] = "open"]
    PROVE  JourneyStep
<1>1. CASE UNCHANGED Verdicts
  <2>1. Verdicts' = [Verdicts EXCEPT ![d] = Verdicts[d]]
    BY <1>1 DEF Verdicts
  <2>2. Journey!Dispute(d, Verdicts[d])
    BY <2>1 DEF Journey!Dispute, Parcels, Moneys, Verdicts
  <2>3. QED
    BY <2>2 DEF JourneyStep, Journey!JourneyNext, Verdicts
<1>2. CASE /\ Verdicts[d] = "none"
           /\ Verdicts' = [Verdicts EXCEPT ![d] = "open"]
  <2>1. Journey!Dispute(d, "open")
    BY <1>2 DEF Journey!Dispute, Parcels, Moneys, Verdicts
  <2>2. QED
    BY <2>1 DEF JourneyStep, Journey!JourneyNext
<1>3. QED
  BY <1>1, <1>2

LEMMA DeliveryCallsFollow ==
    ASSUME DeliveryTypeOK, EscrowTypeOK, Numbered, StatusAgreement,
           DeliveryNext, UNCHANGED Verdicts
    PROVE  JourneyStep
<1>1. CASE DirectEscrowCalls
  BY <1>1, DeliveriesStay, EscrowCallsFollow DEF DirectEscrowCalls
<1>2. CASE Tick \/ \E admin \in Users : delivery_init(admin)
  <2>1. UNCHANGED <<deliveries, escrows>>
    BY <1>2 DEF Tick, delivery_init, escrowVars, deliveryOnlyVars
  <2>2. QED
    BY <2>1, JourneyStands DEF Parcels, Moneys
<1>3. ASSUME NEW d \in DeliveryIds, NEW caller \in Users, NEW driver \in Users,
             assign_driver(caller, d, driver)
      PROVE  JourneyStep
  <2>1. /\ MayBecome(d, "Active") /\ Known(d) /\ UNCHANGED escrows
        /\ deliveries[d].delivered_at \in Nat \union {None}
        /\ "Active" \in DeliveryStatus
    BY <1>3, DeliveryIsTyped
       DEF assign_driver, MayBecome, escrowVars, DeliveryRecord, DeliveryStatus
  <2>2. /\ Parcels[d] = ParcelWord(deliveries[d].status)
        /\ Parcels' = [Parcels EXCEPT ![d] = ParcelWord("Active")]
    BY <1>3, <2>1, AssignmentMoves, StatusMovesParcel
  <2>3. Parcels' = Parcels
    BY <2>1, <2>2, TransitionsInWords DEF ParcelWord, Parcels
  <2>4. QED
    BY <2>1, <2>3, EscrowsStay, JourneyStands
<1>4. ASSUME NEW d \in DeliveryIds, NEW caller \in Users,
             mark_in_transit(caller, d)
      PROVE  JourneyStep
  <2>1. /\ MayBecome(d, "InTransit") /\ UNCHANGED escrows
        /\ "InTransit" \in DeliveryStatus
        /\ deliveries' = [deliveries EXCEPT ![d].status = "InTransit"]
    BY <1>4 DEF mark_in_transit, escrowVars, DeliveryStatus
  <2>2. /\ Parcels[d] = ParcelWord(deliveries[d].status)
        /\ Parcels' = [Parcels EXCEPT ![d] = ParcelWord("InTransit")]
    BY <2>1, TransitionMovesParcel
  <2>3. Parcels' = Parcels
    BY <2>1, <2>2, TransitionsInWords DEF ParcelWord, Parcels
  <2>4. QED
    BY <2>1, <2>3, EscrowsStay, JourneyStands
<1>5. ASSUME NEW d \in DeliveryIds, NEW caller \in Users,
             delivery_raise_dispute(caller, d)
      PROVE  JourneyStep
  BY <1>5, DisputeStopsBoth, DisputingIsDispute
<1>6. CASE DeliveryCalls
  BY <1>2, <1>3, <1>4, <1>5, <1>6, CreationIsBook, CancellationIsWithdraw,
     ConfirmationIsArrive DEF DeliveryCalls
<1>7. QED
  BY <1>1, <1>2, <1>6 DEF DeliveryNext

-----------------------------------------------------------------------------
(* Calls of the dispute contract.                                          *)

LEMMA RaisingOpensVerdict ==
    ASSUME TypeOK, NEW d \in DeliveryIds, NEW caller \in Users,
           dispute_raise_dispute(caller, d)
    PROVE  Verdicts[d] = "none" /\ Verdicts' = [Verdicts EXCEPT ![d] = "open"]
<1>1. Raising(d, caller)
  BY RaisingIsRaising
<1>2. /\ disputes'[d] # None /\ disputes'[d].status = "Open"
      /\ \A e \in DeliveryIds \ {d} : disputes'[e] = disputes[e]
  BY <1>1, RaisingIsVisible DEF CaseExists
<1>3. QED
  BY <1>1, <1>2, OneVerdictMoves
     DEF Raising, CaseExists, Verdicts, VerdictOf, VerdictWord

\* freeze_funds finds the escrow of a confirmed delivery released.
LEMMA ComplainingFollows ==
    ASSUME TypeOK, StatusAgreement, NEW d \in DeliveryIds,
           Known(d), deliveries[d].status = "Delivered",
           freeze_funds(d), UNCHANGED deliveryOnlyVars,
           Verdicts[d] = "none", Verdicts' = [Verdicts EXCEPT ![d] = "open"]
    PROVE  JourneyStep
<1>1. escrows[d] # None /\ escrows[d].status = "Released"
  BY DEF StatusAgreement, AgreesWithEscrow
<1>2. Moneys[d] = "paid" /\ UNCHANGED Moneys
  BY <1>1, EscrowsStay DEF freeze_funds, Frozen, Moneys, MoneyOf, MoneyWord
<1>3. Parcels[d] = "arrived" /\ UNCHANGED Parcels
  BY DeliveriesStay DEF Parcels, ParcelOf, ParcelWord, Known
<1>4. Journey!Complain(d)
  BY <1>2, <1>3 DEF Journey!Complain, Parcels, Moneys, Verdicts
<1>5. QED
  BY <1>4 DEF JourneyStep, Journey!JourneyNext

LEMMA RaisingFollows ==
    ASSUME TypeOK, StatusAgreement, NEW d \in DeliveryIds, NEW caller \in Users,
           dispute_raise_dispute(caller, d)
    PROVE  JourneyStep
<1>1. Verdicts[d] = "none" /\ Verdicts' = [Verdicts EXCEPT ![d] = "open"]
  BY RaisingOpensVerdict
<1>2. CASE delivery_raise_dispute(caller, d)
  BY <1>1, <1>2, DisputeStopsBoth, DisputingIsDispute DEF TypeOK
<1>3. CASE /\ deliveries[d].status = "Delivered" /\ freeze_funds(d)
           /\ UNCHANGED deliveryOnlyVars
  BY <1>1, <1>3, ComplainingFollows DEF dispute_raise_dispute
<1>4. QED
  BY <1>2, <1>3, RaisingCallsOne

LEMMA ClosingGivesVerdict ==
    ASSUME TypeOK, NEW d \in DeliveryIds, NEW caller,
           NEW status \in DisputeStatus, Closing(caller, d, status)
    PROVE  /\ Verdicts[d] = "open"
           /\ Verdicts' = [Verdicts EXCEPT ![d] = VerdictWord(status)]
           /\ UNCHANGED Parcels
<1> DEFINE case == [disputes[d] EXCEPT !.status = status]
<1>1. /\ CaseExists(d) /\ disputes[d].status = "Open"
      /\ disputes' = [disputes EXCEPT ![d].status = status]
      /\ UNCHANGED deliveryOnlyVars
  BY DEF Closing
<1>2. case \in DisputeCase /\ case.status = status
  BY <1>1, CaseIsTyped DEF DisputeCase, TypeOK
<1>3. /\ disputes'[d] = case
      /\ \A e \in DeliveryIds \ {d} : disputes'[e] = disputes[e]
  BY <1>1 DEF TypeOK, DisputeTypeOK
<1> HIDE DEF case
<1>4. Verdicts' = [Verdicts EXCEPT ![d] = VerdictWord(status)]
  BY <1>2, <1>3, NoneIsNoCase, OneVerdictMoves
<1>5. QED
  BY <1>1, <1>4, DeliveriesStay
     DEF Verdicts, VerdictOf, VerdictWord, CaseExists

LEMMA DecidingIsDecide ==
    ASSUME NEW d \in DeliveryIds, UNCHANGED Parcels, Verdicts[d] = "open",
           NEW decision \in {"refund", "payout", "split"},
           NEW end \in {"paid", "returned"},
           Verdicts' = [Verdicts EXCEPT ![d] = decision],
           Moneys' = [Moneys EXCEPT ![d] = end],
           \/ /\ Moneys[d] = "frozen"
              /\ <<decision, end>> \in {<<"refund", "returned">>,
                                        <<"payout", "paid">>,
                                        <<"split", "returned">>}
           \/ Moneys[d] = end /\ decision = "split"
    PROVE  JourneyStep
<1>1. Journey!Decide(d, decision, end)
  BY DEF Journey!Decide, Parcels, Moneys, Verdicts
<1>2. QED
  BY <1>1 DEF JourneyStep, Journey!JourneyNext, Journey!Settled

LEMMA VerdictFollows ==
    ASSUME CasesAreSound, NEW d \in DeliveryIds, NEW caller \in Users,
           \/ resolve_dispute_refund_sender(caller, d)
           \/ resolve_dispute_pay_driver(caller, d)
           \/ \E share \in Shares : resolve_dispute_split_funds(caller, d, share)
    PROVE  JourneyStep
<1> USE DEF CasesAreSound, TypeOK
<1>1. CASE resolve_dispute_refund_sender(caller, d)
  <2>1. /\ Closing(caller, d, "ResolvedRefund")
        /\ Exists(d) /\ escrows[d].status = "Paused" /\ SetStatus(d, "Refunded")
    BY <1>1 DEF resolve_dispute_refund_sender, resolve_dispute
  <2>2. Moneys[d] = "frozen" /\ Moneys' = [Moneys EXCEPT ![d] = "returned"]
    BY <2>1, SettlingMovesMoney DEF Open, Exists
  <2>3. /\ Verdicts[d] = "open" /\ UNCHANGED Parcels
        /\ Verdicts' = [Verdicts EXCEPT ![d] = "refund"]
    BY <2>1, ClosingGivesVerdict DEF DisputeStatus, VerdictWord
  <2>4. QED
    BY <2>2, <2>3, DecidingIsDecide
<1>2. CASE resolve_dispute_pay_driver(caller, d)
  <2>1. /\ Closing(caller, d, "ResolvedPayout")
        /\ Exists(d) /\ escrows[d].status = "Paused" /\ SetStatus(d, "Released")
    BY <1>2 DEF resolve_dispute_pay_driver, resolve_dispute
  <2>2. Moneys[d] = "frozen" /\ Moneys' = [Moneys EXCEPT ![d] = "paid"]
    BY <2>1, SettlingMovesMoney DEF Open, Exists
  <2>3. /\ Verdicts[d] = "open" /\ UNCHANGED Parcels
        /\ Verdicts' = [Verdicts EXCEPT ![d] = "payout"]
    BY <2>1, ClosingGivesVerdict DEF DisputeStatus, VerdictWord
  <2>4. QED
    BY <2>2, <2>3, DecidingIsDecide
<1>3. ASSUME NEW share \in Shares, resolve_dispute_split_funds(caller, d, share)
      PROVE  JourneyStep
  <2>1. Closing(caller, d, "Split") /\ CaseExists(d) /\ Exists(d)
    BY <1>3 DEF resolve_dispute_split_funds, Closing
  <2>2. /\ Verdicts[d] = "open" /\ UNCHANGED Parcels
        /\ Verdicts' = [Verdicts EXCEPT ![d] = "split"]
    BY <2>1, ClosingGivesVerdict DEF DisputeStatus, VerdictWord
  <2>3. CASE resolve_dispute_split(caller, d, share)
    <3>1. escrows[d].status = "Paused" /\ SetStatus(d, "Refunded")
      BY <2>3 DEF resolve_dispute_split
    <3>2. Moneys[d] = "frozen" /\ Moneys' = [Moneys EXCEPT ![d] = "returned"]
      BY <2>1, <3>1, SettlingMovesMoney DEF Open, Exists
    <3>3. QED
      BY <2>2, <3>2, DecidingIsDecide
  <2>4. CASE escrows[d].status # "Paused" /\ UNCHANGED escrowVars
    <3>1. escrows[d].status \in {"Released", "Refunded"}
      BY <2>1, <2>4, RecordIsTyped DEF CaseFreezesEscrow, EscrowStatus
    <3>2. Moneys[d] \in {"paid", "returned"}
      BY <2>1, <3>1 DEF Moneys, MoneyOf, MoneyWord, Exists
    <3>3. Moneys' = [Moneys EXCEPT ![d] = Moneys[d]]
      BY <2>4, EscrowsStay DEF escrowVars, Moneys
    <3>4. QED
      BY <2>2, <3>2, <3>3, DecidingIsDecide
  <2>5. QED
    BY <1>3, <2>3, <2>4 DEF resolve_dispute_split_funds
<1>4. QED
  BY <1>1, <1>2, <1>3

LEMMA StepFollowsJourney ==
    ASSUME CasesAreSound, Numbered, StatusAgreement, [Next]_vars
    PROVE  JourneyStep
<1> USE DEF CasesAreSound, TypeOK
<1>1. CASE DirectDeliveryCalls
  BY <1>1, DisputesStay, DeliveryCallsFollow DEF DirectDeliveryCalls
<1>2. ASSUME \/ \E admin, limit : dispute_init(admin, limit)
             \/ \E caller, new : add_admin(caller, new) \/ remove_admin(caller, new)
             \/ UNCHANGED vars
      PROVE  JourneyStep
  <2>1. UNCHANGED <<deliveries, escrows, disputes>>
    BY <1>2 DEF dispute_init, add_admin, remove_admin, vars, deliveryVars,
       deliveryOnlyVars, escrowVars, disputeOnlyVars
  <2>2. QED
    BY <2>1, JourneyStands DEF Parcels, Moneys, Verdicts
<1>3. ASSUME NEW d \in DeliveryIds, NEW caller \in Users,
             add_evidence_hash(caller, d)
      PROVE  JourneyStep
  <2>1. Documenting(d) /\ UNCHANGED <<deliveries, escrows>>
    BY <1>3 DEF add_evidence_hash, Documenting, CaseBecomes, DisputeTypeOK,
       deliveryVars, deliveryOnlyVars, escrowVars
  <2>2. /\ disputes'[d] # None /\ disputes'[d].status = "Open"
        /\ \A e \in DeliveryIds \ {d} : disputes'[e] = disputes[e]
    BY <2>1, DocumentingIsVisible DEF CaseExists
  <2>3. Verdicts' = [Verdicts EXCEPT ![d] = VerdictWord("Open")]
    BY <2>2, OneVerdictMoves
  <2>4. Verdicts[d] = VerdictWord("Open")
    BY <2>1 DEF Documenting, CaseExists, Verdicts, VerdictOf
  <2>5. UNCHANGED Verdicts
    BY <2>3, <2>4 DEF Verdicts
  <2>6. QED
    BY <2>1, <2>5, JourneyStands DEF Parcels, Moneys
<1>4. CASE DisputeCalls
  BY <1>2, <1>3, <1>4, RaisingFollows, VerdictFollows DEF DisputeCalls
<1>5. QED
  BY <1>1, <1>2, <1>4 DEF Next

\* In a system that its deployer initialised, every behaviour of the three
\* contracts is, to someone who looks only at parcels, money and verdicts, a
\* behaviour of the journey.
THEOREM JourneyIsFollowed == DeployedSpec => FollowsJourney
<1>1. DeployedInit => Journey!JourneyInit
  <2> SUFFICES ASSUME DeployedInit PROVE Journey!JourneyInit
    OBVIOUS
  <2>1. /\ deliveries = [d \in DeliveryIds |-> None]
        /\ escrows = [d \in DeliveryIds |-> None]
        /\ disputes = [d \in DeliveryIds |-> None]
    BY DEF DeployedInit, DeliveryDeployed, DeliveryEmpty, DisputeEmpty
  <2>2. QED
    BY <2>1 DEF Journey!JourneyInit, ParcelOf, MoneyOf, VerdictOf
<1>2. CasesAreSound /\ Numbered /\ StatusAgreement /\ [Next]_vars
          => [Journey!JourneyNext]_(Journey!journeyVars)
  BY StepFollowsJourney DEF JourneyStep
<1>3. QED
  BY <1>1, <1>2, DeployedSound, DeployedAgrees, PTL
     DEF DeployedSpec, FollowsJourney, Journey!JourneySpec

-----------------------------------------------------------------------------
(* What it means to follow the journey.                                    *)

\* Where the parcel is and what was decided say where the money is.
TogetherAt(p, m, v) ==
    /\ p = "arrived" => m = "paid"
    /\ p = "withdrawn" => m = "returned"
    /\ p = "disputed" => m \in {"frozen", "paid", "returned"}
    /\ v = "open" => m \in {"frozen", "paid", "returned"}
    /\ v = "refund" => m = "returned"
    /\ v = "payout" => m = "paid"
    /\ v = "split" => m \in {"paid", "returned"}
    /\ v \in {"none", "open", "refund", "payout", "split"}

Together ==
    \A d \in DeliveryIds : TogetherAt(Parcels[d], Moneys[d], Verdicts[d])

\* A step of the journey moves the three words of one delivery, to words that
\* go together when the old ones did.
LEMMA OneDeliveryTravels ==
    ASSUME Journey!JourneyNext
    PROVE  \E d \in DeliveryIds :
              /\ \E p : Parcels' = [Parcels EXCEPT ![d] = p]
              /\ \E m : Moneys' = [Moneys EXCEPT ![d] = m]
              /\ \E v : Verdicts' = [Verdicts EXCEPT ![d] = v]
              /\ TogetherAt(Parcels[d], Moneys[d], Verdicts[d])
                    => TogetherAt(Parcels'[d], Moneys'[d], Verdicts'[d])
<1> DEFINE Travels(d) ==
              /\ \E p : Parcels' = [Parcels EXCEPT ![d] = p]
              /\ \E m : Moneys' = [Moneys EXCEPT ![d] = m]
              /\ \E v : Verdicts' = [Verdicts EXCEPT ![d] = v]
              /\ TogetherAt(Parcels[d], Moneys[d], Verdicts[d])
                    => TogetherAt(Parcels'[d], Moneys'[d], Verdicts'[d])
<1>1. /\ Parcels = [d \in DeliveryIds |-> Parcels[d]]
      /\ Moneys = [d \in DeliveryIds |-> Moneys[d]]
      /\ Verdicts = [d \in DeliveryIds |-> Verdicts[d]]
  BY DEF Parcels, Moneys, Verdicts
<1>2. ASSUME NEW d \in DeliveryIds, NEW p, NEW m, NEW v,
             Parcels' = [Parcels EXCEPT ![d] = p],
             Moneys' = [Moneys EXCEPT ![d] = m],
             Verdicts' = [Verdicts EXCEPT ![d] = v],
             TogetherAt(Parcels[d], Moneys[d], Verdicts[d])
                 => TogetherAt(p, m, v)
      PROVE  Travels(d)
  <2>1. Parcels'[d] = p /\ Moneys'[d] = m /\ Verdicts'[d] = v
    BY <1>1, <1>2
  <2>2. QED
    BY <1>2, <2>1 DEF Travels
<1>3. ASSUME NEW d \in DeliveryIds
      PROVE  /\ [Parcels EXCEPT ![d] = Parcels[d]] = Parcels
             /\ [Moneys EXCEPT ![d] = Moneys[d]] = Moneys
             /\ [Verdicts EXCEPT ![d] = Verdicts[d]] = Verdicts
  BY <1>1
<1> HIDE DEF Travels
<1>4. ASSUME NEW d \in DeliveryIds, Journey!Book(d)
      PROVE  Travels(d)
  <2>1. /\ Parcels[d] = "none" /\ UNCHANGED <<Moneys, Verdicts>>
        /\ Parcels' = [Parcels EXCEPT ![d] = "underway"]
    BY <1>4 DEF Journey!Book, Parcels, Moneys, Verdicts
  <2>2. TogetherAt(Parcels[d], Moneys[d], Verdicts[d])
            => TogetherAt("underway", Moneys[d], Verdicts[d])
    BY <2>1 DEF TogetherAt
  <2>3. QED
    BY <1>2, <1>3, <2>1, <2>2
<1>5. ASSUME NEW d \in DeliveryIds, Journey!Fund(d)
      PROVE  Travels(d)
  <2>1. /\ Moneys[d] = "none" /\ UNCHANGED <<Parcels, Verdicts>>
        /\ Moneys' = [Moneys EXCEPT ![d] = "held"]
    BY <1>5 DEF Journey!Fund, Parcels, Moneys, Verdicts
  <2>2. TogetherAt(Parcels[d], Moneys[d], Verdicts[d])
            => TogetherAt(Parcels[d], "held", Verdicts[d])
    BY <2>1 DEF TogetherAt
  <2>3. QED
    BY <1>2, <1>3, <2>1, <2>2
<1>6. ASSUME NEW d \in DeliveryIds, Journey!Arrive(d)
      PROVE  Travels(d)
  <2>1. /\ Parcels[d] = "underway" /\ Moneys[d] = "held"
        /\ UNCHANGED Verdicts
        /\ Parcels' = [Parcels EXCEPT ![d] = "arrived"]
        /\ Moneys' = [Moneys EXCEPT ![d] = "paid"]
    BY <1>6 DEF Journey!Arrive, Parcels, Moneys, Verdicts
  <2>2. TogetherAt(Parcels[d], Moneys[d], Verdicts[d])
            => TogetherAt("arrived", "paid", Verdicts[d])
    BY <2>1 DEF TogetherAt
  <2>3. QED
    BY <1>2, <1>3, <2>1, <2>2
<1>7. ASSUME NEW d \in DeliveryIds, Journey!Withdraw(d)
      PROVE  Travels(d)
  <2>1. /\ Moneys[d] \in {"held", "frozen"} /\ UNCHANGED Verdicts
        /\ Parcels' = [Parcels EXCEPT ![d] = "withdrawn"]
        /\ Moneys' = [Moneys EXCEPT ![d] = "returned"]
    BY <1>7 DEF Journey!Withdraw, Parcels, Moneys, Verdicts
  <2>2. TogetherAt(Parcels[d], Moneys[d], Verdicts[d])
            => TogetherAt("withdrawn", "returned", Verdicts[d])
    BY <2>1 DEF TogetherAt
  <2>3. QED
    BY <1>2, <1>3, <2>1, <2>2
<1>8. ASSUME NEW d \in DeliveryIds, NEW next \in {"open", Verdicts[d]},
             Journey!Dispute(d, next)
      PROVE  Travels(d)
  <2>1. /\ Moneys[d] = "held"
        /\ Parcels' = [Parcels EXCEPT ![d] = "disputed"]
        /\ Moneys' = [Moneys EXCEPT ![d] = "frozen"]
        /\ Verdicts' = [Verdicts EXCEPT ![d] = next]
        /\ next # Verdicts[d] => next = "open"
    BY <1>8 DEF Journey!Dispute, Parcels, Moneys, Verdicts
  <2>2. TogetherAt(Parcels[d], Moneys[d], Verdicts[d])
            => TogetherAt("disputed", "frozen", next)
    BY <2>1 DEF TogetherAt
  <2>3. QED
    BY <1>2, <1>3, <2>1, <2>2
<1>9. ASSUME NEW d \in DeliveryIds, Journey!Complain(d)
      PROVE  Travels(d)
  <2>1. /\ Moneys[d] = "paid" /\ UNCHANGED <<Parcels, Moneys>>
        /\ Verdicts' = [Verdicts EXCEPT ![d] = "open"]
    BY <1>9 DEF Journey!Complain, Parcels, Moneys, Verdicts
  <2>2. TogetherAt(Parcels[d], Moneys[d], Verdicts[d])
            => TogetherAt(Parcels[d], Moneys[d], "open")
    BY <2>1 DEF TogetherAt
  <2>3. QED
    BY <1>2, <1>3, <2>1, <2>2
<1>10. ASSUME NEW d \in DeliveryIds, Journey!Freeze(d)
       PROVE  Travels(d)
  <2>1. /\ Moneys[d] = "held" /\ UNCHANGED <<Parcels, Verdicts>>
        /\ Moneys' = [Moneys EXCEPT ![d] = "frozen"]
    BY <1>10 DEF Journey!Freeze, Parcels, Moneys, Verdicts
  <2>2. TogetherAt(Parcels[d], Moneys[d], Verdicts[d])
            => TogetherAt(Parcels[d], "frozen", Verdicts[d])
    BY <2>1 DEF TogetherAt
  <2>3. QED
    BY <1>2, <1>3, <2>1, <2>2
<1>11. ASSUME NEW d \in DeliveryIds, NEW end \in {"paid", "returned"},
              Journey!Settle(d, end)
       PROVE  Travels(d)
  <2>1. /\ Moneys[d] \in {"held", "frozen"} /\ UNCHANGED <<Parcels, Verdicts>>
        /\ Moneys' = [Moneys EXCEPT ![d] = end]
    BY <1>11 DEF Journey!Settle, Parcels, Moneys, Verdicts
  <2>2. TogetherAt(Parcels[d], Moneys[d], Verdicts[d])
            => TogetherAt(Parcels[d], end, Verdicts[d])
    BY <2>1 DEF TogetherAt
  <2>3. QED
    BY <1>2, <1>3, <2>1, <2>2
<1>12. ASSUME NEW d \in DeliveryIds, NEW end \in {"paid", "returned"},
              NEW decision \in {"refund", "payout", "split"},
              Journey!Decide(d, decision, end)
       PROVE  Travels(d)
  <2>1. /\ Verdicts[d] = "open" /\ UNCHANGED Parcels
        /\ \/ /\ Moneys[d] = "frozen"
              /\ <<decision, end>> \in {<<"refund", "returned">>,
                                        <<"payout", "paid">>,
                                        <<"split", "returned">>}
           \/ Moneys[d] = end /\ decision = "split"
        /\ Verdicts' = [Verdicts EXCEPT ![d] = decision]
        /\ Moneys' = [Moneys EXCEPT ![d] = end]
    BY <1>12 DEF Journey!Decide, Parcels, Moneys, Verdicts
  <2>2. TogetherAt(Parcels[d], Moneys[d], Verdicts[d])
            => TogetherAt(Parcels[d], end, decision)
    BY <2>1 DEF TogetherAt
  <2>3. QED
    BY <1>2, <1>3, <2>1, <2>2
<1>13. PICK d \in DeliveryIds : Travels(d)
  BY <1>4, <1>5, <1>6, <1>7, <1>8, <1>9, <1>10, <1>11, <1>12
     DEF Journey!JourneyNext, Journey!Settled, Verdicts
<1>14. QED
  BY <1>13 DEF Travels

\* Following the journey is no empty promise: whatever follows it never lets a
\* parcel arrive unpaid, be withdrawn without the money coming back, or be in
\* dispute, or before the arbiter, with money that can still be released as
\* if nothing had happened; and every verdict is where the money went.
THEOREM JourneyKeepsTogether == FollowsJourney => []Together
<1>1. Journey!JourneyInit => Together
  BY DEF Journey!JourneyInit, Together, TogetherAt, Parcels, Moneys, Verdicts
<1>2. Together /\ [Journey!JourneyNext]_(Journey!journeyVars) => Together'
  <2>1. ASSUME Together, Journey!JourneyNext PROVE Together'
    <3>1. PICK d \in DeliveryIds :
              /\ \E p : Parcels' = [Parcels EXCEPT ![d] = p]
              /\ \E m : Moneys' = [Moneys EXCEPT ![d] = m]
              /\ \E v : Verdicts' = [Verdicts EXCEPT ![d] = v]
              /\ TogetherAt(Parcels[d], Moneys[d], Verdicts[d])
                    => TogetherAt(Parcels'[d], Moneys'[d], Verdicts'[d])
      BY <2>1, OneDeliveryTravels
    <3>2. ASSUME NEW e \in DeliveryIds \ {d}
          PROVE  /\ Parcels'[e] = Parcels[e]
                 /\ Moneys'[e] = Moneys[e]
                 /\ Verdicts'[e] = Verdicts[e]
      BY <3>1 DEF Parcels, Moneys, Verdicts
    <3>3. QED
      BY <2>1, <3>1, <3>2 DEF Together
  <2>2. ASSUME Together, UNCHANGED Journey!journeyVars PROVE Together'
    BY <2>2 DEF Journey!journeyVars, Together, Parcels, Moneys, Verdicts
  <2>3. QED
    BY <2>1, <2>2
<1>3. QED
  BY <1>1, <1>2, PTL DEF FollowsJourney, Journey!JourneySpec

-----------------------------------------------------------------------------
(* The promise of the escrow contract, kept through the other two.         *)

\* Not even a call that comes from another contract makes a settlement pay
\* anything but the locked amount, to anyone but those the deal names.
THEOREM SystemKeepsPromise ==
    ASSUME FeeWithinWhole PROVE Spec => KeepsPromise
BY SystemCallsEscrow, PromiseIsKept, PTL

THEOREM DeployedKeepsPromise ==
    ASSUME FeeWithinWhole PROVE DeployedSpec => KeepsPromise
<1>1. DeployedInit => Promise!PromiseInit /\ FeeCapped /\ EscrowTypeOK
  <2> SUFFICES ASSUME NEW admin \in Users, DeliveryDeployed(admin)
               PROVE  Promise!PromiseInit /\ FeeCapped /\ EscrowTypeOK
    BY DEF DeployedInit
  <2>1. escrows = [d \in DeliveryIds |-> None] /\ balance = InitialBalances
    BY DEF DeliveryDeployed
  <2>2. Promise!PromiseInit
    BY <2>1 DEF Promise!PromiseInit, DealOf, PhaseOf, Open
  <2>3. FeeCapped
    BY FeeCapAssumption
       DEF DeliveryDeployed, FeeCapped, FeeBounded, FeeWithinWhole
  <2>4. QED
    BY <2>2, <2>3, DeliveryInitIsTyped
<1>2. EscrowTypeOK /\ FeeCapped /\ [EscrowNext]_escrowVars
          => [Promise!PromiseNext]_(Promise!promiseVars)
  BY StepKeepsPromise DEF PromiseStep
<1>3. FeeCapped /\ [EscrowNext]_escrowVars => FeeCapped'
  BY FeeStaysCapped
<1>4. QED
  BY <1>1, <1>2, <1>3, TypeIsKept, DeployedCallsEscrow, PTL
     DEF DeployedSpec, KeepsPromise, Promise!PromiseSpec
=============================================================================
