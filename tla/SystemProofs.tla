---------------------------- MODULE SystemProofs ----------------------------
(***************************************************************************)
(* The composed system implements the escrow contract's specification:     *)
(* whatever the delivery and the dispute contract do to the escrow         *)
(* contract, they do by calling it.  So the theorems of EscrowProofs hold  *)
(* of the whole system.                                                    *)
(***************************************************************************)
EXTENDS Dispute, DeliveryProofs

-----------------------------------------------------------------------------
\* freeze_funds, called on what raise_dispute left, changes nothing,
LEMMA FreezingIsIdle ==
    ASSUME NEW records, NEW d, NEW caller
    PROVE  Frozen(Marked(records, caller, d), d) = Marked(records, caller, d)
BY DEF Frozen, Marked

\* so that the two calls amount to the first one, and raise_dispute of the
\* dispute contract to raise_dispute of the delivery contract, or to
\* freeze_funds for a delivery that is over.
LEMMA RaisingCallsOne ==
    ASSUME NEW d, NEW caller, dispute_raise_dispute(caller, d)
    PROVE  \/ delivery_raise_dispute(caller, d)
           \/ /\ deliveries[d].status = "Delivered" /\ WithinWindow(d)
              /\ freeze_funds(d) /\ UNCHANGED <<deliveryOnlyVars, now>>
<1>1. CASE Disputing(caller, d) /\ RaiseThenFreeze(caller, d)
  <2>1. escrow_raise_dispute(caller, d)
    BY <1>1, FreezingIsIdle DEF RaiseThenFreeze, escrow_raise_dispute
  <2>2. QED
    BY <1>1, <2>1 DEF delivery_raise_dispute
<1>2. QED
  BY <1>1 DEF dispute_raise_dispute

LEMMA StepIsEscrowStep == [Next]_vars => [EscrowNext]_escrowVars
<1> SUFFICES ASSUME [Next]_vars
             PROVE  [EscrowNext]_escrowVars
  OBVIOUS
<1>1. CASE DirectDeliveryCalls
  BY <1>1, DeliveryStepIsEscrowStep DEF DirectDeliveryCalls
<1>2. ASSUME NEW admin, NEW limit, dispute_init(admin, limit)
      PROVE  UNCHANGED escrowVars
  BY <1>2 DEF dispute_init, deliveryVars
<1>3. ASSUME NEW caller, NEW new, add_admin(caller, new)
      PROVE  UNCHANGED escrowVars
  BY <1>3 DEF add_admin, deliveryVars
<1>4. ASSUME NEW caller, NEW old, remove_admin(caller, old)
      PROVE  UNCHANGED escrowVars
  BY <1>4 DEF remove_admin, deliveryVars
<1>5. ASSUME NEW d \in DeliveryIds, NEW caller \in Users,
             dispute_raise_dispute(caller, d)
      PROVE  EscrowNext
  <2>1. freeze_funds(d) \/ escrow_raise_dispute(caller, d)
    BY <1>5, RaisingCallsOne DEF delivery_raise_dispute
  <2>2. QED
    BY <2>1, EscrowCallIsStep
<1>6. ASSUME NEW d, NEW caller, add_evidence_hash(caller, d)
      PROVE  UNCHANGED escrowVars
  BY <1>6 DEF add_evidence_hash, deliveryVars
<1>7. ASSUME NEW d \in DeliveryIds, NEW caller \in Users,
             \/ resolve_dispute_refund_sender(caller, d)
             \/ resolve_dispute_pay_driver(caller, d)
      PROVE  EscrowNext
  <2>1. \E toDriver \in BOOLEAN : resolve_dispute(caller, d, toDriver)
    BY <1>7 DEF resolve_dispute_refund_sender, resolve_dispute_pay_driver
  <2>2. QED
    BY <2>1, EscrowCallIsStep
<1>8. ASSUME NEW d \in DeliveryIds, NEW caller \in Users, NEW share \in Shares,
             resolve_dispute_split_funds(caller, d, share)
      PROVE  [EscrowNext]_escrowVars
  <2>1. resolve_dispute_split(caller, d, share) \/ UNCHANGED escrowVars
    BY <1>8 DEF resolve_dispute_split_funds
  <2>2. QED
    BY <2>1, EscrowCallIsStep
<1>9. CASE DisputeCalls
  BY <1>2, <1>3, <1>4, <1>5, <1>6, <1>7, <1>8, <1>9 DEF DisputeCalls
<1>10. CASE UNCHANGED vars
  BY <1>10 DEF vars, deliveryVars
<1>11. QED
  BY <1>1, <1>9, <1>10 DEF Next

\* No handler of the delivery or of the dispute contract reaches around the
\* escrow contract: seen from the escrow contract, every behaviour of the
\* whole system is one of its own.
THEOREM SystemCallsEscrow == Spec => EscrowSpec
<1>1. Init => EscrowInit
  BY DEF Init, DeliveryInit
<1>2. QED
  BY <1>1, StepIsEscrowStep, PTL DEF Spec, EscrowSpec

\* So the whole system, too, can at every moment pay all escrows that are not
\* settled, when the deployer passed a fee of at most 100%: no sequence of
\* deliveries, cancellations, disputes and verdicts spends another's money.
THEOREM SystemSolvent == ASSUME FeeWithinWhole PROVE Spec => []Solvency
BY SystemCallsEscrow, Solvent, PTL

\* And no sequence of them settles an escrow twice or changes its terms.
THEOREM SystemSettlesOnce == Spec => SettledOnce
BY SystemCallsEscrow, RecordsSettleOnce, PTL

\* Nor does a call that one contract makes to another find the money for a
\* settlement missing: cancel_delivery, confirm_delivery and the verdicts of
\* the dispute contract are never undone for want of funds.
THEOREM SystemSettlementsCovered ==
    ASSUME FeeWithinWhole PROVE Spec => []SettlementsAreCovered
BY SystemCallsEscrow, SettlementsCovered, PTL

\* A call from another contract, too, moves exactly the money it settles.
THEOREM SystemCustody ==
    ASSUME FeeWithinWhole PROVE Spec => CustodyMatchesClaims
BY SystemCallsEscrow, Custody, PTL

\* Whoever raises a dispute in whichever contract: a mark names a party of
\* the escrow, and none is on an escrow that is Locked.
THEOREM SystemMarksAreRight == Spec => []DisputeMarks
BY SystemCallsEscrow, MarksAreRight, PTL
=============================================================================
