--------------------------- MODULE DeliveryProofs ---------------------------
(***************************************************************************)
(* Theorems about the delivery contract and the escrow contract under it,  *)
(* whichever of the two is called and by whom, for any number of           *)
(* deliveries.                                                             *)
(***************************************************************************)
EXTENDS Delivery, EscrowProofs, FiniteSetTheorems

-----------------------------------------------------------------------------
(* A handler that makes a nested call is a step of the callee.             *)

LEMMA EscrowCallIsStep ==
    ASSUME NEW d \in DeliveryIds, NEW caller \in Users,
           \/ release_escrow(caller, d)
           \/ refund_escrow(caller, d)
           \/ escrow_raise_dispute(caller, d)
           \/ \E toDriver \in BOOLEAN : resolve_dispute(caller, d, toDriver)
           \/ \E share \in Shares : resolve_dispute_split(caller, d, share)
           \/ freeze_funds(d)
    PROVE  EscrowNext
BY DEF EscrowNext, EscrowLifecycleCalls

LEMMA DeliveryStepIsEscrowStep ==
    [DeliveryNext]_deliveryVars => [EscrowNext]_escrowVars
<1> SUFFICES ASSUME [DeliveryNext]_deliveryVars
             PROVE  [EscrowNext]_escrowVars
  OBVIOUS
<1>1. CASE DirectEscrowCalls
  BY <1>1 DEF DirectEscrowCalls
<1>2. ASSUME NEW admin, delivery_init(admin)
      PROVE  UNCHANGED escrowVars
  BY <1>2 DEF delivery_init
<1>3. ASSUME NEW sender, NEW recipient, create_delivery(sender, recipient)
      PROVE  UNCHANGED escrowVars
  BY <1>3 DEF create_delivery
<1>4. ASSUME NEW d \in DeliveryIds, NEW caller \in Users,
             cancel_delivery(caller, d)
      PROVE  EscrowNext
  <2>1. refund_escrow(caller, d)
    BY <1>4 DEF cancel_delivery
  <2>2. QED
    BY <2>1, EscrowCallIsStep
<1>5. ASSUME NEW d, NEW caller, NEW driver, assign_driver(caller, d, driver)
      PROVE  UNCHANGED escrowVars
  BY <1>5 DEF assign_driver
<1>6. ASSUME NEW d, NEW caller, mark_in_transit(caller, d)
      PROVE  UNCHANGED escrowVars
  BY <1>6 DEF mark_in_transit
<1>7. ASSUME NEW d \in DeliveryIds, NEW caller \in Users,
             confirm_delivery(caller, d)
      PROVE  EscrowNext
  <2>1. release_escrow(caller, d)
    BY <1>7 DEF confirm_delivery
  <2>2. QED
    BY <2>1, EscrowCallIsStep
<1>8. ASSUME NEW d \in DeliveryIds, NEW caller \in Users,
             delivery_raise_dispute(caller, d)
      PROVE  EscrowNext
  <2>1. escrow_raise_dispute(caller, d)
    BY <1>8 DEF delivery_raise_dispute
  <2>2. QED
    BY <2>1, EscrowCallIsStep
<1>9. CASE DeliveryCalls
  BY <1>2, <1>3, <1>4, <1>5, <1>6, <1>7, <1>8, <1>9 DEF DeliveryCalls
<1>10. CASE Tick
  BY <1>10 DEF Tick
<1>11. CASE UNCHANGED deliveryVars
  BY <1>11 DEF deliveryVars
<1>12. QED
  BY <1>1, <1>9, <1>10, <1>11 DEF DeliveryNext

-----------------------------------------------------------------------------
(* Types.                                                                  *)

LEMMA DeliveryIsTyped ==
    ASSUME DeliveryTypeOK, NEW d \in DeliveryIds, Known(d)
    PROVE  /\ deliveries[d] \in DeliveryRecord
           /\ deliveries[d].sender \in Users /\ deliveries[d].recipient \in Users
           /\ deliveries[d].driver \in Users \union {None}
           /\ deliveries[d].status \in DeliveryStatus
<1>1. deliveries[d] \in DeliveryRecord
  BY DEF DeliveryTypeOK, Known
<1>2. QED
  BY <1>1 DEF DeliveryRecord

LEMMA DeliveryIdsAreNumbers ==
    ASSUME NEW d \in DeliveryIds PROVE d \in Nat /\ d <= MaxDeliveryId /\ d > 0
BY SharedAssumption DEF DeliveryIds

\* A record that gets another status, driver or time of delivery.
Moved(d, status, driver, time) ==
    [sender |-> deliveries[d].sender, recipient |-> deliveries[d].recipient,
     driver |-> driver, status |-> status, delivered_at |-> time]

MovesTo(d, status, driver, time) ==
    deliveries' = [deliveries EXCEPT ![d] = Moved(d, status, driver, time)]

LEMMA MovedIsTyped ==
    ASSUME DeliveryTypeOK, NEW d \in DeliveryIds, Known(d),
           NEW status \in DeliveryStatus, NEW driver \in Users \union {None},
           NEW time \in Nat \union {None}
    PROVE  Moved(d, status, driver, time) \in DeliveryRecord
BY DeliveryIsTyped DEF Moved, DeliveryRecord

LEMMA StatusMoves ==
    ASSUME DeliveryTypeOK, NEW d \in DeliveryIds, Known(d),
           NEW status \in DeliveryStatus,
           deliveries' = [deliveries EXCEPT ![d].status = status]
    PROVE  MovesTo(d, status, deliveries[d].driver, deliveries[d].delivered_at)
<1>1. deliveries[d] \in DeliveryRecord
  BY DeliveryIsTyped
<1>2. [deliveries[d] EXCEPT !.status = status] =
          Moved(d, status, deliveries[d].driver, deliveries[d].delivered_at)
  BY <1>1 DEF DeliveryRecord, Moved
<1>3. deliveries' = [deliveries EXCEPT ![d] =
                        [deliveries[d] EXCEPT !.status = status]]
  BY DEF DeliveryTypeOK
<1>4. QED
  BY <1>2, <1>3 DEF MovesTo

LEMMA AssignmentMoves ==
    ASSUME DeliveryTypeOK, NEW d \in DeliveryIds, NEW caller,
           NEW driver \in Users, assign_driver(caller, d, driver)
    PROVE  MovesTo(d, "Active", driver, deliveries[d].delivered_at)
<1>1. deliveries[d] \in DeliveryRecord
  BY DeliveryIsTyped DEF assign_driver, MayBecome
<1>2. [deliveries[d] EXCEPT !.driver = driver, !.status = "Active"] =
          Moved(d, "Active", driver, deliveries[d].delivered_at)
  <2> DEFINE assigned == [deliveries[d] EXCEPT !.driver = driver]
  <2>1. /\ assigned \in DeliveryRecord
        /\ assigned = Moved(d, deliveries[d].status, driver,
                            deliveries[d].delivered_at)
    BY <1>1 DEF DeliveryRecord, Moved
  <2> HIDE DEF assigned
  <2>2. [assigned EXCEPT !.status = "Active"] =
            Moved(d, "Active", driver, deliveries[d].delivered_at)
    BY <2>1 DEF DeliveryRecord, Moved
  <2>3. QED
    BY <2>2 DEF assigned
<1>3. deliveries' = [deliveries EXCEPT ![d] =
              [deliveries[d] EXCEPT !.driver = driver, !.status = "Active"]]
  BY DEF assign_driver, DeliveryTypeOK
<1>4. QED
  BY <1>2, <1>3 DEF MovesTo

LEMMA ConfirmationMoves ==
    ASSUME DeliveryTypeOK, NEW d \in DeliveryIds, NEW recipient,
           confirm_delivery(recipient, d)
    PROVE  MovesTo(d, "Delivered", deliveries[d].driver, now)
<1>1. deliveries[d] \in DeliveryRecord
  BY DeliveryIsTyped DEF confirm_delivery, MayBecome
<1>2. [deliveries[d] EXCEPT !.status = "Delivered", !.delivered_at = now] =
          Moved(d, "Delivered", deliveries[d].driver, now)
  <2> DEFINE arrived == [deliveries[d] EXCEPT !.status = "Delivered"]
  <2>1. /\ arrived \in DeliveryRecord
        /\ arrived = Moved(d, "Delivered", deliveries[d].driver,
                           deliveries[d].delivered_at)
    BY <1>1 DEF DeliveryRecord, DeliveryStatus, Moved
  <2> HIDE DEF arrived
  <2>2. [arrived EXCEPT !.delivered_at = now] =
            Moved(d, "Delivered", deliveries[d].driver, now)
    BY <2>1 DEF DeliveryRecord, Moved
  <2>3. QED
    BY <2>2 DEF arrived
<1>3. deliveries' = [deliveries EXCEPT ![d] =
              [deliveries[d] EXCEPT !.status = "Delivered",
                                    !.delivered_at = now]]
  BY DEF confirm_delivery, DeliveryTypeOK
<1>4. QED
  BY <1>2, <1>3 DEF MovesTo

-----------------------------------------------------------------------------
(* What a step does to the deliveries and to the escrow behind each: the   *)
(* rest of this module reasons about these kinds of steps.                 *)

Creation(id, sender, recipient) ==
    /\ id = deliveryCounter + 1
    /\ deliveryCounter' = id
    /\ deliveries' = [deliveries EXCEPT ![id] =
           [sender |-> sender, recipient |-> recipient, driver |-> None,
            status |-> "Pending", delivered_at |-> None]]
    /\ UNCHANGED <<deliveryAdmin, completed, escrows, now>>

Assignment(d, driver) ==
    /\ MayBecome(d, "Active")
    /\ MovesTo(d, "Active", driver, deliveries[d].delivered_at)
    /\ UNCHANGED <<deliveryAdmin, deliveryCounter, completed, escrows, now>>

\* The other changes of status that credit nobody, each with its escrow.
Advance(d, status) ==
    /\ MayBecome(d, status)
    /\ MovesTo(d, status, deliveries[d].driver, deliveries[d].delivered_at)
    /\ \/ status = "InTransit" /\ UNCHANGED escrows
       \/ /\ status = "Cancelled" /\ Exists(d) /\ SetStatus(d, "Refunded")
          /\ Open(escrows[d]) /\ PaySender(escrows[d])
       \/ /\ status = "Disputed" /\ Exists(d) /\ escrows[d].status = "Locked"
          /\ escrows'[d] # None /\ escrows'[d].status = "Paused"
    /\ UNCHANGED <<deliveryAdmin, deliveryCounter, completed, now>>

Confirmation(d) ==
    /\ MayBecome(d, "Delivered")
    /\ MovesTo(d, "Delivered", deliveries[d].driver, now)
    /\ Exists(d) /\ escrows[d].status = "Locked" /\ SetStatus(d, "Released")
    /\ EscrowInitialised
    /\ CanPayDriverAndFee(escrows[d]) /\ PayDriverAndFee(escrows[d])
    /\ completed' = IF deliveries[d].driver = None THEN completed
                    ELSE [completed EXCEPT ![deliveries[d].driver] = @ + 1]
    /\ UNCHANGED <<deliveryAdmin, deliveryCounter, now>>

Initialisation ==
    /\ deliveryAdmin = None
    /\ deliveryAdmin' \in Users
    /\ deliveryCounter' = 0
    /\ UNCHANGED <<deliveries, completed, escrows, now>>

NoDeliveryMoves ==
    /\ UNCHANGED deliveryOnlyVars
    /\ now' \in {now, now + 1}

LEMMA KindsOfSteps ==
    ASSUME DeliveryTypeOK, EscrowTypeOK, [DeliveryNext]_deliveryVars
    PROVE  \/ NoDeliveryMoves
           \/ Initialisation
           \/ \E id \in DeliveryIds : \E sender, recipient \in Users :
                  Creation(id, sender, recipient)
           \/ \E d \in DeliveryIds : \E driver \in Users : Assignment(d, driver)
           \/ \E d \in DeliveryIds :
                  \E status \in {"InTransit", "Cancelled", "Disputed"} :
                      Advance(d, status)
           \/ \E d \in DeliveryIds : Confirmation(d)
<1>1. ASSUME NEW admin \in Users, delivery_init(admin)
      PROVE  Initialisation
  BY <1>1 DEF delivery_init, Initialisation, escrowVars
<1>2. ASSUME NEW sender \in Users, NEW recipient \in Users,
             create_delivery(sender, recipient)
      PROVE  deliveryCounter + 1 \in DeliveryIds
             /\ Creation(deliveryCounter + 1, sender, recipient)
  BY <1>2, SharedAssumption
     DEF create_delivery, Creation, DeliveryIds, DeliveryTypeOK, escrowVars
<1>3. ASSUME NEW d \in DeliveryIds, NEW caller \in Users, NEW driver \in Users,
             assign_driver(caller, d, driver)
      PROVE  Assignment(d, driver)
  BY <1>3, AssignmentMoves DEF assign_driver, Assignment, escrowVars
<1>4. ASSUME NEW d \in DeliveryIds, NEW caller \in Users,
             mark_in_transit(caller, d)
      PROVE  Advance(d, "InTransit")
  <2>1. MovesTo(d, "InTransit", deliveries[d].driver, deliveries[d].delivered_at)
    BY <1>4, StatusMoves DEF mark_in_transit, MayBecome, DeliveryStatus
  <2>2. QED
    BY <1>4, <2>1 DEF mark_in_transit, Advance, escrowVars
<1>5. ASSUME NEW d \in DeliveryIds, NEW caller \in Users,
             cancel_delivery(caller, d)
      PROVE  Advance(d, "Cancelled")
  <2>1. MovesTo(d, "Cancelled", deliveries[d].driver, deliveries[d].delivered_at)
    BY <1>5, StatusMoves DEF cancel_delivery, MayBecome, DeliveryStatus
  <2>2. QED
    BY <1>5, <2>1 DEF cancel_delivery, refund_escrow, Advance, Open, Exists
<1>6. ASSUME NEW d \in DeliveryIds, NEW caller \in Users,
             delivery_raise_dispute(caller, d)
      PROVE  Advance(d, "Disputed")
  <2>1. MovesTo(d, "Disputed", deliveries[d].driver, deliveries[d].delivered_at)
    BY <1>6, StatusMoves
       DEF delivery_raise_dispute, Disputing, MayBecome, DeliveryStatus
  <2>2. /\ Exists(d) /\ escrows[d].status = "Locked"
        /\ escrows'[d] # None /\ escrows'[d].status = "Paused"
    <3>1. /\ Exists(d) /\ escrows[d].status = "Locked"
          /\ caller \in Users
          /\ escrows' = [escrows EXCEPT ![d].status = "Paused",
                                        ![d].disputed_by = caller]
      BY <1>6 DEF delivery_raise_dispute, escrow_raise_dispute, MayDispute,
         Marked
    <3>2. escrows[d] \in EscrowRecord
      BY <3>1, RecordIsTyped
    <3> DEFINE new == [escrows[d] EXCEPT !.status = "Paused",
                                         !.disputed_by = caller]
    <3>3. new \in EscrowRecord /\ new.status = "Paused"
      BY <3>1, <3>2 DEF EscrowRecord, EscrowStatus
    <3>4. escrows'[d] = new
      BY <3>1 DEF EscrowTypeOK
    <3> HIDE DEF new
    <3>5. QED
      BY <3>1, <3>3, <3>4, NoneIsNoEscrow
  <2>3. QED
    BY <1>6, <2>1, <2>2 DEF delivery_raise_dispute, Disputing, Advance
<1>7. ASSUME NEW d \in DeliveryIds, NEW caller \in Users,
             confirm_delivery(caller, d)
      PROVE  Confirmation(d)
  BY <1>7, ConfirmationMoves DEF confirm_delivery, release_escrow, Confirmation
<1>8. CASE DeliveryCalls
  BY <1>1, <1>2, <1>3, <1>4, <1>5, <1>6, <1>7, <1>8 DEF DeliveryCalls
<1>9. CASE DirectEscrowCalls \/ Tick \/ UNCHANGED deliveryVars
  BY <1>9 DEF DirectEscrowCalls, Tick, deliveryVars, NoDeliveryMoves
<1>10. QED
  BY <1>8, <1>9 DEF DeliveryNext

-----------------------------------------------------------------------------
(* Every change of a record is typed, so the types are kept.               *)

RecordBecomes(d, status, driver) ==
    /\ deliveries'[d] # None
    /\ deliveries'[d].status = status
    /\ deliveries'[d].driver = driver
    /\ deliveries'[d].sender = deliveries[d].sender
    /\ deliveries'[d].recipient = deliveries[d].recipient

LEMMA MovedFields ==
    ASSUME NEW d, NEW status, NEW driver, NEW time
    PROVE  /\ Moved(d, status, driver, time).status = status
           /\ Moved(d, status, driver, time).driver = driver
           /\ Moved(d, status, driver, time).delivered_at = time
           /\ Moved(d, status, driver, time).sender = deliveries[d].sender
           /\ Moved(d, status, driver, time).recipient = deliveries[d].recipient
BY DEF Moved

LEMMA MoveIsVisible ==
    ASSUME DeliveryTypeOK, NEW d \in DeliveryIds, Known(d),
           NEW status \in DeliveryStatus, NEW driver \in Users \union {None},
           NEW time \in Nat \union {None}, MovesTo(d, status, driver, time)
    PROVE  /\ deliveries' \in [DeliveryIds -> DeliveryRecord \union {None}]
           /\ \A e \in DeliveryIds :
                 deliveries'[e] = IF e = d THEN Moved(d, status, driver, time)
                                           ELSE deliveries[e]
           /\ \A e \in DeliveryIds : Known(e)' <=> Known(e)
           /\ RecordBecomes(d, status, driver)
<1>1. /\ Moved(d, status, driver, time) \in DeliveryRecord
      /\ Moved(d, status, driver, time) # None
  BY MovedIsTyped, NoneIsNoDelivery
<1>2. \A e \in DeliveryIds :
          deliveries'[e] = IF e = d THEN Moved(d, status, driver, time)
                                    ELSE deliveries[e]
  BY DEF MovesTo, DeliveryTypeOK
<1>3. RecordBecomes(d, status, driver)
  <2>1. deliveries'[d] = Moved(d, status, driver, time)
    BY <1>2
  <2>2. QED
    BY <1>1, <2>1, MovedFields DEF RecordBecomes
<1>4. QED
  BY <1>1, <1>2, <1>3 DEF MovesTo, DeliveryTypeOK, Known

LEMMA AdvanceIsVisible ==
    ASSUME DeliveryTypeOK, NEW d \in DeliveryIds,
           NEW status \in {"InTransit", "Cancelled", "Disputed"},
           Advance(d, status)
    PROVE  LET new == Moved(d, status, deliveries[d].driver,
                            deliveries[d].delivered_at) IN
           /\ Known(d)
           /\ deliveries' \in [DeliveryIds -> DeliveryRecord \union {None}]
           /\ \A e \in DeliveryIds :
                 deliveries'[e] = IF e = d THEN new ELSE deliveries[e]
           /\ \A e \in DeliveryIds : Known(e)' <=> Known(e)
           /\ RecordBecomes(d, status, deliveries[d].driver)
<1>1. Known(d)
  BY DEF Advance, MayBecome
<1>2. /\ deliveries[d].driver \in Users \union {None}
      /\ deliveries[d].delivered_at \in Nat \union {None}
      /\ status \in DeliveryStatus
  BY <1>1, DeliveryIsTyped DEF DeliveryRecord, DeliveryStatus
<1>3. MovesTo(d, status, deliveries[d].driver, deliveries[d].delivered_at)
  BY DEF Advance
<1>4. QED
  BY <1>1, <1>2, <1>3, MoveIsVisible

LEMMA AssignmentIsVisible ==
    ASSUME DeliveryTypeOK, NEW d \in DeliveryIds, NEW driver \in Users,
           Assignment(d, driver)
    PROVE  LET new == Moved(d, "Active", driver, deliveries[d].delivered_at) IN
           /\ Known(d)
           /\ deliveries' \in [DeliveryIds -> DeliveryRecord \union {None}]
           /\ \A e \in DeliveryIds :
                 deliveries'[e] = IF e = d THEN new ELSE deliveries[e]
           /\ \A e \in DeliveryIds : Known(e)' <=> Known(e)
           /\ RecordBecomes(d, "Active", driver)
<1>1. Known(d)
  BY DEF Assignment, MayBecome
<1>2. /\ deliveries[d].delivered_at \in Nat \union {None}
      /\ "Active" \in DeliveryStatus
  BY <1>1, DeliveryIsTyped DEF DeliveryRecord, DeliveryStatus
<1>3. MovesTo(d, "Active", driver, deliveries[d].delivered_at)
  BY DEF Assignment
<1>4. QED
  BY <1>1, <1>2, <1>3, MoveIsVisible

LEMMA ConfirmationIsVisible ==
    ASSUME DeliveryTypeOK, NEW d \in DeliveryIds, Confirmation(d)
    PROVE  LET new == Moved(d, "Delivered", deliveries[d].driver, now) IN
           /\ Known(d)
           /\ deliveries' \in [DeliveryIds -> DeliveryRecord \union {None}]
           /\ \A e \in DeliveryIds :
                 deliveries'[e] = IF e = d THEN new ELSE deliveries[e]
           /\ \A e \in DeliveryIds : Known(e)' <=> Known(e)
           /\ RecordBecomes(d, "Delivered", deliveries[d].driver)
<1>1. Known(d)
  BY DEF Confirmation, MayBecome
<1>2. /\ deliveries[d].driver \in Users \union {None}
      /\ now \in Nat
      /\ "Delivered" \in DeliveryStatus
  BY <1>1, DeliveryIsTyped DEF DeliveryTypeOK, DeliveryStatus
<1>3. MovesTo(d, "Delivered", deliveries[d].driver, now)
  BY DEF Confirmation
<1>4. QED
  BY <1>1, <1>2, <1>3, MoveIsVisible

LEMMA CreationIsVisible ==
    ASSUME DeliveryTypeOK, NEW id \in DeliveryIds, NEW sender \in Users,
           NEW recipient \in Users, Creation(id, sender, recipient)
    PROVE  /\ deliveries' \in [DeliveryIds -> DeliveryRecord \union {None}]
           /\ deliveries'[id] # None /\ deliveries'[id].status = "Pending"
           /\ \A e \in DeliveryIds \ {id} : deliveries'[e] = deliveries[e]
           /\ \A e \in DeliveryIds : Known(e)' <=> e = id \/ Known(e)
<1> DEFINE new == [sender |-> sender, recipient |-> recipient, driver |-> None,
                   status |-> "Pending", delivered_at |-> None]
<1>1. new \in DeliveryRecord /\ new # None /\ new.status = "Pending"
  BY NoneIsNoDelivery DEF DeliveryRecord, DeliveryStatus
<1>2. deliveries' = [deliveries EXCEPT ![id] = new]
  BY DEF Creation
<1> HIDE DEF new
<1>3. QED
  BY <1>1, <1>2 DEF DeliveryTypeOK, Known

LEMMA DeliveryTypeIsKept ==
    ASSUME DeliveryTypeOK, EscrowTypeOK, [DeliveryNext]_deliveryVars
    PROVE  DeliveryTypeOK'
<1>1. CASE NoDeliveryMoves
  BY <1>1 DEF NoDeliveryMoves, deliveryOnlyVars, DeliveryTypeOK
<1>2. CASE Initialisation
  BY <1>2, SharedAssumption DEF Initialisation, DeliveryTypeOK
<1>3. ASSUME NEW id \in DeliveryIds, NEW sender \in Users,
             NEW recipient \in Users, Creation(id, sender, recipient)
      PROVE  DeliveryTypeOK'
  <2>1. deliveries' \in [DeliveryIds -> DeliveryRecord \union {None}]
    BY <1>3, CreationIsVisible
  <2>2. deliveryCounter' \in 0 .. MaxDeliveryId
    BY <1>3, DeliveryIdsAreNumbers, SharedAssumption DEF Creation
  <2>3. QED
    BY <1>3, <2>1, <2>2 DEF Creation, DeliveryTypeOK
<1>4. ASSUME NEW d \in DeliveryIds, NEW driver \in Users, Assignment(d, driver)
      PROVE  DeliveryTypeOK'
  BY <1>4, AssignmentIsVisible DEF Assignment, DeliveryTypeOK
<1>5. ASSUME NEW d \in DeliveryIds,
             NEW status \in {"InTransit", "Cancelled", "Disputed"},
             Advance(d, status)
      PROVE  DeliveryTypeOK'
  BY <1>5, AdvanceIsVisible DEF Advance, DeliveryTypeOK
<1>6. ASSUME NEW d \in DeliveryIds, Confirmation(d)
      PROVE  DeliveryTypeOK'
  <2>1. deliveries[d].driver \in Users \union {None}
    BY <1>6, DeliveryIsTyped DEF Confirmation, MayBecome
  <2>2. completed' \in [Users -> Nat]
    BY <1>6, <2>1 DEF Confirmation, DeliveryTypeOK
  <2>3. QED
    BY <1>6, <2>2, ConfirmationIsVisible DEF Confirmation, DeliveryTypeOK
<1>7. QED
  BY <1>1, <1>2, <1>3, <1>4, <1>5, <1>6, KindsOfSteps

LEMMA DeliveryInitIsTyped ==
    /\ DeliveryInit => DeliveryTypeOK /\ EscrowTypeOK
    /\ \A admin \in Users :
          DeliveryDeployed(admin) => DeliveryTypeOK /\ EscrowTypeOK
<1>1. DeliveryEmpty => /\ deliveryCounter \in 0 .. MaxDeliveryId
                       /\ deliveries \in
                             [DeliveryIds -> DeliveryRecord \union {None}]
                       /\ completed \in [Users -> Nat]
                       /\ now \in Nat
  BY SharedAssumption DEF DeliveryEmpty
<1>2. DeliveryInit => DeliveryTypeOK /\ EscrowTypeOK
  BY <1>1, InitIsTyped DEF DeliveryInit, DeliveryTypeOK
<1>3. ASSUME NEW admin \in Users, DeliveryDeployed(admin)
      PROVE  DeliveryTypeOK /\ EscrowTypeOK
  BY <1>1, <1>3, EscrowAssumption DEF DeliveryDeployed, DeliveryTypeOK,
     EscrowTypeOK, InitialBalances
<1>4. QED
  BY <1>2, <1>3

\* The delivery contract, too, does to the escrow contract only what any
\* caller can do.
LEMMA TypesAreKept ==
    ASSUME DeliveryTypeOK, EscrowTypeOK, [DeliveryNext]_deliveryVars
    PROVE  DeliveryTypeOK' /\ EscrowTypeOK'
BY DeliveryTypeIsKept, DeliveryStepIsEscrowStep, TypeIsKept

\* Whoever calls which of the two contracts, initialised or not.
THEOREM DeliveryTypeCorrect == DeliverySpec => [](DeliveryTypeOK /\ EscrowTypeOK)
BY DeliveryInitIsTyped, TypesAreKept, PTL DEF DeliverySpec

LEMMA DeployedTypeCorrect ==
    DeployedDeliverySpec => [](DeliveryTypeOK /\ EscrowTypeOK)
<1>1. (\E admin \in Users : DeliveryDeployed(admin))
          => DeliveryTypeOK /\ EscrowTypeOK
  BY DeliveryInitIsTyped
<1>2. QED
  BY <1>1, TypesAreKept, PTL DEF DeployedDeliverySpec

-----------------------------------------------------------------------------
(* The two contracts agree.                                                *)

\* A step of the escrow contract moves an escrow on, never back.
LEMMA AgreementWithOtherEscrow ==
    ASSUME EscrowTypeOK, [EscrowNext]_escrowVars, NEW d \in DeliveryIds,
           NEW status, AgreesWithEscrow(status, escrows[d])
    PROVE  AgreesWithEscrow(status, escrows'[d])
<1>1. CASE Exists(d)
  <2>1. /\ escrows'[d] # None
        /\ escrows'[d].status = "Locked" => escrows[d].status = "Locked"
        /\ ~ Open(escrows[d]) => escrows'[d] = escrows[d]
    BY <1>1, RecordsAreKept DEF RecordStep
  <2>2. QED
    BY <1>1, <2>1 DEF AgreesWithEscrow, Open, Exists
<1>2. CASE ~ Exists(d)
  BY <1>2 DEF AgreesWithEscrow, Exists
<1>3. QED
  BY <1>1, <1>2

LEMMA AgreementIsKept ==
    ASSUME DeliveryTypeOK, EscrowTypeOK, StatusAgreement,
           [DeliveryNext]_deliveryVars
    PROVE  StatusAgreement'
<1> USE DeliveryStepIsEscrowStep
<1>1. ASSUME NEW e \in DeliveryIds, Known(e), deliveries'[e] = deliveries[e]
      PROVE  AgreesWithEscrow(deliveries'[e].status, escrows'[e])
  BY <1>1, AgreementWithOtherEscrow DEF StatusAgreement
<1>2. CASE NoDeliveryMoves \/ Initialisation
  BY <1>1, <1>2 DEF NoDeliveryMoves, Initialisation, deliveryOnlyVars,
     StatusAgreement, Known
<1>3. ASSUME NEW id \in DeliveryIds, NEW sender \in Users,
             NEW recipient \in Users, Creation(id, sender, recipient)
      PROVE  StatusAgreement'
  <2>1. AgreesWithEscrow(deliveries'[id].status, escrows'[id])
    BY <1>3, CreationIsVisible DEF AgreesWithEscrow
  <2>2. QED
    BY <1>1, <1>3, <2>1, CreationIsVisible DEF StatusAgreement, Known
<1>4. ASSUME NEW d \in DeliveryIds, NEW driver \in Users, Assignment(d, driver)
      PROVE  StatusAgreement'
  <2>1. AgreesWithEscrow(deliveries'[d].status, escrows'[d])
    BY <1>4, AssignmentIsVisible DEF AgreesWithEscrow, RecordBecomes
  <2>2. QED
    BY <1>1, <1>4, <2>1, AssignmentIsVisible DEF StatusAgreement, Known
<1>5. ASSUME NEW d \in DeliveryIds,
             NEW status \in {"InTransit", "Cancelled", "Disputed"},
             Advance(d, status)
      PROVE  StatusAgreement'
  <2>1. deliveries'[d].status = status
    BY <1>5, AdvanceIsVisible DEF RecordBecomes
  <2>2. \/ status = "InTransit"
        \/ status = "Cancelled" /\ escrows'[d] # None
                                /\ escrows'[d].status = "Refunded"
        \/ status = "Disputed" /\ escrows'[d] # None
                               /\ escrows'[d].status = "Paused"
    <3>1. ASSUME Exists(d), SetStatus(d, "Refunded")
          PROVE  escrows'[d] # None /\ escrows'[d].status = "Refunded"
      BY <3>1, RecordIsTyped, NoneIsNoEscrow
         DEF SetStatus, EscrowTypeOK, EscrowRecord, EscrowStatus
    <3>2. QED
      BY <1>5, <3>1 DEF Advance
  <2>3. AgreesWithEscrow(deliveries'[d].status, escrows'[d])
    BY <2>1, <2>2 DEF AgreesWithEscrow
  <2>4. QED
    BY <1>1, <1>5, <2>3, AdvanceIsVisible DEF StatusAgreement, Known
<1>6. ASSUME NEW d \in DeliveryIds, Confirmation(d)
      PROVE  StatusAgreement'
  <2>1. deliveries'[d].status = "Delivered"
    BY <1>6, ConfirmationIsVisible DEF RecordBecomes
  <2>2. escrows'[d] # None /\ escrows'[d].status = "Released"
    BY <1>6, RecordIsTyped, NoneIsNoEscrow
       DEF Confirmation, SetStatus, EscrowTypeOK, EscrowRecord, EscrowStatus
  <2>3. AgreesWithEscrow(deliveries'[d].status, escrows'[d])
    BY <2>1, <2>2 DEF AgreesWithEscrow
  <2>4. QED
    BY <1>1, <1>6, <2>3, ConfirmationIsVisible DEF StatusAgreement, Known
<1>7. QED
  BY <1>2, <1>3, <1>4, <1>5, <1>6, KindsOfSteps

\* The statuses that two contracts keep of one delivery agree, initialised or
\* not, with either contract called by anyone.
THEOREM StatusesAgree == DeliverySpec => []StatusAgreement
<1>1. DeliveryInit => StatusAgreement
  BY DEF DeliveryInit, DeliveryEmpty, StatusAgreement, Known
<1>2. QED
  BY <1>1, DeliveryTypeCorrect, AgreementIsKept, PTL DEF DeliverySpec

LEMMA ConfirmationStepHolds ==
    ASSUME DeliveryTypeOK, EscrowTypeOK, StatusAgreement,
           [DeliveryNext]_deliveryVars, NEW d \in DeliveryIds, Known(d),
           deliveries[d].status = "Disputed"
    PROVE  deliveries'[d] # None /\ deliveries'[d].status # "Delivered"
<1>1. CASE deliveries'[d] = deliveries[d]
  BY <1>1 DEF Known
<1>2. CASE NoDeliveryMoves \/ Initialisation
  BY <1>1, <1>2 DEF NoDeliveryMoves, Initialisation, deliveryOnlyVars
<1>3. ASSUME NEW id \in DeliveryIds, NEW sender \in Users,
             NEW recipient \in Users, Creation(id, sender, recipient)
      PROVE  deliveries'[d] # None /\ deliveries'[d].status # "Delivered"
  BY <1>1, <1>3, CreationIsVisible
<1>4. ASSUME NEW e \in DeliveryIds, NEW driver \in Users, Assignment(e, driver)
      PROVE  deliveries'[d] # None /\ deliveries'[d].status # "Delivered"
  BY <1>1, <1>4, AssignmentIsVisible DEF Known, RecordBecomes
<1>5. ASSUME NEW e \in DeliveryIds,
             NEW status \in {"InTransit", "Cancelled", "Disputed"},
             Advance(e, status)
      PROVE  deliveries'[d] # None /\ deliveries'[d].status # "Delivered"
  BY <1>1, <1>5, AdvanceIsVisible DEF Known, RecordBecomes
<1>6. ASSUME NEW e \in DeliveryIds, Confirmation(e)
      PROVE  deliveries'[d] = deliveries[d]
  <2>1. escrows[e].status = "Locked" /\ escrows[d].status # "Locked"
    BY <1>6 DEF Confirmation, StatusAgreement, AgreesWithEscrow
  <2>2. e # d
    BY <2>1
  <2>3. QED
    BY <1>6, <2>2, ConfirmationIsVisible
<1>7. QED
  BY <1>1, <1>2, <1>3, <1>4, <1>5, <1>6, KindsOfSteps

\* The table of transitions allows it, and still no disputed delivery is ever
\* confirmed: what stands in the way is the state of another contract.
THEOREM DisputesBlockConfirmation == DeliverySpec => DisputeBlocksConfirmation
<1>1. DeliveryTypeOK /\ EscrowTypeOK /\ StatusAgreement
          /\ [DeliveryNext]_deliveryVars => ConfirmationStep
  BY ConfirmationStepHolds DEF ConfirmationStep
<1>2. QED
  BY <1>1, DeliveryTypeCorrect, StatusesAgree, PTL
     DEF DeliverySpec, DisputeBlocksConfirmation

-----------------------------------------------------------------------------
(* The money that the end of a delivery moves.                             *)

LEMMA EndStepHolds ==
    ASSUME DeliveryTypeOK, EscrowTypeOK, FeeBounded,
           [DeliveryNext]_deliveryVars
    PROVE  EndStep
<1> SUFFICES ASSUME NEW d \in DeliveryIds, Known(d),
                    deliveries'[d].status # deliveries[d].status
             PROVE  /\ deliveries'[d].status = "Delivered" =>
                           Exists(d) /\ DriverGains(escrows[d])
                    /\ deliveries'[d].status = "Cancelled" =>
                           Exists(d) /\ SenderGains(escrows[d])
  BY DEF EndStep
<1>1. CASE NoDeliveryMoves \/ Initialisation
  BY <1>1 DEF NoDeliveryMoves, Initialisation, deliveryOnlyVars
<1>2. ASSUME NEW id \in DeliveryIds, NEW sender \in Users,
             NEW recipient \in Users, Creation(id, sender, recipient)
      PROVE  deliveries'[d].status = "Pending"
  BY <1>2, CreationIsVisible
<1>3. ASSUME NEW e \in DeliveryIds, NEW driver \in Users, Assignment(e, driver)
      PROVE  deliveries'[d].status = "Active"
  BY <1>3, AssignmentIsVisible DEF RecordBecomes
<1>4. ASSUME NEW e \in DeliveryIds,
             NEW status \in {"InTransit", "Cancelled", "Disputed"},
             Advance(e, status)
      PROVE  /\ deliveries'[d].status = status
             /\ status = "Cancelled" => Exists(d) /\ SenderGains(escrows[d])
  <2>1. e = d /\ deliveries'[d].status = status
    BY <1>4, AdvanceIsVisible DEF RecordBecomes
  <2>2. ASSUME status = "Cancelled"
        PROVE  Exists(d) /\ PaySender(escrows[d])
    BY <1>4, <2>1, <2>2 DEF Advance
  <2>3. QED
    BY <2>1, <2>2, SenderHasItBack
<1>5. ASSUME NEW e \in DeliveryIds, Confirmation(e)
      PROVE  /\ deliveries'[d].status = "Delivered"
             /\ Exists(d) /\ DriverGains(escrows[d])
  <2>1. e = d /\ deliveries'[d].status = "Delivered"
    BY <1>5, ConfirmationIsVisible DEF RecordBecomes
  <2>2. QED
    BY <1>5, <2>1, DriverAndAdminGain DEF Confirmation
<1>6. QED
  BY <1>1, <1>2, <1>3, <1>4, <1>5, KindsOfSteps

LEMMA DeliveryCallsEscrow == DeliverySpec => EscrowSpec
<1>1. DeliveryInit => EscrowInit
  BY DEF DeliveryInit
<1>2. QED
  BY <1>1, DeliveryStepIsEscrowStep, PTL DEF DeliverySpec, EscrowSpec

\* With a fee of at most 100%, whoever called the two contracts before, the
\* step that ends a delivery pays its driver and the admin all there is, or
\* gives its sender all of it back.
THEOREM EndsArePaid == ASSUME FeeWithinWhole PROVE DeliverySpec => EndsMoveMoney
<1>1. DeliveryTypeOK /\ Funded /\ [DeliveryNext]_deliveryVars
          => [EndStep]_deliveryVars
  BY EndStepHolds DEF Funded
<1>2. QED
  BY <1>1, DeliveryTypeCorrect, DeliveryCallsEscrow, AlwaysFunded, PTL
     DEF DeliverySpec, EndsMoveMoney

-----------------------------------------------------------------------------
(* Once the deployer initialised the delivery contract, the counter never  *)
(* starts again: the ids given out are the numbers up to it.               *)

Numbered ==
    /\ deliveryAdmin # None
    /\ \A d \in DeliveryIds : Known(d) <=> d <= deliveryCounter
    /\ \A d \in DeliveryIds :
          Known(d) /\ deliveries[d].status = "Pending"
              => deliveries[d].driver = None

LEMMA TransitionsGoOn ==
    ASSUME NEW d, NEW status, MayBecome(d, status)
    PROVE  /\ deliveries[d].status \notin {"Delivered", "Cancelled"}
           /\ status # "Pending"
           /\ status = "Active" => deliveries[d].status = "Pending"
BY DEF MayBecome, validate_transition, Transitions

LEMMA NumberedIsKept ==
    ASSUME DeliveryTypeOK, EscrowTypeOK, Numbered, [DeliveryNext]_deliveryVars
    PROVE  Numbered'
<1>1. CASE NoDeliveryMoves
  BY <1>1 DEF NoDeliveryMoves, deliveryOnlyVars, Numbered, Known
<1>2. CASE Initialisation
  BY <1>2 DEF Initialisation, Numbered
<1>3. ASSUME NEW id \in DeliveryIds, NEW sender \in Users,
             NEW recipient \in Users, Creation(id, sender, recipient)
      PROVE  Numbered'
  <2>1. deliveries'[id].driver = None
    BY <1>3 DEF Creation, DeliveryTypeOK
  <2>2. ASSUME NEW d \in DeliveryIds
        PROVE  Known(d)' <=> d <= deliveryCounter'
    <3>1. Known(d)' <=> d = id \/ Known(d)
      BY <1>3, CreationIsVisible
    <3>2. /\ deliveryCounter \in Nat /\ d \in Nat
          /\ id = deliveryCounter + 1 /\ deliveryCounter' = id
      BY <1>3, DeliveryIdsAreNumbers DEF Creation, DeliveryTypeOK
    <3>3. QED
      BY <3>1, <3>2 DEF Numbered
  <2>3. QED
    BY <1>3, <2>1, <2>2, CreationIsVisible DEF Creation, Numbered, Known
<1>4. ASSUME NEW d \in DeliveryIds, NEW driver \in Users, Assignment(d, driver)
      PROVE  Numbered'
  BY <1>4, AssignmentIsVisible
     DEF Assignment, Numbered, Known, RecordBecomes
<1>5. ASSUME NEW d \in DeliveryIds,
             NEW status \in {"InTransit", "Cancelled", "Disputed"},
             Advance(d, status)
      PROVE  Numbered'
  BY <1>5, AdvanceIsVisible DEF Advance, Numbered, Known, RecordBecomes
<1>6. ASSUME NEW d \in DeliveryIds, Confirmation(d)
      PROVE  Numbered'
  BY <1>6, ConfirmationIsVisible DEF Confirmation, Numbered, Known, RecordBecomes
<1>7. QED
  BY <1>1, <1>2, <1>3, <1>4, <1>5, <1>6, KindsOfSteps

LEMMA AlwaysNumbered == DeployedDeliverySpec => []Numbered
<1>1. (\E admin \in Users : DeliveryDeployed(admin)) => Numbered
  BY SharedAssumption, DeliveryIdsAreNumbers
     DEF DeliveryDeployed, DeliveryEmpty, Numbered, Known
<1>2. QED
  BY <1>1, NumberedIsKept, DeployedTypeCorrect, PTL DEF DeployedDeliverySpec

\* What a move does to the record of d, when the table allows it.
LEMMA MovesKeepRecords ==
    ASSUME NEW d \in DeliveryIds, NEW status, NEW driver, Numbered,
           MayBecome(d, status), RecordBecomes(d, status, driver),
           driver = deliveries[d].driver \/ status = "Active",
           NEW e \in DeliveryIds, Known(e), e # d => deliveries'[e] = deliveries[e]
    PROVE  /\ deliveries'[e] # None
           /\ deliveries'[e].sender = deliveries[e].sender
           /\ deliveries'[e].recipient = deliveries[e].recipient
           /\ deliveries[e].driver \in {None, deliveries'[e].driver}
           /\ deliveries[e].status \in {"Delivered", "Cancelled"}
                 => deliveries'[e] = deliveries[e]
           /\ deliveries'[e].status = "Pending"
                 => deliveries[e].status = "Pending"
<1>1. CASE e = d
  BY <1>1, TransitionsGoOn DEF RecordBecomes, Numbered
<1>2. CASE e # d
  BY <1>2 DEF Known
<1>3. QED
  BY <1>1, <1>2

LEMMA DeliveryStepHolds ==
    ASSUME DeliveryTypeOK, EscrowTypeOK, Numbered, [DeliveryNext]_deliveryVars
    PROVE  DeliveryStep
<1>1. CASE NoDeliveryMoves
  BY <1>1 DEF NoDeliveryMoves, deliveryOnlyVars, DeliveryStep, Known
<1>2. CASE Initialisation
  BY <1>2 DEF Initialisation, Numbered
<1>3. ASSUME NEW id \in DeliveryIds, NEW sender \in Users,
             NEW recipient \in Users, Creation(id, sender, recipient)
      PROVE  DeliveryStep
  <2>1. ~ Known(id)
    BY <1>3, DeliveryIdsAreNumbers DEF Creation, Numbered, DeliveryTypeOK
  <2>2. \A d \in DeliveryIds :
            Known(d) => deliveries'[d] = deliveries[d] /\ deliveries'[d] # None
    BY <1>3, <2>1, CreationIsVisible DEF Known
  <2>3. QED
    BY <2>2 DEF DeliveryStep
<1>4. ASSUME NEW d \in DeliveryIds, NEW driver \in Users, Assignment(d, driver)
      PROVE  DeliveryStep
  <2>1. /\ MayBecome(d, "Active") /\ RecordBecomes(d, "Active", driver)
        /\ \A e \in DeliveryIds : e # d => deliveries'[e] = deliveries[e]
    BY <1>4, AssignmentIsVisible DEF Assignment
  <2>2. QED
    BY <2>1, MovesKeepRecords DEF DeliveryStep
<1>5. ASSUME NEW d \in DeliveryIds,
             NEW status \in {"InTransit", "Cancelled", "Disputed"},
             Advance(d, status)
      PROVE  DeliveryStep
  <2>1. /\ MayBecome(d, status)
        /\ RecordBecomes(d, status, deliveries[d].driver)
        /\ \A e \in DeliveryIds : e # d => deliveries'[e] = deliveries[e]
    BY <1>5, AdvanceIsVisible DEF Advance
  <2>2. QED
    BY <2>1, MovesKeepRecords DEF DeliveryStep
<1>6. ASSUME NEW d \in DeliveryIds, Confirmation(d)
      PROVE  DeliveryStep
  <2>1. /\ MayBecome(d, "Delivered")
        /\ RecordBecomes(d, "Delivered", deliveries[d].driver)
        /\ \A e \in DeliveryIds : e # d => deliveries'[e] = deliveries[e]
    BY <1>6, ConfirmationIsVisible DEF Confirmation
  <2>2. QED
    BY <2>1, MovesKeepRecords DEF DeliveryStep
<1>7. QED
  BY <1>1, <1>2, <1>3, <1>4, <1>5, <1>6, KindsOfSteps

\* A deployed contract gives every id once, and what the record of an id says
\* of the parties, the driver and the end of the delivery stays true.
THEOREM IdsStayUnique == DeployedDeliverySpec => IdsAreUnique
<1>1. DeliveryTypeOK /\ EscrowTypeOK /\ Numbered
          /\ [DeliveryNext]_deliveryVars => [DeliveryStep]_deliveryVars
  BY DeliveryStepHolds
<1>2. QED
  BY <1>1, DeployedTypeCorrect, AlwaysNumbered, PTL
     DEF DeployedDeliverySpec, IdsAreUnique

-----------------------------------------------------------------------------
(* The profiles count the confirmed deliveries.                            *)

LEMMA DeliveredAreFinite ==
    ASSUME NEW u
    PROVE  IsFiniteSet(DeliveredBy(u)) /\ Cardinality(DeliveredBy(u)) \in Nat
<1>1. IsFiniteSet(DeliveryIds)
  BY FS_Interval, SharedAssumption DEF DeliveryIds
<1>2. DeliveredBy(u) \subseteq DeliveryIds
  BY DEF DeliveredBy
<1>3. QED
  BY <1>1, <1>2, FS_Subset, FS_CardinalityType

LEMMA SameDeliveriesSameCount ==
    ASSUME CompletedMatchesDeliveries, UNCHANGED completed,
           \A d \in DeliveryIds :
               /\ Known(d)' /\ deliveries'[d].status = "Delivered"
                     => Known(d) /\ deliveries'[d] = deliveries[d]
               /\ Known(d) /\ deliveries[d].status = "Delivered"
                     => Known(d)' /\ deliveries'[d] = deliveries[d]
    PROVE  CompletedMatchesDeliveries'
<1>1. \A u \in Users : DeliveredBy(u)' = DeliveredBy(u)
  BY DEF DeliveredBy
<1>2. QED
  BY <1>1 DEF CompletedMatchesDeliveries

LEMMA CreditIsRight ==
    ASSUME DeliveryTypeOK, CompletedMatchesDeliveries, NEW d \in DeliveryIds,
           Confirmation(d)
    PROVE  CompletedMatchesDeliveries'
<1>1. /\ Known(d) /\ deliveries[d].status # "Delivered"
      /\ deliveries[d].driver \in Users \union {None}
  BY TransitionsGoOn, DeliveryIsTyped DEF Confirmation, MayBecome
<1>2. /\ RecordBecomes(d, "Delivered", deliveries[d].driver)
      /\ \A e \in DeliveryIds : e # d => deliveries'[e] = deliveries[e]
      /\ \A e \in DeliveryIds : Known(e)' <=> Known(e)
  BY ConfirmationIsVisible
<1>3. ASSUME NEW u \in Users, u # deliveries[d].driver
      PROVE  completed'[u] = Cardinality(DeliveredBy(u)')
  <2>1. DeliveredBy(u)' = DeliveredBy(u)
    BY <1>1, <1>2, <1>3 DEF DeliveredBy, RecordBecomes
  <2>2. completed'[u] = completed[u]
    BY <1>1, <1>3 DEF Confirmation, DeliveryTypeOK
  <2>3. QED
    BY <2>1, <2>2 DEF CompletedMatchesDeliveries
<1>4. ASSUME NEW u \in Users, u = deliveries[d].driver
      PROVE  completed'[u] = Cardinality(DeliveredBy(u)')
  <2>1. DeliveredBy(u)' = DeliveredBy(u) \union {d} /\ d \notin DeliveredBy(u)
    BY <1>1, <1>2, <1>4 DEF DeliveredBy, RecordBecomes
  <2>2. Cardinality(DeliveredBy(u)') = Cardinality(DeliveredBy(u)) + 1
    BY <2>1, DeliveredAreFinite, FS_AddElement
  <2>3. completed'[u] = completed[u] + 1
    BY <1>4, SharedAssumption DEF Confirmation, DeliveryTypeOK
  <2>4. QED
    BY <2>2, <2>3 DEF CompletedMatchesDeliveries
<1>5. QED
  BY <1>3, <1>4 DEF CompletedMatchesDeliveries

LEMMA CountIsKept ==
    ASSUME DeliveryTypeOK, EscrowTypeOK, Numbered, CompletedMatchesDeliveries,
           [DeliveryNext]_deliveryVars
    PROVE  CompletedMatchesDeliveries'
<1>1. CASE NoDeliveryMoves
  BY <1>1, SameDeliveriesSameCount DEF NoDeliveryMoves, deliveryOnlyVars, Known
<1>2. CASE Initialisation
  BY <1>2 DEF Initialisation, Numbered
<1>3. ASSUME NEW id \in DeliveryIds, NEW sender \in Users,
             NEW recipient \in Users, Creation(id, sender, recipient)
      PROVE  CompletedMatchesDeliveries'
  <2>1. ~ Known(id)
    BY <1>3, DeliveryIdsAreNumbers DEF Creation, Numbered, DeliveryTypeOK
  <2>2. UNCHANGED completed
    BY <1>3 DEF Creation
  <2>3. QED
    BY <1>3, <2>1, <2>2, CreationIsVisible, SameDeliveriesSameCount
<1>4. ASSUME NEW d \in DeliveryIds, NEW status, NEW driver,
             MayBecome(d, status), RecordBecomes(d, status, driver),
             status # "Delivered", UNCHANGED completed,
             \A e \in DeliveryIds : e # d => deliveries'[e] = deliveries[e],
             \A e \in DeliveryIds : Known(e)' <=> Known(e)
      PROVE  CompletedMatchesDeliveries'
  BY <1>4, TransitionsGoOn, SameDeliveriesSameCount DEF RecordBecomes
<1>5. ASSUME NEW d \in DeliveryIds, NEW driver \in Users, Assignment(d, driver)
      PROVE  CompletedMatchesDeliveries'
  <2>1. /\ MayBecome(d, "Active") /\ RecordBecomes(d, "Active", driver)
        /\ UNCHANGED completed
        /\ \A e \in DeliveryIds : e # d => deliveries'[e] = deliveries[e]
        /\ \A e \in DeliveryIds : Known(e)' <=> Known(e)
    BY <1>5, AssignmentIsVisible DEF Assignment
  <2>2. QED
    BY <1>4, <2>1
<1>6. ASSUME NEW d \in DeliveryIds,
             NEW status \in {"InTransit", "Cancelled", "Disputed"},
             Advance(d, status)
      PROVE  CompletedMatchesDeliveries'
  <2>1. /\ MayBecome(d, status)
        /\ RecordBecomes(d, status, deliveries[d].driver)
        /\ UNCHANGED completed
        /\ \A e \in DeliveryIds : e # d => deliveries'[e] = deliveries[e]
        /\ \A e \in DeliveryIds : Known(e)' <=> Known(e)
    BY <1>6, AdvanceIsVisible DEF Advance
  <2>2. QED
    BY <1>4, <2>1
<1>7. ASSUME NEW d \in DeliveryIds, Confirmation(d)
      PROVE  CompletedMatchesDeliveries'
  BY <1>7, CreditIsRight
<1>8. QED
  BY <1>1, <1>2, <1>3, <1>5, <1>6, <1>7, KindsOfSteps

\* In a deployed contract no confirmation is credited twice, to nobody or to
\* another driver, whatever happens between the two calls of a confirmation.
THEOREM ConfirmationsAreCounted ==
    DeployedDeliverySpec => []CompletedMatchesDeliveries
<1>1. (\E admin \in Users : DeliveryDeployed(admin))
          => CompletedMatchesDeliveries
  <2> SUFFICES ASSUME DeliveryEmpty, NEW u \in Users
               PROVE  completed[u] = Cardinality(DeliveredBy(u))
    BY DEF DeliveryDeployed, CompletedMatchesDeliveries
  <2>1. DeliveredBy(u) = {}
    BY DEF DeliveryEmpty, DeliveredBy, Known
  <2>2. QED
    BY <2>1, FS_EmptySet DEF DeliveryEmpty
<1>2. QED
  BY <1>1, CountIsKept, AlwaysNumbered, DeployedTypeCorrect, PTL
     DEF DeployedDeliverySpec
=============================================================================
