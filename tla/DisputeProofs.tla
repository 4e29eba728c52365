---------------------------- MODULE DisputeProofs ----------------------------
(***************************************************************************)
(* Theorems about the cases of the dispute contract and what they have to  *)
(* do with deliveries and escrows, whichever of the three contracts is     *)
(* called and by whom.                                                     *)
(***************************************************************************)
EXTENDS SystemProofs

-----------------------------------------------------------------------------
(* What the dispute contract does to the two contracts below it, it does   *)
(* by calling them.                                                        *)

LEMMA StepIsDeliveryStep == [Next]_vars => [DeliveryNext]_deliveryVars
<1> SUFFICES ASSUME [Next]_vars
             PROVE  [DeliveryNext]_deliveryVars
  OBVIOUS
<1>1. ASSUME NEW d \in DeliveryIds, NEW caller \in Users,
             dispute_raise_dispute(caller, d)
      PROVE  DeliveryNext
  <2>1. CASE freeze_funds(d) /\ UNCHANGED <<deliveryOnlyVars, now>>
    BY <2>1, EscrowCallIsStep DEF DeliveryNext, DirectEscrowCalls
  <2>2. CASE delivery_raise_dispute(caller, d)
    BY <2>2 DEF DeliveryNext, DeliveryCalls
  <2>3. QED
    BY <1>1, <2>1, <2>2, RaisingCallsOne
<1>2. ASSUME NEW d \in DeliveryIds, NEW caller \in Users,
             \/ resolve_dispute_refund_sender(caller, d)
             \/ resolve_dispute_pay_driver(caller, d)
      PROVE  DeliveryNext
  <2>1. /\ \E toDriver \in BOOLEAN : resolve_dispute(caller, d, toDriver)
        /\ UNCHANGED <<deliveryOnlyVars, now>>
    BY <1>2 DEF resolve_dispute_refund_sender, resolve_dispute_pay_driver,
       Closing
  <2>2. QED
    BY <2>1, EscrowCallIsStep DEF DeliveryNext, DirectEscrowCalls
<1>3. ASSUME NEW d \in DeliveryIds, NEW caller \in Users, NEW share \in Shares,
             resolve_dispute_split_funds(caller, d, share)
      PROVE  [DeliveryNext]_deliveryVars
  <2>1. UNCHANGED <<deliveryOnlyVars, now>>
    BY <1>3 DEF resolve_dispute_split_funds, Closing
  <2>2. CASE resolve_dispute_split(caller, d, share)
    BY <2>1, <2>2, EscrowCallIsStep DEF DeliveryNext, DirectEscrowCalls
  <2>3. CASE UNCHANGED escrowVars
    BY <2>1, <2>3 DEF deliveryVars
  <2>4. QED
    BY <1>3, <2>2, <2>3 DEF resolve_dispute_split_funds
<1>4. ASSUME \/ \E admin, limit : dispute_init(admin, limit)
             \/ \E caller, new : add_admin(caller, new) \/ remove_admin(caller, new)
             \/ \E caller, d : add_evidence_hash(caller, d)
      PROVE  UNCHANGED deliveryVars
  BY <1>4 DEF dispute_init, add_admin, remove_admin, add_evidence_hash
<1>5. CASE DisputeCalls
  BY <1>1, <1>2, <1>3, <1>4, <1>5 DEF DisputeCalls
<1>6. QED
  BY <1>5 DEF Next, DirectDeliveryCalls, vars

\* No handler of the dispute contract reaches around the delivery contract.
THEOREM SystemCallsDelivery == Spec => DeliverySpec
<1>1. Init => DeliveryInit
  BY DEF Init
<1>2. QED
  BY <1>1, StepIsDeliveryStep, PTL DEF Spec, DeliverySpec

LEMMA DeployedCallsDelivery == DeployedSpec => DeployedDeliverySpec
<1>1. DeployedInit => \E admin \in Users : DeliveryDeployed(admin)
  BY DEF DeployedInit
<1>2. QED
  BY <1>1, StepIsDeliveryStep, PTL DEF DeployedSpec, DeployedDeliverySpec

\* So the statuses agree in the whole system, cases and verdicts included,
THEOREM SystemStatusesAgree == Spec => []StatusAgreement
BY SystemCallsDelivery, StatusesAgree, PTL

\* and a dispute, however it was raised, blocks the confirmation.
THEOREM SystemBlocksConfirmation == Spec => DisputeBlocksConfirmation
BY SystemCallsDelivery, DisputesBlockConfirmation, PTL

-----------------------------------------------------------------------------
(* What a step does to the cases.                                          *)

Outcome(status, r) ==
    /\ r # None
    /\ status \in {"ResolvedRefund", "ResolvedPayout", "Split"}
    /\ status = "ResolvedRefund" => r.status = "Refunded"
    /\ status = "ResolvedPayout" => r.status = "Released"
    /\ status = "Split" => ~ Open(r)

\* The case of d gets this record, and no other case changes.
CaseBecomes(d, case) ==
    disputes' = [disputes EXCEPT ![d] = case]

NewCase(caller) == [status |-> "Open", raised_by |-> caller,
                    raised_at |-> now, evidence |-> 0]

Raising(d, caller) ==
    /\ ~ CaseExists(d)
    /\ CaseBecomes(d, NewCase(caller))
    /\ escrows'[d] # None /\ escrows'[d].status # "Locked"
    /\ DisputeInitialised /\ UNCHANGED timeLimit
    /\ Known(d)
    /\ \/ /\ deliveries[d].status = "Delivered" /\ WithinWindow(d)
          /\ UNCHANGED deliveries
       \/ deliveries'[d].status = "Disputed"

Documenting(d) ==
    /\ CaseExists(d) /\ disputes[d].status = "Open"
    /\ CaseBecomes(d, [disputes[d] EXCEPT !.evidence = @ + 1])
    /\ UNCHANGED timeLimit

\* What the escrow contract does for a verdict.
Carried(d, status) ==
    /\ Exists(d)
    /\ \/ /\ status = "ResolvedRefund" /\ Open(escrows[d])
          /\ PaySender(escrows[d])
       \/ /\ status = "ResolvedPayout" /\ Open(escrows[d])
          /\ EscrowInitialised
          /\ CanPayDriverAndFee(escrows[d]) /\ PayDriverAndFee(escrows[d])
       \/ /\ status = "Split" /\ Open(escrows[d])
          /\ \E caller \in Users, share \in Shares :
                resolve_dispute_split(caller, d, share)
       \/ status = "Split" /\ ~ Open(escrows[d]) /\ UNCHANGED balance

Deciding(d, status) ==
    /\ CaseExists(d) /\ disputes[d].status = "Open"
    /\ Carried(d, status)
    /\ CaseBecomes(d, [disputes[d] EXCEPT !.status = status])
    /\ Outcome(status, escrows'[d])
    /\ UNCHANGED timeLimit

NoCaseMoves ==
    /\ UNCHANGED disputes
    /\ \/ UNCHANGED timeLimit
       \/ ~ DisputeInitialised /\ timeLimit' \in Nat

LEMMA CaseIsTyped ==
    ASSUME DisputeTypeOK, NEW d \in DeliveryIds, CaseExists(d)
    PROVE  disputes[d] \in DisputeCase
BY DEF DisputeTypeOK, CaseExists

LEMMA SetStatusIsVisible ==
    ASSUME EscrowTypeOK, NEW d \in DeliveryIds, Exists(d),
           NEW s \in EscrowStatus, SetStatus(d, s)
    PROVE  escrows'[d] # None /\ escrows'[d].status = s
<1> DEFINE r == [escrows[d] EXCEPT !.status = s]
<1>1. r \in EscrowRecord /\ r.status = s
  BY RecordIsTyped DEF EscrowRecord
<1>2. escrows'[d] = r
  BY DEF SetStatus, EscrowTypeOK
<1> HIDE DEF r
<1>3. QED
  BY <1>1, <1>2, NoneIsNoEscrow

LEMMA RaisingFreezes ==
    ASSUME EscrowTypeOK, NEW d \in DeliveryIds, NEW caller \in Users,
           freeze_funds(d) \/ escrow_raise_dispute(caller, d)
    PROVE  escrows'[d] # None /\ escrows'[d].status # "Locked"
<1>1. CASE escrow_raise_dispute(caller, d)
  <2> DEFINE r == [escrows[d] EXCEPT !.status = "Paused", !.disputed_by = caller]
  <2>1. escrows[d] \in EscrowRecord
    BY <1>1, RecordIsTyped DEF escrow_raise_dispute, MayDispute
  <2>2. r \in EscrowRecord /\ r.status = "Paused"
    BY <2>1 DEF EscrowRecord, EscrowStatus
  <2>3. escrows'[d] = r
    BY <1>1 DEF escrow_raise_dispute, Marked, EscrowTypeOK
  <2> HIDE DEF r
  <2>4. QED
    BY <2>2, <2>3, NoneIsNoEscrow
<1>2. CASE freeze_funds(d)
  <2>1. CASE escrows[d].status = "Locked"
    BY <1>2, <2>1, SetStatusIsVisible
       DEF freeze_funds, Frozen, SetStatus, EscrowStatus
  <2>2. CASE escrows[d].status # "Locked"
    BY <1>2, <2>2 DEF freeze_funds, Frozen, Exists
  <2>3. QED
    BY <2>1, <2>2
<1>3. QED
  BY <1>1, <1>2

LEMMA RaisingIsRaising ==
    ASSUME TypeOK, NEW d \in DeliveryIds, NEW caller \in Users,
           dispute_raise_dispute(caller, d)
    PROVE  Raising(d, caller)
<1>1. escrows'[d] # None /\ escrows'[d].status # "Locked"
  BY RaisingFreezes, RaisingCallsOne DEF delivery_raise_dispute, TypeOK
<1>2. \/ /\ deliveries[d].status = "Delivered" /\ WithinWindow(d)
         /\ UNCHANGED deliveries
      \/ deliveries'[d].status = "Disputed"
  <2>1. CASE delivery_raise_dispute(caller, d)
    <3>1. /\ Known(d) /\ DeliveryTypeOK /\ "Disputed" \in DeliveryStatus
          /\ deliveries' = [deliveries EXCEPT ![d].status = "Disputed"]
      BY <2>1 DEF delivery_raise_dispute, Disputing, MayBecome, TypeOK,
         DeliveryStatus
    <3>2. MovesTo(d, "Disputed", deliveries[d].driver, deliveries[d].delivered_at)
      BY <3>1, StatusMoves
    <3>3. /\ deliveries[d].driver \in Users \union {None}
          /\ deliveries[d].delivered_at \in Nat \union {None}
      BY <3>1, DeliveryIsTyped DEF DeliveryRecord
    <3>4. RecordBecomes(d, "Disputed", deliveries[d].driver)
      BY <3>1, <3>2, <3>3, MoveIsVisible
    <3>5. QED
      BY <3>4 DEF RecordBecomes
  <2>2. CASE deliveries[d].status = "Delivered" /\ WithinWindow(d)
             /\ UNCHANGED deliveryOnlyVars
    BY <2>2 DEF deliveryOnlyVars
  <2>3. QED
    BY <2>1, <2>2, RaisingCallsOne
<1>3. QED
  BY <1>1, <1>2 DEF dispute_raise_dispute, Raising, CaseBecomes, NewCase

LEMMA ClosingIsDeciding ==
    ASSUME TypeOK, NEW d \in DeliveryIds, NEW caller, NEW status,
           Closing(caller, d, status), Outcome(status, escrows'[d]),
           Carried(d, status)
    PROVE  Deciding(d, status)
BY DEF Closing, Deciding, CaseBecomes, TypeOK, DisputeTypeOK

LEMMA KindsOfCaseSteps ==
    ASSUME TypeOK, CaseFreezesEscrow, [Next]_vars
    PROVE  \/ NoCaseMoves
           \/ \E d \in DeliveryIds : \E caller \in Users : Raising(d, caller)
           \/ \E d \in DeliveryIds : Documenting(d)
           \/ \E d \in DeliveryIds : \E status \in DisputeStatus :
                  Deciding(d, status)
<1>1. CASE DirectDeliveryCalls \/ UNCHANGED vars
  BY <1>1 DEF DirectDeliveryCalls, vars, disputeOnlyVars, NoCaseMoves
<1>2. ASSUME NEW caller \in Users, NEW new \in Users,
             \/ \E limit \in TimeLimits : dispute_init(caller, limit)
             \/ add_admin(caller, new)
             \/ remove_admin(caller, new)
      PROVE  NoCaseMoves
  BY <1>2, DisputeAssumption DEF dispute_init, add_admin, remove_admin, NoCaseMoves
<1>3. ASSUME NEW d \in DeliveryIds, NEW caller \in Users,
             add_evidence_hash(caller, d)
      PROVE  Documenting(d)
  BY <1>3 DEF add_evidence_hash, Documenting, CaseBecomes, TypeOK, DisputeTypeOK
<1>4. ASSUME NEW d \in DeliveryIds, NEW caller \in Users,
             resolve_dispute_refund_sender(caller, d)
      PROVE  Deciding(d, "ResolvedRefund")
  <2>1. Exists(d) /\ SetStatus(d, "Refunded")
    BY <1>4 DEF resolve_dispute_refund_sender, resolve_dispute
  <2>2. Outcome("ResolvedRefund", escrows'[d])
    BY <2>1, SetStatusIsVisible DEF Outcome, TypeOK, EscrowStatus
  <2>3. Carried(d, "ResolvedRefund")
    BY <1>4 DEF resolve_dispute_refund_sender, resolve_dispute, Carried, Open,
       Exists
  <2>4. QED
    BY <1>4, <2>2, <2>3, ClosingIsDeciding DEF resolve_dispute_refund_sender
<1>5. ASSUME NEW d \in DeliveryIds, NEW caller \in Users,
             resolve_dispute_pay_driver(caller, d)
      PROVE  Deciding(d, "ResolvedPayout")
  <2>1. Exists(d) /\ SetStatus(d, "Released")
    BY <1>5 DEF resolve_dispute_pay_driver, resolve_dispute
  <2>2. Outcome("ResolvedPayout", escrows'[d])
    BY <2>1, SetStatusIsVisible DEF Outcome, TypeOK, EscrowStatus
  <2>3. Carried(d, "ResolvedPayout")
    BY <1>5, SharedAssumption
       DEF resolve_dispute_pay_driver, resolve_dispute, Carried, Open, Exists,
           is_admin, EscrowInitialised
  <2>4. QED
    BY <1>5, <2>2, <2>3, ClosingIsDeciding DEF resolve_dispute_pay_driver
<1>6. ASSUME NEW d \in DeliveryIds, NEW caller \in Users, NEW share \in Shares,
             resolve_dispute_split_funds(caller, d, share)
      PROVE  Deciding(d, "Split")
  <2>1. CaseExists(d) /\ Exists(d)
    BY <1>6 DEF resolve_dispute_split_funds, Closing
  <2>2. ASSUME resolve_dispute_split(caller, d, share)
        PROVE  Outcome("Split", escrows'[d])
    <3>1. SetStatus(d, "Refunded")
      BY <2>2 DEF resolve_dispute_split
    <3>2. QED
      BY <2>1, <3>1, SetStatusIsVisible DEF Outcome, Open, TypeOK, EscrowStatus
  <2>3. ASSUME escrows[d].status # "Paused", UNCHANGED escrowVars
        PROVE  Outcome("Split", escrows'[d])
    BY <2>1, <2>3 DEF Outcome, Open, CaseFreezesEscrow, Exists, escrowVars
  <2>4. Outcome("Split", escrows'[d])
    BY <1>6, <2>2, <2>3 DEF resolve_dispute_split_funds
  <2>5. Carried(d, "Split")
    <3>1. CASE resolve_dispute_split(caller, d, share)
      BY <2>1, <3>1 DEF resolve_dispute_split, Carried, Open, Exists
    <3>2. CASE escrows[d].status # "Paused" /\ UNCHANGED escrowVars
      BY <2>1, <3>2 DEF Carried, Open, CaseFreezesEscrow, escrowVars
    <3>3. QED
      BY <1>6, <3>1, <3>2 DEF resolve_dispute_split_funds
  <2>6. QED
    BY <1>6, <2>4, <2>5, ClosingIsDeciding DEF resolve_dispute_split_funds
<1>7. CASE DisputeCalls
  BY <1>2, <1>3, <1>4, <1>5, <1>6, <1>7, RaisingIsRaising
     DEF DisputeCalls, DisputeStatus
<1>8. QED
  BY <1>1, <1>7 DEF Next

-----------------------------------------------------------------------------
(* A case is opened, gathers evidence and is decided once.                 *)

\* A record that a case may have next.
Follows(new, old) ==
    /\ new # None
    /\ new.raised_by = old.raised_by /\ new.raised_at = old.raised_at
    /\ new.evidence >= old.evidence
    /\ old.status # "Open" => new = old

LEMMA CaseIsVisible ==
    ASSUME DisputeTypeOK, NEW d \in DeliveryIds, NEW case \in DisputeCase,
           CaseBecomes(d, case)
    PROVE  /\ disputes' \in [DeliveryIds -> DisputeCase \union {None}]
           /\ disputes'[d] = case /\ CaseExists(d)'
           /\ \A e \in DeliveryIds \ {d} : disputes'[e] = disputes[e]
BY NoneIsNoCase DEF CaseBecomes, DisputeTypeOK, CaseExists

LEMMA RaisingIsVisible ==
    ASSUME TypeOK, NEW d \in DeliveryIds, NEW caller \in Users,
           Raising(d, caller)
    PROVE  /\ disputes' \in [DeliveryIds -> DisputeCase \union {None}]
           /\ CaseExists(d)'
           /\ disputes'[d].status = "Open" /\ disputes'[d].raised_at = now
           /\ \A e \in DeliveryIds \ {d} : disputes'[e] = disputes[e]
<1>1. /\ NewCase(caller) \in DisputeCase
      /\ NewCase(caller).status = "Open" /\ NewCase(caller).raised_at = now
  BY DEF NewCase, DisputeCase, DisputeStatus, TypeOK, DeliveryTypeOK
<1>2. QED
  BY <1>1, CaseIsVisible DEF Raising, TypeOK

LEMMA DocumentingIsVisible ==
    ASSUME TypeOK, NEW d \in DeliveryIds, Documenting(d)
    PROVE  /\ disputes' \in [DeliveryIds -> DisputeCase \union {None}]
           /\ CaseExists(d)' /\ Follows(disputes'[d], disputes[d])
           /\ disputes'[d].status = "Open"
           /\ \A e \in DeliveryIds \ {d} : disputes'[e] = disputes[e]
<1> DEFINE case == [disputes[d] EXCEPT !.evidence = @ + 1]
<1>1. disputes[d] \in DisputeCase /\ disputes[d].status = "Open"
  BY CaseIsTyped DEF Documenting, TypeOK
<1>2. /\ case \in DisputeCase /\ case.status = "Open"
      /\ case.raised_by = disputes[d].raised_by
      /\ case.raised_at = disputes[d].raised_at
      /\ case.evidence >= disputes[d].evidence
  BY <1>1 DEF DisputeCase
<1>3. CaseBecomes(d, case)
  BY DEF Documenting
<1> HIDE DEF case
<1>4. QED
  BY <1>1, <1>2, <1>3, CaseIsVisible DEF Follows, CaseExists, TypeOK

LEMMA DecidingIsVisible ==
    ASSUME TypeOK, NEW d \in DeliveryIds, NEW status \in DisputeStatus,
           Deciding(d, status)
    PROVE  /\ disputes' \in [DeliveryIds -> DisputeCase \union {None}]
           /\ CaseExists(d)' /\ Follows(disputes'[d], disputes[d])
           /\ disputes'[d].status = status
           /\ \A e \in DeliveryIds \ {d} : disputes'[e] = disputes[e]
<1> DEFINE case == [disputes[d] EXCEPT !.status = status]
<1>1. disputes[d] \in DisputeCase /\ disputes[d].status = "Open"
  BY CaseIsTyped DEF Deciding, TypeOK
<1>2. /\ case \in DisputeCase /\ case.status = status
      /\ case.raised_by = disputes[d].raised_by
      /\ case.raised_at = disputes[d].raised_at
      /\ case.evidence >= disputes[d].evidence
  BY <1>1 DEF DisputeCase
<1>3. CaseBecomes(d, case)
  BY DEF Deciding
<1> HIDE DEF case
<1>4. QED
  BY <1>1, <1>2, <1>3, CaseIsVisible DEF Follows, CaseExists, TypeOK

LEMMA CasesFollow ==
    ASSUME TypeOK, CaseFreezesEscrow, [Next]_vars
    PROVE  \A d \in DeliveryIds :
               CaseExists(d) => Follows(disputes'[d], disputes[d])
<1>1. ASSUME NEW d \in DeliveryIds, CaseExists(d)
      PROVE  Follows(disputes[d], disputes[d])
  <2>1. disputes[d].evidence \in Nat
    BY <1>1, CaseIsTyped DEF DisputeCase, TypeOK
  <2>2. QED
    BY <1>1, <2>1 DEF Follows, CaseExists
<1>2. CASE NoCaseMoves
  BY <1>1, <1>2 DEF NoCaseMoves
<1>3. ASSUME NEW e \in DeliveryIds, NEW caller \in Users, Raising(e, caller),
             NEW d \in DeliveryIds, CaseExists(d)
      PROVE  Follows(disputes'[d], disputes[d])
  BY <1>1, <1>3, RaisingIsVisible DEF Raising
<1>4. ASSUME NEW e \in DeliveryIds, Documenting(e),
             NEW d \in DeliveryIds, CaseExists(d)
      PROVE  Follows(disputes'[d], disputes[d])
  BY <1>1, <1>4, DocumentingIsVisible
<1>5. ASSUME NEW e \in DeliveryIds, NEW status \in DisputeStatus,
             Deciding(e, status), NEW d \in DeliveryIds, CaseExists(d)
      PROVE  Follows(disputes'[d], disputes[d])
  BY <1>1, <1>5, DecidingIsVisible
<1>6. QED
  BY <1>2, <1>3, <1>4, <1>5, KindsOfCaseSteps

-----------------------------------------------------------------------------
(* Types, and the escrow behind every case.                                *)

LEMMA DisputeTypeIsKept ==
    ASSUME TypeOK, CaseFreezesEscrow, [Next]_vars
    PROVE  TypeOK'
<1>1. DeliveryTypeOK' /\ EscrowTypeOK'
  BY StepIsDeliveryStep, TypesAreKept DEF TypeOK
<1>2. disputes' \in [DeliveryIds -> DisputeCase \union {None}]
      /\ timeLimit' \in Nat \union {None}
  BY KindsOfCaseSteps, RaisingIsVisible, DocumentingIsVisible,
     DecidingIsVisible
     DEF NoCaseMoves, Raising, Documenting, Deciding, TypeOK, DisputeTypeOK
<1>3. disputeAdmins' \subseteq Users
  BY DEF Next, DirectDeliveryCalls, disputeOnlyVars, vars, DisputeCalls,
     dispute_init, add_admin, remove_admin, dispute_raise_dispute,
     add_evidence_hash, resolve_dispute_refund_sender,
     resolve_dispute_pay_driver, resolve_dispute_split_funds, Closing,
     TypeOK, DisputeTypeOK
<1>4. QED
  BY <1>1, <1>2, <1>3 DEF TypeOK, DisputeTypeOK

LEMMA FreezeIsKept ==
    ASSUME TypeOK, CaseFreezesEscrow, [Next]_vars
    PROVE  CaseFreezesEscrow'
<1>1. RecordStep
  BY StepIsEscrowStep, RecordsAreKept DEF TypeOK
<1>2. ASSUME NEW d \in DeliveryIds, CaseExists(d)
      PROVE  escrows'[d] # None /\ escrows'[d].status # "Locked"
  BY <1>1, <1>2 DEF CaseFreezesEscrow, RecordStep
<1>3. ASSUME NEW d \in DeliveryIds, CaseExists(d)', ~ CaseExists(d)
      PROVE  escrows'[d] # None /\ escrows'[d].status # "Locked"
  BY <1>3, KindsOfCaseSteps, RaisingIsVisible, DocumentingIsVisible,
     DecidingIsVisible
     DEF NoCaseMoves, Raising, Documenting, Deciding, CaseExists
<1>4. QED
  BY <1>2, <1>3 DEF CaseFreezesEscrow, Exists

CasesAreSound == TypeOK /\ CaseFreezesEscrow

LEMMA CasesStaySound == CasesAreSound /\ [Next]_vars => CasesAreSound'
BY DisputeTypeIsKept, FreezeIsKept DEF CasesAreSound

LEMMA InitialCases ==
    /\ Init => CasesAreSound
    /\ DeployedInit => CasesAreSound
<1>1. DisputeEmpty => /\ disputes \in [DeliveryIds -> DisputeCase \union {None}]
                      /\ CaseFreezesEscrow
  BY DEF DisputeEmpty, CaseFreezesEscrow, CaseExists
<1>2. QED
  BY <1>1, DeliveryInitIsTyped, DisputeAssumption
     DEF Init, DeployedInit, CasesAreSound, TypeOK, DisputeTypeOK

LEMMA AlwaysSound == Spec => []CasesAreSound
BY InitialCases, CasesStaySound, PTL DEF Spec

\* Every variable of the three contracts keeps its type, and a case that was
\* raised, open or closed, keeps its escrow from being released as if there
\* had been no dispute, although the escrow contract knows of no cases.
THEOREM SystemTypeCorrect == Spec => []TypeOK
BY AlwaysSound, PTL DEF CasesAreSound

THEOREM CasesFreezeEscrows == Spec => []CaseFreezesEscrow
BY AlwaysSound, PTL DEF CasesAreSound

\* A case is decided once, whatever the admins and the parties do.
THEOREM DecisionsAreFinal == Spec => VerdictsAreFinal
<1>1. CasesAreSound /\ [Next]_vars => [CaseStep]_vars
  BY CasesFollow DEF CasesAreSound, CaseStep, Follows
<1>2. QED
  BY <1>1, AlwaysSound, PTL DEF Spec, VerdictsAreFinal

-----------------------------------------------------------------------------
(* The verdict and the money.                                              *)

LEMMA OutcomeIsKept ==
    ASSUME CasesAreSound, CaseOutcomeMatchesEscrow, [Next]_vars
    PROVE  CaseOutcomeMatchesEscrow'
<1> USE DEF CasesAreSound
<1>1. RecordStep
  BY StepIsEscrowStep, RecordsAreKept DEF TypeOK
<1>2. ASSUME NEW d \in DeliveryIds, CaseExists(d), disputes[d].status # "Open"
      PROVE  disputes'[d] = disputes[d]
  BY <1>2, CasesFollow DEF Follows
<1> DEFINE Kept(status, r) == /\ status = "ResolvedRefund" => r.status = "Refunded"
                              /\ status = "ResolvedPayout" => r.status = "Released"
                              /\ status = "Split" => ~ Open(r)
<1>3. ASSUME NEW d \in DeliveryIds, CaseExists(d), disputes[d].status # "Open"
      PROVE  Kept(disputes'[d].status, escrows'[d])
  <2>1. Kept(disputes[d].status, escrows[d]) /\ Exists(d)
    BY <1>3 DEF CaseOutcomeMatchesEscrow, CaseFreezesEscrow
  <2>2. ~ Open(escrows[d]) => escrows'[d] = escrows[d]
    BY <1>1, <2>1 DEF RecordStep
  <2>3. QED
    BY <1>2, <1>3, <2>1, <2>2 DEF Open
<1>4. ASSUME NEW d \in DeliveryIds, CaseExists(d)',
             disputes'[d].status # "Open",
             CaseExists(d) => disputes[d].status = "Open"
      PROVE  Kept(disputes'[d].status, escrows'[d])
  <2>1. disputes'[d] # disputes[d]
    BY <1>4 DEF CaseExists
  <2>2. PICK status \in DisputeStatus : Deciding(d, status)
    BY <1>4, <2>1, KindsOfCaseSteps, RaisingIsVisible, DocumentingIsVisible,
       DecidingIsVisible DEF NoCaseMoves
  <2>3. disputes'[d].status = status
    BY <2>2, DecidingIsVisible
  <2>4. QED
    BY <2>2, <2>3 DEF Deciding, Outcome
<1>5. \A d \in DeliveryIds : CaseExists(d)' =>
          Kept(disputes'[d].status, escrows'[d])
  BY <1>3, <1>4
<1>6. QED
  BY <1>5 DEF CaseOutcomeMatchesEscrow

\* The verdict on record is the one that was carried out: no later call of
\* the escrow contract changes what the parties got.
THEOREM VerdictsAreCarriedOut == Spec => []CaseOutcomeMatchesEscrow
<1>1. Init => CaseOutcomeMatchesEscrow
  BY DEF Init, DisputeEmpty, CaseOutcomeMatchesEscrow, CaseExists
<1>2. QED
  BY <1>1, OutcomeIsKept, AlwaysSound, PTL DEF Spec

\* The money a verdict moves, in the step that gives it.
LEMMA VerdictStepHolds ==
    ASSUME CasesAreSound, FeeBounded, [Next]_vars
    PROVE  VerdictStep
<1> USE DEF CasesAreSound
<1> SUFFICES ASSUME NEW d \in DeliveryIds, CaseExists(d),
                    disputes'[d].status # disputes[d].status
             PROVE  /\ disputes'[d].status = "ResolvedRefund" =>
                           Open(escrows[d]) /\ SenderGains(escrows[d])
                    /\ disputes'[d].status = "ResolvedPayout" =>
                           Open(escrows[d]) /\ DriverGains(escrows[d])
                    /\ disputes'[d].status = "Split" =>
                           IF Open(escrows[d])
                           THEN \E share \in Shares :
                                    /\ share <= BasisPoints
                                    /\ BothGain(escrows[d], share)
                           ELSE UNCHANGED balance
  BY DEF VerdictStep
<1>1. PICK status \in DisputeStatus : Deciding(d, status)
  BY KindsOfCaseSteps, RaisingIsVisible, DocumentingIsVisible, DecidingIsVisible
     DEF NoCaseMoves, Raising, Documenting
<1>2. disputes'[d].status = status /\ Carried(d, status) /\ EscrowTypeOK
  BY <1>1, DecidingIsVisible DEF Deciding, TypeOK
<1>3. CASE status = "ResolvedRefund"
  BY <1>2, <1>3, SenderHasItBack DEF Carried
<1>4. CASE status = "ResolvedPayout"
  BY <1>2, <1>4, DriverAndAdminGain DEF Carried
<1>5. CASE status = "Split" /\ Open(escrows[d])
  <2>1. PICK caller \in Users, share \in Shares :
            resolve_dispute_split(caller, d, share)
    BY <1>2, <1>5 DEF Carried
  <2>2. share <= BasisPoints /\ BothGain(escrows[d], share)
    BY <1>2, <2>1, BothHaveTheirPart, EscrowAssumption
       DEF resolve_dispute_split
  <2>3. QED
    BY <1>2, <1>5, <2>2
<1>6. CASE status = "Split" /\ ~ Open(escrows[d])
  BY <1>2, <1>6 DEF Carried
<1>7. QED
  BY <1>2, <1>3, <1>4, <1>5, <1>6 DEF Carried

\* With a fee of at most 100%, a verdict of the dispute contract moves the
\* money it names, completely, in the step in which it is given, and a split
\* that comes too late moves none.
THEOREM VerdictsArePaid == ASSUME FeeWithinWhole PROVE Spec => VerdictsMoveMoney
<1>1. CasesAreSound /\ Funded /\ [Next]_vars => [VerdictStep]_vars
  BY VerdictStepHolds DEF Funded
<1>2. QED
  BY <1>1, AlwaysSound, SystemCallsEscrow, AlwaysFunded, PTL
     DEF Spec, VerdictsMoveMoney

\* And so does the end of a delivery, in the whole system.
THEOREM SystemEndsArePaid == ASSUME FeeWithinWhole PROVE Spec => EndsMoveMoney
BY SystemCallsDelivery, EndsArePaid, PTL

-----------------------------------------------------------------------------
(* The time limit, in a system that its deployer initialised: an id refers *)
(* to one delivery only, and the limit is the one the deployer chose.      *)

LEMMA DeployedSound == DeployedSpec => [](CasesAreSound /\ Numbered)
<1>1. DeployedSpec => []CasesAreSound
  BY InitialCases, CasesStaySound, PTL DEF DeployedSpec
<1>2. QED
  BY <1>1, DeployedCallsDelivery, AlwaysNumbered, PTL

LEMMA DeployedAgrees == DeployedSpec => []StatusAgreement
<1>1. (\E admin \in Users : DeliveryDeployed(admin)) => StatusAgreement
  BY DEF DeliveryDeployed, DeliveryEmpty, StatusAgreement, Known
<1>2. QED
  BY <1>1, AgreementIsKept, DeployedCallsDelivery, DeployedTypeCorrect, PTL
     DEF DeployedDeliverySpec

ConfirmedInThePast ==
    \A d \in DeliveryIds :
        Known(d) /\ deliveries[d].status = "Delivered"
            => deliveries[d].delivered_at \in 0 .. now

LEMMA ClockRuns ==
    ASSUME DeliveryTypeOK, EscrowTypeOK, [DeliveryNext]_deliveryVars
    PROVE  now \in Nat /\ now' \in Nat /\ now' >= now
BY KindsOfSteps DEF NoDeliveryMoves, Initialisation, Creation, Assignment,
   Advance, Confirmation, DeliveryTypeOK

LEMMA PastIsKept ==
    ASSUME DeliveryTypeOK, EscrowTypeOK, Numbered, ConfirmedInThePast,
           [DeliveryNext]_deliveryVars
    PROVE  ConfirmedInThePast'
<1>1. ASSUME NEW d \in DeliveryIds, Known(d), deliveries[d].status = "Delivered"
      PROVE  deliveries'[d].delivered_at \in 0 .. now'
  <2>1. deliveries'[d] = deliveries[d]
    BY <1>1, DeliveryStepHolds DEF DeliveryStep
  <2>2. QED
    BY <1>1, <2>1, ClockRuns DEF ConfirmedInThePast
<1>2. ASSUME NEW d \in DeliveryIds, Known(d)',
             deliveries'[d].status = "Delivered",
             Known(d) => deliveries[d].status # "Delivered"
      PROVE  deliveries'[d].delivered_at \in 0 .. now'
  <2>1. deliveries'[d] # deliveries[d]
    BY <1>2 DEF Known
  <2>2. Confirmation(d)
    BY <1>2, <2>1, KindsOfSteps, CreationIsVisible, AssignmentIsVisible,
       AdvanceIsVisible, ConfirmationIsVisible
       DEF NoDeliveryMoves, Initialisation, deliveryOnlyVars, RecordBecomes
  <2>3. deliveries'[d] = Moved(d, "Delivered", deliveries[d].driver, now)
    BY <2>2, ConfirmationIsVisible
  <2>4. deliveries'[d].delivered_at = now
    BY <2>3, MovedFields
  <2>5. QED
    BY <2>4, ClockRuns
<1>3. QED
  BY <1>1, <1>2 DEF ConfirmedInThePast

LEMMA DisputedEndsCancelled ==
    ASSUME DeliveryTypeOK, EscrowTypeOK, StatusAgreement, Numbered,
           [DeliveryNext]_deliveryVars, NEW d \in DeliveryIds, Known(d),
           deliveries[d].status = "Disputed"
    PROVE  deliveries'[d].status \in {"Disputed", "Cancelled"}
<1>1. CASE deliveries'[d] = deliveries[d]
  BY <1>1
<1>2. ASSUME NEW e \in DeliveryIds, NEW driver \in Users, Assignment(e, driver)
      PROVE  deliveries'[d] = deliveries[d]
  <2>1. e # d
    BY <1>2, TransitionsGoOn DEF Assignment
  <2>2. QED
    BY <1>2, <2>1, AssignmentIsVisible
<1>3. ASSUME NEW e \in DeliveryIds,
             NEW status \in {"InTransit", "Cancelled", "Disputed"},
             Advance(e, status)
      PROVE  deliveries'[d].status \in {"Disputed", "Cancelled"}
  <2>1. CASE e = d
    <3>1. status # "InTransit"
      BY <1>3, <2>1 DEF Advance, MayBecome, validate_transition, Transitions
    <3>2. QED
      BY <1>3, <2>1, <3>1, AdvanceIsVisible DEF RecordBecomes
  <2>2. CASE e # d
    BY <1>3, <2>2, AdvanceIsVisible
  <2>3. QED
    BY <2>1, <2>2
<1>4. ASSUME NEW e \in DeliveryIds, Confirmation(e)
      PROVE  deliveries'[d] = deliveries[d]
  <2>1. e # d
    BY <1>4, ConfirmationStepHolds, ConfirmationIsVisible DEF RecordBecomes
  <2>2. QED
    BY <1>4, <2>1, ConfirmationIsVisible
<1>5. ASSUME NEW id \in DeliveryIds, NEW sender \in Users,
             NEW recipient \in Users, Creation(id, sender, recipient)
      PROVE  deliveries'[d] = deliveries[d]
  <2>1. id # d
    BY <1>5, DeliveryIdsAreNumbers DEF Creation, Numbered, DeliveryTypeOK
  <2>2. QED
    BY <1>5, <2>1, CreationIsVisible
<1>6. CASE NoDeliveryMoves \/ Initialisation
  BY <1>1, <1>6 DEF NoDeliveryMoves, Initialisation, deliveryOnlyVars
<1>7. QED
  BY <1>1, <1>2, <1>3, <1>4, <1>5, <1>6, KindsOfSteps

\* What makes CasesAreTimely inductive.
Timely ==
    /\ DisputeInitialised
    /\ ConfirmedInThePast
    /\ \A d \in DeliveryIds : CaseExists(d) => Known(d)
    /\ CasesAreTimely

\* The conditions of CasesAreTimely on one case.
InTime(delivery, case, limit) ==
    /\ delivery.status \in {"Delivered", "Disputed", "Cancelled"}
    /\ delivery.status = "Delivered" =>
          case.raised_at \in delivery.delivered_at ..
              delivery.delivered_at + limit

LEMMA TimelyIsKept ==
    ASSUME CasesAreSound, StatusAgreement, Numbered, Timely, [Next]_vars
    PROVE  Timely'
<1> USE DEF CasesAreSound, TypeOK
<1>1. [DeliveryNext]_deliveryVars /\ DeliveryStep
  BY StepIsDeliveryStep, DeliveryStepHolds
<1>2. DisputeInitialised' /\ UNCHANGED timeLimit
  BY KindsOfCaseSteps
     DEF Timely, NoCaseMoves, Raising, Documenting, Deciding, DisputeInitialised
<1>3. ConfirmedInThePast'
  BY <1>1, PastIsKept DEF Timely
<1>4. ASSUME NEW d \in DeliveryIds, CaseExists(d)
      PROVE  Known(d)' /\ InTime(deliveries'[d], disputes'[d], timeLimit)
  <2>1. /\ Known(d) /\ InTime(deliveries[d], disputes[d], timeLimit)
        /\ disputes'[d].raised_at = disputes[d].raised_at
    BY <1>4, CasesFollow DEF Timely, CasesAreTimely, InTime, Follows
  <2>2. Known(d)'
    BY <1>1, <2>1 DEF DeliveryStep, Known
  <2>3. CASE deliveries[d].status \in {"Delivered", "Cancelled"}
    <3>1. deliveries'[d] = deliveries[d]
      BY <1>1, <2>1, <2>3 DEF DeliveryStep
    <3>2. QED
      BY <2>1, <2>2, <3>1 DEF InTime
  <2>4. CASE deliveries[d].status = "Disputed"
    BY <1>1, <2>1, <2>2, <2>4, DisputedEndsCancelled DEF InTime
  <2>5. QED
    BY <2>1, <2>3, <2>4 DEF InTime
<1>5. ASSUME NEW d \in DeliveryIds, CaseExists(d)', ~ CaseExists(d)
      PROVE  Known(d)' /\ InTime(deliveries'[d], disputes'[d], timeLimit)
  <2>1. PICK caller \in Users : Raising(d, caller)
    BY <1>5, KindsOfCaseSteps, RaisingIsVisible, DocumentingIsVisible,
       DecidingIsVisible
       DEF NoCaseMoves, Documenting, Deciding, CaseExists
  <2>2. Known(d)' /\ disputes'[d].raised_at = now
    BY <1>1, <2>1, RaisingIsVisible DEF Raising, DeliveryStep, Known
  <2>3. CASE /\ deliveries[d].status = "Delivered" /\ WithinWindow(d)
             /\ UNCHANGED deliveries
    <3>1. /\ deliveries[d].delivered_at \in 0 .. now
          /\ now \in Nat /\ timeLimit \in Nat
          /\ now <= deliveries[d].delivered_at + timeLimit
      BY <2>1, <2>3 DEF Timely, ConfirmedInThePast, Raising, WithinWindow,
         DeliveryTypeOK, DisputeTypeOK, DisputeInitialised
    <3>2. now \in deliveries[d].delivered_at ..
                      deliveries[d].delivered_at + timeLimit
      BY <3>1
    <3>3. QED
      BY <2>2, <2>3, <3>2 DEF InTime
  <2>4. CASE deliveries'[d].status = "Disputed"
    BY <2>2, <2>4 DEF InTime
  <2>5. QED
    BY <2>1, <2>3, <2>4 DEF Raising
<1>6. CasesAreTimely'
  BY <1>2, <1>4, <1>5 DEF CasesAreTimely, InTime
<1>7. QED
  BY <1>2, <1>3, <1>4, <1>5, <1>6 DEF Timely

\* In a system that its deployer initialised, a case about a confirmed
\* delivery was raised within the time limit after the confirmation, and a
\* delivery with any other case never becomes a confirmed one.
THEOREM CasesAreRaisedInTime == DeployedSpec => []CasesAreTimely
<1>1. DeployedInit => Timely
  <2> SUFFICES ASSUME DeployedInit PROVE Timely
    OBVIOUS
  <2>1. /\ timeLimit \in Nat
        /\ \A d \in DeliveryIds : ~ CaseExists(d) /\ ~ Known(d)
    BY DisputeAssumption DEF DeployedInit, DisputeEmpty, CaseExists,
       DeliveryDeployed, DeliveryEmpty, Known
  <2>2. timeLimit # None
    BY <2>1, NoneIsNoDelivery
  <2>3. QED
    BY <2>1, <2>2 DEF Timely, DisputeInitialised, ConfirmedInThePast,
       CasesAreTimely
<1>2. Timely => CasesAreTimely
  BY DEF Timely
<1>3. QED
  BY <1>1, <1>2, TimelyIsKept, DeployedSound, DeployedAgrees, PTL
     DEF DeployedSpec

-----------------------------------------------------------------------------
(* The same system with its deployer's fee and admin in place: it starts   *)
(* where no behaviour of EscrowSpec or DeliverySpec does, so what was      *)
(* shown of those does not carry over; the invariants behind it do.        *)

LEMMA DeployedCallsEscrow == DeployedSpec => [][EscrowNext]_escrowVars
BY StepIsEscrowStep, PTL DEF DeployedSpec

LEMMA DeploymentIsFunded == ASSUME FeeWithinWhole PROVE DeployedInit => Funded
<1> SUFFICES ASSUME NEW admin \in Users, DeliveryDeployed(admin)
             PROVE  Funded
  BY DEF DeployedInit
<1>1. EscrowTypeOK
  BY DeliveryInitIsTyped
<1>2. FeeBounded
  BY DEF DeliveryDeployed, FeeWithinWhole, FeeBounded
<1>3. Covered
  BY NothingIsCovered DEF DeliveryDeployed
<1>4. QED
  BY <1>1, <1>2, <1>3 DEF Funded

\* In a deployed system with a fee of at most 100%, all escrows that are not
\* settled can at every moment be paid together, none can be kept from being
\* settled for want of money, and every call moves what it settles.
THEOREM DeployedFundsAreSafe ==
    ASSUME FeeWithinWhole
    PROVE  DeployedSpec => /\ []Solvency
                           /\ []SettlementsAreCovered
                           /\ CustodyMatchesClaims
<1>1. Funded => Solvency /\ SettlementsAreCovered
  BY CoverIsSolvency, CoverIsEnough DEF Funded
<1>2. QED
  BY <1>1, DeploymentIsFunded, FundsAreKept, DeployedCallsEscrow, PTL
     DEF DeployedSpec, CustodyMatchesClaims

\* The three contracts of a deployed system tell the same story of every
\* delivery: its status and its case fit what happened to its payment, which
\* happens once, is final, and is never a release behind a dispute's back.
THEOREM DeployedTellsOneStory ==
    DeployedSpec => /\ []StatusAgreement
                    /\ []CaseFreezesEscrow
                    /\ []CaseOutcomeMatchesEscrow
                    /\ []DisputeMarks
                    /\ SettledOnce
                    /\ VerdictsAreFinal
                    /\ DisputeBlocksConfirmation
<1>1. DeployedInit => CaseOutcomeMatchesEscrow /\ DisputeMarks
  BY DEF DeployedInit, DisputeEmpty, CaseOutcomeMatchesEscrow, CaseExists,
     DeliveryDeployed, DisputeMarks, Exists
<1>2. CasesAreSound /\ [Next]_vars => [CaseStep]_vars
  BY CasesFollow DEF CasesAreSound, CaseStep, Follows
<1>3. CasesAreSound => EscrowTypeOK /\ DeliveryTypeOK /\ CaseFreezesEscrow
  BY DEF CasesAreSound, TypeOK
<1>4. EscrowTypeOK /\ [EscrowNext]_escrowVars => [RecordStep]_escrowVars
  BY RecordsAreKept
<1>5. EscrowTypeOK /\ DisputeMarks /\ [EscrowNext]_escrowVars => DisputeMarks'
  BY MarksAreKept
<1>6. DeliveryTypeOK /\ EscrowTypeOK /\ StatusAgreement
          /\ [DeliveryNext]_deliveryVars => [ConfirmationStep]_deliveryVars
  BY ConfirmationStepHolds DEF ConfirmationStep
<1>7. QED
  BY <1>1, <1>2, <1>3, <1>4, <1>5, <1>6, OutcomeIsKept, DeployedSound,
     DeployedAgrees, DeployedCallsEscrow, StepIsDeliveryStep, PTL
     DEF DeployedSpec, SettledOnce, VerdictsAreFinal, DisputeBlocksConfirmation

\* The money of a deployed system moves as its deliveries end and its
\* verdicts fall, when the deployer's fee is at most 100%.
THEOREM DeployedEndsAndVerdictsArePaid ==
    ASSUME FeeWithinWhole
    PROVE  DeployedSpec => EndsMoveMoney /\ VerdictsMoveMoney
<1>1. CasesAreSound /\ Funded /\ [Next]_vars => [VerdictStep]_vars
  BY VerdictStepHolds DEF Funded
<1>2. CasesAreSound /\ Funded /\ [Next]_vars => [EndStep]_deliveryVars
  BY StepIsDeliveryStep, EndStepHolds DEF CasesAreSound, TypeOK, Funded
<1>3. QED
  BY <1>1, <1>2, DeployedSound, DeploymentIsFunded, FundsAreKept,
     DeployedCallsEscrow, PTL
     DEF DeployedSpec, EndsMoveMoney, VerdictsMoveMoney

-----------------------------------------------------------------------------
(* Where a dispute ends.                                                   *)

LEMMA SettledDisputeStays ==
    ASSUME CasesAreSound, Numbered, StatusAgreement, [Next]_vars,
           NEW d \in DeliveryIds, Known(d), deliveries[d].status = "Disputed",
           Exists(d), ~ Open(escrows[d])
    PROVE  deliveries'[d] = deliveries[d] /\ escrows'[d] = escrows[d]
<1> USE DEF CasesAreSound, TypeOK
<1>1. [DeliveryNext]_deliveryVars
  BY StepIsDeliveryStep
<1>2. escrows'[d] = escrows[d]
  BY StepIsEscrowStep, RecordsAreKept DEF RecordStep
<1>3. deliveries'[d] = deliveries[d]
  <2>1. ASSUME NEW e \in DeliveryIds, NEW driver \in Users,
               Assignment(e, driver)
        PROVE  deliveries'[d] = deliveries[d]
    <3>1. e # d
      BY <2>1, TransitionsGoOn DEF Assignment
    <3>2. QED
      BY <2>1, <3>1, AssignmentIsVisible
  <2>2. ASSUME NEW e \in DeliveryIds,
               NEW status \in {"InTransit", "Cancelled", "Disputed"},
               Advance(e, status)
        PROVE  deliveries'[d] = deliveries[d]
    <3>1. e # d
      BY <2>2 DEF Advance, MayBecome, validate_transition, Transitions, Open
    <3>2. QED
      BY <2>2, <3>1, AdvanceIsVisible
  <2>3. ASSUME NEW e \in DeliveryIds, Confirmation(e)
        PROVE  deliveries'[d] = deliveries[d]
    <3>1. e # d
      BY <2>3 DEF Confirmation, StatusAgreement, AgreesWithEscrow
    <3>2. QED
      BY <2>3, <3>1, ConfirmationIsVisible
  <2>4. ASSUME NEW id \in DeliveryIds, NEW sender \in Users,
               NEW recipient \in Users, Creation(id, sender, recipient)
        PROVE  deliveries'[d] = deliveries[d]
    <3>1. id # d
      BY <2>4, DeliveryIdsAreNumbers DEF Creation, Numbered, DeliveryTypeOK
    <3>2. QED
      BY <2>4, <3>1, CreationIsVisible
  <2>5. CASE NoDeliveryMoves \/ Initialisation
    BY <2>5 DEF NoDeliveryMoves, Initialisation, deliveryOnlyVars
  <2>6. QED
    BY <1>1, <2>1, <2>2, <2>3, <2>4, <2>5, KindsOfSteps
<1>4. QED
  BY <1>2, <1>3

\* In a deployed system a dispute that was settled, by a verdict or by a
\* direct call, stays what it is for ever: cancel_delivery, the only way out
\* that a dispute leaves open, needs the escrow that is gone.
THEOREM SettledDisputesStay == DeployedSpec => SettledDisputesRest
<1>1. CasesAreSound /\ Numbered /\ StatusAgreement /\ [Next]_vars
          => [SettledDisputeStep]_vars
  BY SettledDisputeStays DEF SettledDisputeStep
<1>2. QED
  BY <1>1, DeployedSound, DeployedAgrees, PTL
     DEF DeployedSpec, SettledDisputesRest

\* What it takes to close an open case, money and statuses: its escrow is
\* Paused and every verdict on it can be paid, or it is settled, and then a
\* split closes the case without paying anything.
CaseCanBeClosed(d) ==
    /\ Exists(d)
    /\ escrows[d].status = "Paused" => Covers(escrows[d])
    /\ escrows[d].status # "Paused" => ~ Open(escrows[d])

\* With a fee of at most 100%, no open case is ever out of reach of a verdict:
\* neither the state of its escrow nor the balance the escrows share stands
\* in the way of an admin of both contracts who closes it.
THEOREM CasesCanAlwaysBeClosed ==
    ASSUME FeeWithinWhole
    PROVE  (Spec \/ DeployedSpec) =>
               [](\A d \in DeliveryIds : CaseExists(d) => CaseCanBeClosed(d))
<1> DEFINE Closable == \A d \in DeliveryIds :
                          CaseExists(d) => CaseCanBeClosed(d)
<1>1. CasesAreSound /\ Funded => Closable
  <2> SUFFICES ASSUME CasesAreSound, Funded, NEW d \in DeliveryIds, CaseExists(d)
               PROVE  CaseCanBeClosed(d)
    OBVIOUS
  <2>1. SettlementsAreCovered
    BY CoverIsEnough DEF Funded
  <2>2. Exists(d) /\ escrows[d].status # "Locked"
    BY DEF CasesAreSound, CaseFreezesEscrow
  <2>3. QED
    BY <2>1, <2>2 DEF SettlementsAreCovered, CaseCanBeClosed, Open, Exists
<1> HIDE DEF Closable
<1>2. Spec => []Funded
  BY SystemCallsEscrow, AlwaysFunded, PTL
<1>3. DeployedSpec => []Funded
  BY DeploymentIsFunded, FundsAreKept, DeployedCallsEscrow, PTL DEF DeployedSpec
<1>4. (Spec \/ DeployedSpec) => []Closable
  BY <1>1, <1>2, <1>3, AlwaysSound, DeployedSound, PTL
<1>5. QED
  BY <1>4 DEF Closable
=============================================================================
