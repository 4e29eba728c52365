-------------------------- MODULE RefinementProofs --------------------------
(***************************************************************************)
(* escrow_contract implements EscrowPromise, for every set of users,       *)
(* tokens and deliveries and for every amount, fee and share.              *)
(***************************************************************************)
EXTENDS EscrowRefinement, EscrowProofs

-----------------------------------------------------------------------------
(* Payments of the contract are movements between purses.                  *)

LEMMA MovedIsPaid ==
    ASSUME NEW b, NEW t, NEW from, NEW to, NEW n
    PROVE  Promise!Moved(b, t, from, to, n) = Pay(b, t, from, to, n)
BY DEF Promise!Moved, Pay

LEMMA NothingMoves ==
    ASSUME NEW b \in Ledgers, NEW t \in Tokens, NEW from \in Accounts,
           NEW to \in Accounts
    PROVE  Promise!Moved(b, t, from, to, 0) = b
<1> DEFINE taken == [b EXCEPT ![t][from] = @ - 0]
<1>1. b[t] \in [Accounts -> Nat] /\ b[t][from] - 0 = b[t][from]
  BY DEF Ledgers
<1>2. taken = b
  <2>1. [b[t] EXCEPT ![from] = @ - 0] = b[t]
    BY <1>1
  <2>2. QED
    BY <2>1 DEF Ledgers
<1>3. b[t][to] + 0 = b[t][to]
  BY <1>1
<1>4. [b EXCEPT ![t][to] = @ + 0] = b
  <2>1. [b[t] EXCEPT ![to] = @ + 0] = b[t]
    BY <1>1, <1>3
  <2>2. QED
    BY <2>1 DEF Ledgers
<1>5. QED
  BY <1>2, <1>4 DEF Promise!Moved

LEMMA PaidOutIsMoved ==
    ASSUME NEW b \in Ledgers, NEW t \in Tokens, NEW to \in Users, NEW n \in Nat
    PROVE  PayOut(b, t, to, n) = Promise!Moved(b, t, EscrowAddress, to, n)
<1>1. CASE n > 0
  BY <1>1, MovedIsPaid DEF PayOut
<1>2. CASE n = 0
  BY <1>2, NothingMoves, EscrowIsAccount DEF PayOut
<1>3. QED
  BY <1>1, <1>2

-----------------------------------------------------------------------------
(* The mapping of the records.                                             *)

Deals == [d \in DeliveryIds |-> DealOf(escrows[d])]
Phases == [d \in DeliveryIds |-> PhaseOf(escrows[d])]

LEMMA DealOfRecord ==
    ASSUME EscrowTypeOK, NEW d \in DeliveryIds, Exists(d)
    PROVE  /\ Deals[d].sender = escrows[d].sender
           /\ Deals[d].driver = escrows[d].driver
           /\ Deals[d].coin = escrows[d].token
           /\ Deals[d].amount = escrows[d].amount
BY DEF Deals, DealOf, Exists

\* One record changes: so do its deal and its phase.
LEMMA OneRecordChanges ==
    ASSUME NEW d \in DeliveryIds, NEW r,
           escrows \in [DeliveryIds -> EscrowRecord \union {None}],
           escrows' = [escrows EXCEPT ![d] = r]
    PROVE  /\ Deals' = [Deals EXCEPT ![d] = DealOf(r)]
           /\ Phases' = [Phases EXCEPT ![d] = PhaseOf(r)]
BY DEF Deals, Phases

\* A change of status is one of the phase, and not of the deal.
LEMMA StatusChangesPhase ==
    ASSUME EscrowTypeOK, NEW d \in DeliveryIds, Exists(d), NEW s \in EscrowStatus,
           NEW by \in Users \union {None},
           escrows' = [escrows EXCEPT ![d] =
               [escrows[d] EXCEPT !.status = s, !.disputed_by = by]]
    PROVE  /\ Deals' = Deals
           /\ Phases' = [Phases EXCEPT ![d] =
                  IF s \in {"Locked", "Paused"} THEN "held"
                  ELSE IF s = "Released" THEN "released" ELSE "refunded"]
<1> DEFINE r == escrows[d]
           q == [r EXCEPT !.status = s, !.disputed_by = by]
<1>1. r \in EscrowRecord
  BY RecordIsTyped
<1>2. /\ q \in EscrowRecord /\ q.status = s
      /\ q.sender = r.sender /\ q.driver = r.driver
      /\ q.token = r.token /\ q.amount = r.amount
  BY <1>1 DEF EscrowRecord
<1>3. escrows' = [escrows EXCEPT ![d] = q]
  OBVIOUS
<1> HIDE DEF q
<1>4. DealOf(q) = DealOf(r)
  BY <1>1, <1>2, NoneIsNoEscrow DEF DealOf
<1>5. PhaseOf(q) = IF s \in {"Locked", "Paused"} THEN "held"
                   ELSE IF s = "Released" THEN "released" ELSE "refunded"
  BY <1>2, NoneIsNoEscrow DEF PhaseOf, Open
<1>6. Deals[d] = DealOf(r) /\ [Deals EXCEPT ![d] = Deals[d]] = Deals
  BY DEF Deals
<1>7. /\ Deals' = [Deals EXCEPT ![d] = DealOf(q)]
      /\ Phases' = [Phases EXCEPT ![d] = PhaseOf(q)]
  BY <1>3, OneRecordChanges DEF EscrowTypeOK
<1>8. QED
  BY <1>4, <1>5, <1>6, <1>7

LEMMA SettlingChangesPhase ==
    ASSUME EscrowTypeOK, NEW d \in DeliveryIds, Exists(d), Open(escrows[d]),
           NEW s \in EscrowStatus, SetStatus(d, s)
    PROVE  /\ Deals' = Deals
           /\ Phases[d] = "held"
           /\ Phases' = [Phases EXCEPT ![d] =
                  IF s \in {"Locked", "Paused"} THEN "held"
                  ELSE IF s = "Released" THEN "released" ELSE "refunded"]
<1>1. escrows[d].disputed_by \in Users \union {None}
  BY RecordIsTyped DEF EscrowRecord
<1>2. [escrows[d] EXCEPT !.status = s] = [escrows[d] EXCEPT !.status = s,
                                   !.disputed_by = escrows[d].disputed_by]
  BY RecordIsTyped DEF EscrowRecord
<1>3. escrows' = [escrows EXCEPT ![d] = [escrows[d] EXCEPT !.status = s,
                                   !.disputed_by = escrows[d].disputed_by]]
  BY <1>2 DEF SetStatus
<1>4. Phases[d] = "held"
  BY DEF Phases, PhaseOf, Open
<1>5. QED
  BY <1>1, <1>3, <1>4, StatusChangesPhase

-----------------------------------------------------------------------------
(* Handler by handler.                                                     *)

PromiseStep == [Promise!PromiseNext]_(Promise!promiseVars)

FeeCapped == feeBps <= FeeCap /\ FeeBounded

LEMMA FeeStaysCapped ==
    ASSUME FeeWithinWhole, FeeCapped, [EscrowNext]_escrowVars
    PROVE  FeeCapped'
<1>1. FeeBounded'
  BY FeeStaysBounded DEF FeeCapped
<1>2. \/ \E bps \in InitFees : feeBps' = bps
      \/ \E bps \in NewFees : bps <= 1000 /\ feeBps' = bps
      \/ feeBps' = feeBps
  <2>1. CASE EscrowAdministration
    BY <2>1 DEF EscrowAdministration, escrow_init, update_platform_fee,
       propose_admin, accept_admin
  <2>2. CASE EscrowLifecycleCalls
    BY <2>2 DEF EscrowLifecycleCalls, create_escrow, release_escrow,
       refund_escrow, escrow_raise_dispute, resolve_dispute,
       resolve_dispute_split, freeze_funds
  <2>3. CASE UserTransfers \/ UNCHANGED escrowVars
    BY <2>3 DEF UserTransfers, token_transfer, escrowVars
  <2>4. QED
    BY <2>1, <2>2, <2>3 DEF EscrowNext
<1>3. feeBps' <= FeeCap
  BY <1>2, FeeCapAssumption, EscrowAssumption DEF FeeCapped
<1>4. QED
  BY <1>1, <1>3 DEF FeeCapped

LEMMA FundingIsFund ==
    ASSUME EscrowTypeOK, NEW d \in DeliveryIds, NEW sender \in Users,
           NEW recipient \in Users, NEW driver \in Users, NEW c \in Tokens,
           NEW n \in Amounts,
           create_escrow(sender, recipient, driver, d, c, n)
    PROVE  PromiseStep
<1> DEFINE r == [sender |-> sender, recipient |-> recipient, driver |-> driver,
                 token |-> c, amount |-> n, status |-> "Locked",
                 disputed_by |-> None]
<1>1. /\ ~ Exists(d)
      /\ n \in Nat /\ n <= balance[c][sender] /\ balance[c][sender] \in Nat
      /\ escrows' = [escrows EXCEPT ![d] = r]
  BY EscrowIsAccount, EscrowAssumption
     DEF create_escrow, CanPay, EscrowTypeOK
<1>2. r \in EscrowRecord /\ r # None
  BY <1>1, NoneIsNoEscrow DEF EscrowRecord, EscrowStatus
<1>3. PhaseOf(r) = "held"
  BY <1>2 DEF PhaseOf, Open
<1>4. DealOf(r) = [sender |-> sender, driver |-> driver, coin |-> c, amount |-> n]
  BY <1>2 DEF DealOf
<1>5. Phases[d] = "none"
  BY <1>1 DEF Phases, PhaseOf, Open, Exists
<1> HIDE DEF r
<1>6. /\ Deals' = [Deals EXCEPT ![d] = DealOf(r)]
      /\ Phases' = [Phases EXCEPT ![d] = "held"]
  <2>1. /\ Deals' = [Deals EXCEPT ![d] = DealOf(r)]
        /\ Phases' = [Phases EXCEPT ![d] = PhaseOf(r)]
    BY <1>1, OneRecordChanges DEF EscrowTypeOK
  <2>2. QED
    BY <1>3, <2>1
<1>7. balance' = Promise!Moved(balance, c, sender, EscrowAddress, n)
  BY MovedIsPaid DEF create_escrow
<1>8. n \in 0 .. balance[c][sender]
  BY <1>1
<1>9. Promise!Fund(d, sender, driver, c, n)
  BY <1>4, <1>5, <1>6, <1>7, <1>8 DEF Promise!Fund, Deals, Phases
<1>10. QED
  BY <1>8, <1>9 DEF PromiseStep, Promise!PromiseNext

LEMMA RefundIsRefund ==
    ASSUME EscrowTypeOK, NEW d \in DeliveryIds, Exists(d), Open(escrows[d]),
           PaySender(escrows[d]), SetStatus(d, "Refunded")
    PROVE  PromiseStep
<1> DEFINE r == escrows[d]
<1>1. /\ r.sender \in Users /\ r.driver \in Users
      /\ r.token \in Tokens /\ r.amount \in Nat /\ balance \in Ledgers
  BY RecordIsTyped DEF EscrowTypeOK, Ledgers
<1>2. balance' = Promise!Moved(balance, r.token, EscrowAddress, r.sender, r.amount)
  BY MovedIsPaid DEF PaySender
<1>3. balance' \in Ledgers
  BY SenderIsPaid
<1>4. balance' = Promise!Moved(balance', r.token, EscrowAddress, r.driver,
                               r.amount - r.amount)
  BY <1>1, <1>3, NothingMoves, EscrowIsAccount
<1>5. Promise!PaidOut(d, r.sender, r.amount, r.driver)
  BY <1>2, <1>4, DealOfRecord DEF Promise!PaidOut, Deals
<1>6. /\ Deals' = Deals /\ Phases[d] = "held"
      /\ Phases' = [Phases EXCEPT ![d] = "refunded"]
  BY SettlingChangesPhase DEF EscrowStatus
<1>7. Promise!Refund(d, r.amount)
  BY <1>5, <1>6, DealOfRecord DEF Promise!Refund, Deals, Phases
<1>8. r.amount \in 0 .. Deals[d].amount
  BY <1>1, DealOfRecord
<1>9. QED
  BY <1>6, <1>7, <1>8 DEF PromiseStep, Promise!PromiseNext, Deals, Phases

LEMMA SplitIsRefund ==
    ASSUME EscrowTypeOK, NEW d \in DeliveryIds, NEW caller, NEW share \in Nat,
           resolve_dispute_split(caller, d, share)
    PROVE  PromiseStep
<1> DEFINE r == escrows[d]
           part == sender_amount(r, share)
           senderPaid == PayOut(balance, r.token, r.sender, part)
<1>1. /\ Exists(d) /\ Open(r) /\ SetStatus(d, "Refunded")
      /\ share <= BasisPoints
      /\ CanPayOut(balance, r.token, part)
      /\ balance' = PayOut(senderPaid, r.token, r.driver, r.amount - part)
  BY DEF resolve_dispute_split, CanPayParts, PayParts, SenderPaid, driver_part,
     Open, Exists
<1>2. /\ r.sender \in Users /\ r.driver \in Users
      /\ r.token \in Tokens /\ r.amount \in Nat /\ balance \in Ledgers
  BY <1>1, RecordIsTyped DEF EscrowTypeOK, Ledgers
<1>3. part \in 0 .. r.amount
  BY <1>1, <1>2, ShareWithinAmount DEF sender_amount
<1>4. senderPaid \in Ledgers
  BY <1>1, <1>2, <1>3, PayOutKeepsLedgers
<1>5. /\ senderPaid =
             Promise!Moved(balance, r.token, EscrowAddress, r.sender, part)
      /\ balance' = Promise!Moved(senderPaid, r.token, EscrowAddress, r.driver,
                                  r.amount - part)
  BY <1>1, <1>2, <1>3, <1>4, PaidOutIsMoved
<1>6. Promise!PaidOut(d, r.sender, part, r.driver)
  BY <1>1, <1>5, DealOfRecord DEF Promise!PaidOut, Deals
<1>7. /\ Deals' = Deals /\ Phases[d] = "held"
      /\ Phases' = [Phases EXCEPT ![d] = "refunded"]
  BY <1>1, SettlingChangesPhase DEF EscrowStatus
<1>8. Promise!Refund(d, part)
  BY <1>1, <1>6, <1>7, DealOfRecord DEF Promise!Refund, Deals, Phases
<1>9. part \in 0 .. Deals[d].amount
  BY <1>1, <1>3, DealOfRecord
<1>10. QED
  BY <1>7, <1>8, <1>9 DEF PromiseStep, Promise!PromiseNext, Deals, Phases

\* A fee within the cap, also where the multiplication saturates.
LEMMA FeeWithinCap ==
    ASSUME NEW n \in Nat, feeBps \in Nat, FeeCapped
    PROVE  /\ calculate_fee(n, feeBps) \in 0 .. n
           /\ calculate_fee(n, feeBps) * 10000 <= n * FeeCap
<1>1. calculate_fee(n, feeBps) \in 0 .. n
  BY ShareWithinAmount DEF FeeCapped, FeeBounded, calculate_fee
<1>2. n * feeBps \in Nat /\ n * feeBps <= n * FeeCap /\ n * FeeCap \in Nat
  BY FeeCapAssumption DEF FeeCapped
<1>3. SaturatingMul(n, feeBps) \in Nat /\ SaturatingMul(n, feeBps) <= n * FeeCap
  BY <1>2, EscrowAssumption DEF SaturatingMul
<1>4. QED
  BY <1>1, <1>2, <1>3 DEF calculate_fee, BasisPoints

LEMMA PaymentIsRelease ==
    ASSUME EscrowTypeOK, FeeCapped, EscrowInitialised, NEW d \in DeliveryIds,
           Exists(d), Open(escrows[d]), CanPayDriverAndFee(escrows[d]),
           PayDriverAndFee(escrows[d]), SetStatus(d, "Released")
    PROVE  PromiseStep
<1> DEFINE r == escrows[d]
           fee == calculate_fee(r.amount, feeBps)
<1>1. /\ r.driver \in Users /\ r.token \in Tokens /\ r.amount \in Nat
      /\ escrowAdmin \in Users /\ balance \in Ledgers /\ feeBps \in Nat
  BY RecordIsTyped DEF EscrowTypeOK, EscrowInitialised, Ledgers
<1>2. fee \in 0 .. r.amount /\ fee * 10000 <= r.amount * FeeCap
  BY <1>1, FeeWithinCap
<1>3. driver_amount(r) = r.amount - fee /\ r.amount - fee \in Nat
  BY <1>1, <1>2 DEF driver_amount
<1>4. DriverPaid(r) \in Ledgers
  BY <1>1, <1>3, PayOutKeepsLedgers DEF CanPayDriverAndFee, DriverPaid
<1>5. DriverPaid(r) = Promise!Moved(balance, r.token, EscrowAddress, r.driver,
                                    r.amount - fee)
  BY <1>1, <1>3, PaidOutIsMoved DEF DriverPaid
<1>6. balance' = Promise!Moved(DriverPaid(r), r.token, EscrowAddress,
                               escrowAdmin, r.amount - (r.amount - fee))
  <2>1. r.amount - (r.amount - fee) = fee /\ fee \in Nat
    BY <1>1, <1>2
  <2>2. balance' = PayOut(DriverPaid(r), r.token, escrowAdmin, fee)
    BY DEF PayDriverAndFee
  <2> HIDE DEF fee
  <2>3. QED
    BY <1>1, <1>4, <2>1, <2>2, PaidOutIsMoved
<1>7. Promise!PaidOut(d, r.driver, r.amount - fee, escrowAdmin)
  BY <1>5, <1>6, DealOfRecord DEF Promise!PaidOut, Deals
<1>8. /\ Deals' = Deals /\ Phases[d] = "held"
      /\ Phases' = [Phases EXCEPT ![d] = "released"]
  BY SettlingChangesPhase DEF EscrowStatus
<1>9. Promise!Release(d, escrowAdmin, fee)
  BY <1>2, <1>7, <1>8, DealOfRecord DEF Promise!Release, Deals, Phases
<1>10. fee \in 0 .. Deals[d].amount
  BY <1>2, DealOfRecord
<1>11. QED
  BY <1>1, <1>8, <1>9, <1>10 DEF PromiseStep, Promise!PromiseNext, Deals, Phases

\* A dispute, whichever way it comes in, is invisible to the promise.
LEMMA PausingIsInvisible ==
    ASSUME EscrowTypeOK, NEW d \in DeliveryIds,
           \/ \E caller \in Users : escrow_raise_dispute(caller, d)
           \/ freeze_funds(d)
    PROVE  PromiseStep
<1>1. ASSUME Phases[d] = "held", Deals' = Deals,
             Phases' = [Phases EXCEPT ![d] = "held"], balance' = balance
      PROVE  PromiseStep
  <2>1. Phases' = Phases
    BY <1>1 DEF Phases
  <2>2. QED
    BY <1>1, <2>1 DEF PromiseStep, Promise!promiseVars, Deals, Phases
<1>2. ASSUME NEW caller \in Users, escrow_raise_dispute(caller, d)
      PROVE  PromiseStep
  <2>1. Exists(d) /\ Open(escrows[d]) /\ balance' = balance
    BY <1>2 DEF escrow_raise_dispute, MayDispute, Open, Exists
  <2>2. escrows' = [escrows EXCEPT ![d] =
            [escrows[d] EXCEPT !.status = "Paused", !.disputed_by = caller]]
    BY <1>2 DEF escrow_raise_dispute, Marked, EscrowTypeOK
  <2>3. Deals' = Deals /\ Phases' = [Phases EXCEPT ![d] = "held"]
    BY <2>1, <2>2, StatusChangesPhase DEF EscrowStatus
  <2>4. Phases[d] = "held"
    BY <2>1 DEF Phases, PhaseOf, Open
  <2>5. QED
    BY <1>1, <2>1, <2>3, <2>4
<1>3. CASE freeze_funds(d) /\ escrows[d].status = "Locked"
  <2>1. /\ Exists(d) /\ Open(escrows[d]) /\ balance' = balance
        /\ SetStatus(d, "Paused")
    BY <1>3 DEF freeze_funds, Frozen, Open, Exists, SetStatus
  <2>2. /\ Deals' = Deals /\ Phases[d] = "held"
        /\ Phases' = [Phases EXCEPT ![d] = "held"]
    BY <2>1, SettlingChangesPhase DEF EscrowStatus
  <2>3. QED
    BY <1>1, <2>1, <2>2
<1>4. CASE freeze_funds(d) /\ escrows[d].status # "Locked"
  BY <1>4 DEF freeze_funds, Frozen, PromiseStep, Promise!promiseVars
<1>5. QED
  BY <1>2, <1>3, <1>4

LEMMA TransferIsSpend ==
    ASSUME EscrowTypeOK, NEW from \in Users, NEW to \in Accounts,
           NEW t \in Tokens, NEW n \in TransferAmounts,
           token_transfer(from, to, t, n)
    PROVE  PromiseStep
<1>1. n \in Nat /\ n <= balance[t][from] /\ balance[t][from] \in Nat
  BY EscrowIsAccount, EscrowAssumption
     DEF token_transfer, CanPay, EscrowTypeOK
<1>2. /\ balance' = Promise!Moved(balance, t, from, to, n)
      /\ escrows' = escrows
  BY MovedIsPaid DEF token_transfer
<1>3. Promise!Spend(from, to, t, n)
  BY <1>1, <1>2 DEF Promise!Spend
<1>4. n \in 0 .. balance[t][from] /\ to \in Users \union {EscrowAddress}
  BY <1>1 DEF Accounts
<1>5. QED
  BY <1>3, <1>4 DEF PromiseStep, Promise!PromiseNext

LEMMA StepKeepsPromise ==
    ASSUME EscrowTypeOK, FeeCapped, [EscrowNext]_escrowVars
    PROVE  PromiseStep
<1>1. CASE EscrowAdministration \/ UNCHANGED escrowVars
  BY <1>1 DEF EscrowAdministration, escrow_init, update_platform_fee,
     propose_admin, accept_admin, escrowVars, PromiseStep, Promise!promiseVars
<1>2. ASSUME NEW d \in DeliveryIds, NEW caller \in Users,
             release_escrow(caller, d)
      PROVE  PromiseStep
  BY <1>2, PaymentIsRelease DEF release_escrow, Open, Exists
<1>3. ASSUME NEW d \in DeliveryIds, NEW caller \in Users,
             refund_escrow(caller, d)
      PROVE  PromiseStep
  BY <1>3, RefundIsRefund DEF refund_escrow, Open, Exists
<1>4. ASSUME NEW d \in DeliveryIds, NEW caller \in Users,
             NEW toDriver \in BOOLEAN, resolve_dispute(caller, d, toDriver)
      PROVE  PromiseStep
  <2>1. EscrowInitialised
    BY <1>4, SharedAssumption DEF resolve_dispute, is_admin, EscrowInitialised
  <2>2. QED
    BY <1>4, <2>1, PaymentIsRelease, RefundIsRefund
       DEF resolve_dispute, Open, Exists
<1>5. ASSUME NEW d \in DeliveryIds, NEW caller \in Users, NEW share \in Shares,
             resolve_dispute_split(caller, d, share)
      PROVE  PromiseStep
  BY <1>5, SplitIsRefund, EscrowAssumption
<1>6. CASE EscrowLifecycleCalls
  BY <1>2, <1>3, <1>4, <1>5, <1>6, FundingIsFund, PausingIsInvisible
     DEF EscrowLifecycleCalls
<1>7. CASE UserTransfers
  BY <1>7, TransferIsSpend DEF UserTransfers
<1>8. QED
  BY <1>1, <1>6, <1>7 DEF EscrowNext

\* With fees of at most 100%, every behaviour of the contract is, to someone
\* who looks only at deals and purses, a behaviour of the promise.
THEOREM PromiseIsKept == ASSUME FeeWithinWhole PROVE EscrowSpec => KeepsPromise
<1>1. EscrowInit => Promise!PromiseInit /\ FeeCapped
  <2> SUFFICES ASSUME EscrowInit PROVE Promise!PromiseInit /\ FeeCapped
    OBVIOUS
  <2>1. \A d \in DeliveryIds : DealOf(escrows[d]) = None
                               /\ PhaseOf(escrows[d]) = "none"
    BY DEF EscrowInit, DealOf, PhaseOf, Open
  <2>2. QED
    BY <2>1, FeeCapAssumption
       DEF EscrowInit, Promise!PromiseInit, FeeCapped, FeeBounded, BasisPoints
<1>2. EscrowTypeOK /\ FeeCapped /\ [EscrowNext]_escrowVars
          => [Promise!PromiseNext]_(Promise!promiseVars)
  BY StepKeepsPromise DEF PromiseStep
<1>3. FeeCapped /\ [EscrowNext]_escrowVars => FeeCapped'
  BY FeeStaysCapped
<1>4. QED
  BY <1>1, <1>2, <1>3, EscrowTypeCorrect, PTL
     DEF EscrowSpec, KeepsPromise, Promise!PromiseSpec
=============================================================================
