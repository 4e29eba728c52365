---------------------------- MODULE EscrowProofs ----------------------------
(***************************************************************************)
(* What holds of Escrow for every set of users, tokens and deliveries, and *)
(* for every amount, fee and share.                                        *)
(***************************************************************************)
EXTENDS Escrow, WellFoundedInduction, TLAPS

Ledgers == [Tokens -> [Accounts -> Nat]]

-----------------------------------------------------------------------------
(* The arithmetic of fees and shares.                                      *)

\* A share of at most the whole lies between nothing and the whole, also
\* where the multiplication saturates (calculate_fee, lib.rs 49-51).
LEMMA ShareWithinAmount ==
    ASSUME NEW a \in Nat, NEW bps \in Nat, bps <= BasisPoints
    PROVE  SaturatingMul(a, bps) \div BasisPoints \in 0 .. a
<1>1. a * bps \in Nat /\ a * bps <= a * 10000
  BY DEF BasisPoints
<1>2. SaturatingMul(a, bps) \in Nat /\ SaturatingMul(a, bps) <= a * 10000
  BY <1>1, EscrowAssumption DEF SaturatingMul
<1>3. QED
  BY <1>2 DEF BasisPoints

\* Whatever the fee, it is a natural number.
LEMMA FeeIsNat ==
    ASSUME NEW a \in Nat, NEW bps \in Nat
    PROVE  SaturatingMul(a, bps) \div BasisPoints \in Nat
<1>1. a * bps \in Nat
  OBVIOUS
<1>2. SaturatingMul(a, bps) \in Nat
  BY <1>1, EscrowAssumption DEF SaturatingMul
<1>3. QED
  BY <1>2 DEF BasisPoints

-----------------------------------------------------------------------------
(* What a payment does to the balances.                                    *)

LEMMA EscrowIsAccount == EscrowAddress \in Accounts /\ Users \subseteq Accounts
BY DEF Accounts

\* A payment that the token contract accepts leaves every balance natural.
LEMMA PayKeepsLedgers ==
    ASSUME NEW b \in Ledgers, NEW t \in Tokens, NEW from \in Accounts,
           NEW to \in Accounts, NEW n \in Int, CanPay(b, t, from, n)
    PROVE  Pay(b, t, from, to, n) \in Ledgers
<1>1. b[t] \in [Accounts -> Nat] /\ n \in Nat /\ b[t][from] - n \in Nat
  BY DEF Ledgers, CanPay
<1>2. [b EXCEPT ![t][from] = @ - n] \in Ledgers
  BY <1>1 DEF Ledgers
<1>3. QED
  BY <1>1, <1>2 DEF Pay, Ledgers

\* A payment by the contract to a user takes the amount from the contract.
LEMMA PayFromContract ==
    ASSUME NEW b \in Ledgers, NEW t \in Tokens, NEW to \in Users,
           NEW n \in Int, NEW s \in Tokens
    PROVE  Pay(b, t, EscrowAddress, to, n)[s][EscrowAddress] =
               IF s = t THEN b[s][EscrowAddress] - n ELSE b[s][EscrowAddress]
BY SharedAssumption, EscrowIsAccount DEF Pay, Ledgers

\* A payment by a user changes the contract's balance only when the contract
\* receives it, and then by the whole amount.
LEMMA PayByUser ==
    ASSUME NEW b \in Ledgers, NEW t \in Tokens, NEW from \in Users,
           NEW to \in Accounts, NEW n \in Int, NEW s \in Tokens
    PROVE  Pay(b, t, from, to, n)[s][EscrowAddress] =
               IF s = t /\ to = EscrowAddress THEN b[s][EscrowAddress] + n
                                              ELSE b[s][EscrowAddress]
BY SharedAssumption, EscrowIsAccount DEF Pay, Ledgers

\* The same for a payment that is skipped unless it is positive.
LEMMA PayOutKeepsLedgers ==
    ASSUME NEW b \in Ledgers, NEW t \in Tokens, NEW to \in Users,
           NEW n \in Int, CanPayOut(b, t, n)
    PROVE  PayOut(b, t, to, n) \in Ledgers
<1>1. CASE n > 0
  <2>1. CanPay(b, t, EscrowAddress, n)
    BY <1>1 DEF CanPay, CanPayOut
  <2>2. QED
    BY <1>1, <2>1, PayKeepsLedgers, EscrowIsAccount DEF PayOut
<1>2. CASE ~ (n > 0)
  BY <1>2 DEF PayOut
<1>3. QED
  BY <1>1, <1>2

LEMMA PayOutFromContract ==
    ASSUME NEW b \in Ledgers, NEW t \in Tokens, NEW to \in Users,
           NEW n \in Nat, NEW s \in Tokens
    PROVE  PayOut(b, t, to, n)[s][EscrowAddress] =
               IF s = t THEN b[s][EscrowAddress] - n ELSE b[s][EscrowAddress]
<1>1. CASE n > 0
  BY <1>1, PayFromContract DEF PayOut
<1>2. CASE n = 0
  BY <1>2, EscrowIsAccount DEF PayOut, Ledgers
<1>3. QED
  BY <1>1, <1>2

-----------------------------------------------------------------------------
(* What the handlers that pay out do to the balances.                      *)

\* The whole amount of r leaves the contract, and nothing else does.
AmountLeaves(r) ==
    \A s \in Tokens :
        balance'[s][EscrowAddress] =
            IF s = r.token THEN balance[s][EscrowAddress] - r.amount
                           ELSE balance[s][EscrowAddress]

FeeBounded == feeBps <= BasisPoints

LEMMA RecordIsTyped ==
    ASSUME EscrowTypeOK, NEW d \in DeliveryIds, Exists(d)
    PROVE  /\ escrows[d] \in EscrowRecord
           /\ escrows[d].sender \in Users /\ escrows[d].driver \in Users
           /\ escrows[d].recipient \in Users
           /\ escrows[d].token \in Tokens /\ escrows[d].amount \in Nat
           /\ escrows[d].status \in EscrowStatus
<1>1. escrows[d] \in EscrowRecord
  BY DEF EscrowTypeOK, Exists
<1>2. QED
  BY <1>1 DEF EscrowRecord

\* release_escrow and resolve_dispute(.., true): the balances stay natural
\* whatever the fee, and a fee within the whole is part of the amount.
LEMMA DriverAndFeeArePaid ==
    ASSUME EscrowTypeOK, EscrowInitialised, NEW d \in DeliveryIds, Exists(d),
           CanPayDriverAndFee(escrows[d]), PayDriverAndFee(escrows[d])
    PROVE  /\ balance' \in Ledgers
           /\ FeeBounded => AmountLeaves(escrows[d])
<1> DEFINE r == escrows[d]
           fee == calculate_fee(r.amount, feeBps)
<1>1. /\ r.driver \in Users /\ r.token \in Tokens /\ r.amount \in Nat
      /\ escrowAdmin \in Users /\ balance \in Ledgers /\ feeBps \in Nat
  BY RecordIsTyped DEF EscrowTypeOK, EscrowInitialised, Ledgers
<1>2. fee \in Nat /\ driver_amount(r) \in Int /\ driver_amount(r) = r.amount - fee
  BY <1>1, FeeIsNat DEF calculate_fee, driver_amount
<1>3. DriverPaid(r) \in Ledgers
  BY <1>1, <1>2, PayOutKeepsLedgers DEF CanPayDriverAndFee, DriverPaid
<1>4. balance' = PayOut(DriverPaid(r), r.token, escrowAdmin, fee)
  BY DEF PayDriverAndFee
<1>5. balance' \in Ledgers
  BY <1>1, <1>2, <1>3, <1>4, PayOutKeepsLedgers DEF CanPayDriverAndFee
<1>6. ASSUME FeeBounded PROVE AmountLeaves(r)
  <2>1. driver_amount(r) \in Nat
    BY <1>1, <1>2, <1>6, ShareWithinAmount DEF calculate_fee, FeeBounded
  <2>2. ASSUME NEW s \in Tokens
        PROVE  balance'[s][EscrowAddress] =
                   IF s = r.token THEN balance[s][EscrowAddress] - r.amount
                                  ELSE balance[s][EscrowAddress]
    <3>1. DriverPaid(r)[s][EscrowAddress] =
              IF s = r.token THEN balance[s][EscrowAddress] - driver_amount(r)
                             ELSE balance[s][EscrowAddress]
      BY <1>1, <2>1, PayOutFromContract DEF DriverPaid
    <3>2. balance'[s][EscrowAddress] =
              IF s = r.token THEN DriverPaid(r)[s][EscrowAddress] - fee
                             ELSE DriverPaid(r)[s][EscrowAddress]
      BY <1>1, <1>2, <1>3, <1>4, PayOutFromContract
    <3>3. balance[s][EscrowAddress] \in Nat
      BY <1>1, EscrowIsAccount DEF Ledgers
    <3>4. QED
      BY <1>1, <1>2, <3>1, <3>2, <3>3
  <2>3. QED
    BY <2>2 DEF AmountLeaves
<1>7. QED
  BY <1>5, <1>6

\* refund_escrow and resolve_dispute(.., false).
LEMMA SenderIsPaid ==
    ASSUME EscrowTypeOK, NEW d \in DeliveryIds, Exists(d),
           PaySender(escrows[d])
    PROVE  balance' \in Ledgers /\ AmountLeaves(escrows[d])
<1> DEFINE r == escrows[d]
<1>1. /\ r.sender \in Users /\ r.token \in Tokens /\ r.amount \in Nat
      /\ balance \in Ledgers
  BY RecordIsTyped DEF EscrowTypeOK, Ledgers
<1>2. /\ CanPay(balance, r.token, EscrowAddress, r.amount)
      /\ balance' = Pay(balance, r.token, EscrowAddress, r.sender, r.amount)
  BY DEF PaySender
<1>3. balance' \in Ledgers
  BY <1>1, <1>2, PayKeepsLedgers, EscrowIsAccount
<1>4. AmountLeaves(r)
  BY <1>1, <1>2, PayFromContract DEF AmountLeaves
<1>5. QED
  BY <1>3, <1>4

\* resolve_dispute_split: what the sender does not get goes to the driver.
LEMMA SplitIsPaid ==
    ASSUME EscrowTypeOK, NEW d \in DeliveryIds, NEW caller, NEW share \in Nat,
           resolve_dispute_split(caller, d, share)
    PROVE  balance' \in Ledgers /\ AmountLeaves(escrows[d])
<1> DEFINE r == escrows[d]
           part == sender_amount(r, share)
           rest == r.amount - part
           senderPaid == PayOut(balance, r.token, r.sender, part)
<1>1. /\ Exists(d) /\ share <= BasisPoints
      /\ CanPayOut(balance, r.token, part)
      /\ CanPayOut(senderPaid, r.token, rest)
      /\ balance' = PayOut(senderPaid, r.token, r.driver, rest)
  BY DEF resolve_dispute_split, CanPayParts, PayParts, SenderPaid, driver_part
<1>2. /\ r.sender \in Users /\ r.driver \in Users /\ r.token \in Tokens
      /\ r.amount \in Nat /\ balance \in Ledgers
  BY <1>1, RecordIsTyped DEF EscrowTypeOK, Ledgers
<1>3. part \in Nat /\ rest \in Nat
  BY <1>1, <1>2, ShareWithinAmount DEF sender_amount
<1>4. senderPaid \in Ledgers
  BY <1>1, <1>2, <1>3, PayOutKeepsLedgers
<1>5. balance' \in Ledgers
  BY <1>1, <1>2, <1>3, <1>4, PayOutKeepsLedgers
<1>6. ASSUME NEW s \in Tokens
      PROVE  balance'[s][EscrowAddress] =
                 IF s = r.token THEN balance[s][EscrowAddress] - r.amount
                                ELSE balance[s][EscrowAddress]
  <2>1. senderPaid[s][EscrowAddress] =
            IF s = r.token THEN balance[s][EscrowAddress] - part
                           ELSE balance[s][EscrowAddress]
    BY <1>2, <1>3, PayOutFromContract
  <2>2. balance'[s][EscrowAddress] =
            IF s = r.token THEN senderPaid[s][EscrowAddress] - rest
                           ELSE senderPaid[s][EscrowAddress]
    BY <1>1, <1>2, <1>3, <1>4, PayOutFromContract
  <2>3. balance[s][EscrowAddress] \in Nat
    BY <1>2, EscrowIsAccount DEF Ledgers
  <2>4. QED
    BY <1>2, <1>3, <2>1, <2>2, <2>3
<1>7. QED
  BY <1>5, <1>6 DEF AmountLeaves

-----------------------------------------------------------------------------
(* Who receives it: the same payments, seen from the users' side.          *)

LEMMA PayToUser ==
    ASSUME NEW b \in Ledgers, NEW t \in Tokens, NEW to \in Users,
           NEW n \in Int, NEW s \in Tokens, NEW u \in Users
    PROVE  Pay(b, t, EscrowAddress, to, n)[s][u] - b[s][u] =
               IF s = t THEN Part(u, to, n) ELSE 0
<1>1. /\ EscrowAddress \in Accounts /\ u \in Accounts /\ to \in Accounts
      /\ EscrowAddress # u /\ EscrowAddress # to
  BY SharedAssumption, EscrowIsAccount
<1>2. /\ b[s] \in [Accounts -> Nat] /\ b[t] \in [Accounts -> Nat]
      /\ b[s][u] \in Nat
  BY <1>1 DEF Ledgers
<1>3. Pay(b, t, EscrowAddress, to, n)[s][u] =
          IF s = t /\ u = to THEN b[s][u] + n ELSE b[s][u]
  BY <1>1, <1>2 DEF Pay, Ledgers
<1>4. QED
  BY <1>2, <1>3 DEF Part

LEMMA PayOutToUser ==
    ASSUME NEW b \in Ledgers, NEW t \in Tokens, NEW to \in Users,
           NEW n \in Nat, NEW s \in Tokens, NEW u \in Users
    PROVE  PayOut(b, t, to, n)[s][u] - b[s][u] =
               IF s = t THEN Part(u, to, n) ELSE 0
<1>1. CASE n > 0
  BY <1>1, PayToUser DEF PayOut
<1>2. CASE n = 0
  <2>1. b[s][u] \in Nat
    BY EscrowIsAccount DEF Ledgers
  <2>2. QED
    BY <1>2, <2>1 DEF PayOut, Part
<1>3. QED
  BY <1>1, <1>2

\* Two payments of one settlement, to two users or to the same one twice.
LEMMA TwoPartsToUsers ==
    ASSUME NEW b \in Ledgers, NEW t \in Tokens, NEW first \in Users,
           NEW second \in Users, NEW m \in Nat, NEW n \in Nat,
           PayOut(b, t, first, m) \in Ledgers, NEW s \in Tokens, NEW u \in Users
    PROVE  PayOut(PayOut(b, t, first, m), t, second, n)[s][u] - b[s][u] =
               IF s = t THEN Part(u, first, m) + Part(u, second, n) ELSE 0
<1> DEFINE c == PayOut(b, t, first, m)
           e == PayOut(c, t, second, n)
<1>1. c[s][u] - b[s][u] = IF s = t THEN Part(u, first, m) ELSE 0
  BY PayOutToUser
<1>2. e[s][u] - c[s][u] = IF s = t THEN Part(u, second, n) ELSE 0
  BY PayOutToUser
<1>3. b[s][u] \in Nat /\ c[s][u] \in Nat
  BY EscrowIsAccount DEF Ledgers
<1>4. Part(u, first, m) \in Nat /\ Part(u, second, n) \in Nat
  BY DEF Part
<1>5. e[s][u] = c[s][u] + (IF s = t THEN Part(u, second, n) ELSE 0)
  <2>1. e[s][u] \in Int
    <3>1. CASE n > 0
      <4>1. c[t] \in [Accounts -> Nat] /\ EscrowAddress # u
        BY SharedAssumption DEF Ledgers
      <4>2. QED
        BY <3>1, <1>3, <4>1, SharedAssumption, EscrowIsAccount
           DEF PayOut, Pay, Ledgers
    <3>2. CASE n = 0
      BY <3>2, <1>3 DEF PayOut
    <3>3. QED
      BY <3>1, <3>2
  <2> HIDE DEF e, c
  <2>2. QED
    BY <1>2, <1>3, <1>4, <2>1
<1> HIDE DEF e, c
<1>6. e[s][u] - b[s][u] =
          IF s = t THEN Part(u, first, m) + Part(u, second, n) ELSE 0
  BY <1>1, <1>3, <1>4, <1>5
<1>7. QED
  BY <1>6 DEF e, c

\* release_escrow and resolve_dispute(.., true), with a fee within the whole.
LEMMA DriverAndAdminGain ==
    ASSUME EscrowTypeOK, FeeBounded, EscrowInitialised,
           NEW d \in DeliveryIds, Exists(d),
           CanPayDriverAndFee(escrows[d]), PayDriverAndFee(escrows[d])
    PROVE  DriverGains(escrows[d])
<1> DEFINE r == escrows[d]
           fee == calculate_fee(r.amount, feeBps)
<1>1. /\ r.driver \in Users /\ r.token \in Tokens /\ r.amount \in Nat
      /\ escrowAdmin \in Users /\ balance \in Ledgers /\ feeBps \in Nat
  BY RecordIsTyped DEF EscrowTypeOK, EscrowInitialised, Ledgers
<1>2. fee \in 0 .. r.amount
  BY <1>1, ShareWithinAmount DEF calculate_fee, FeeBounded
<1>3. driver_amount(r) = r.amount - fee /\ r.amount - fee \in Nat /\ fee \in Nat
  BY <1>1, <1>2 DEF driver_amount
<1>4. DriverPaid(r) \in Ledgers
  BY <1>1, <1>3, PayOutKeepsLedgers DEF CanPayDriverAndFee, DriverPaid
<1>5. balance' = PayOut(PayOut(balance, r.token, r.driver, r.amount - fee),
                        r.token, escrowAdmin, fee)
  BY <1>3 DEF PayDriverAndFee, DriverPaid
<1>6. PayOut(balance, r.token, r.driver, r.amount - fee) \in Ledgers
  BY <1>3, <1>4 DEF DriverPaid
<1> HIDE DEF fee
<1>7. ASSUME NEW t \in Tokens, NEW u \in Users
      PROVE  balance'[t][u] - balance[t][u] =
                 IF t = r.token THEN Part(u, r.driver, r.amount - fee)
                                         + Part(u, escrowAdmin, fee)
                                ELSE 0
  BY <1>1, <1>3, <1>5, <1>6, TwoPartsToUsers
<1>8. QED
  BY <1>7 DEF DriverGains, GainInToken, fee

\* refund_escrow and resolve_dispute(.., false).
LEMMA SenderHasItBack ==
    ASSUME EscrowTypeOK, NEW d \in DeliveryIds, Exists(d),
           PaySender(escrows[d])
    PROVE  SenderGains(escrows[d])
<1>1. /\ escrows[d].sender \in Users /\ escrows[d].token \in Tokens
      /\ escrows[d].amount \in Nat /\ balance \in Ledgers
  BY RecordIsTyped DEF EscrowTypeOK, Ledgers
<1>2. QED
  BY <1>1, PayToUser DEF PaySender, SenderGains, GainInToken

\* resolve_dispute_split.
LEMMA BothHaveTheirPart ==
    ASSUME EscrowTypeOK, NEW d \in DeliveryIds, NEW caller, NEW share \in Nat,
           resolve_dispute_split(caller, d, share)
    PROVE  BothGain(escrows[d], share)
<1> DEFINE r == escrows[d]
           part == sender_amount(r, share)
           rest == r.amount - part
<1>1. /\ Exists(d) /\ share <= BasisPoints
      /\ CanPayOut(balance, r.token, part)
      /\ balance' = PayOut(PayOut(balance, r.token, r.sender, part), r.token,
                           r.driver, rest)
  BY DEF resolve_dispute_split, CanPayParts, PayParts, SenderPaid, driver_part
<1>2. /\ r.sender \in Users /\ r.driver \in Users /\ r.token \in Tokens
      /\ r.amount \in Nat /\ balance \in Ledgers
  BY <1>1, RecordIsTyped DEF EscrowTypeOK, Ledgers
<1>3. part \in Nat /\ rest \in Nat
  BY <1>1, <1>2, ShareWithinAmount DEF sender_amount
<1> HIDE DEF part, rest
<1>4. PayOut(balance, r.token, r.sender, part) \in Ledgers
  BY <1>1, <1>2, <1>3, PayOutKeepsLedgers
<1>5. ASSUME NEW t \in Tokens, NEW u \in Users
      PROVE  balance'[t][u] - balance[t][u] =
                 IF t = r.token THEN Part(u, r.sender, part)
                                         + Part(u, r.driver, rest)
                                ELSE 0
  BY <1>1, <1>2, <1>3, <1>4, TwoPartsToUsers
<1>6. QED
  BY <1>5 DEF BothGain, GainInToken, part, rest

-----------------------------------------------------------------------------
(* Types.                                                                  *)

LEMMA SetStatusIsTyped ==
    ASSUME EscrowTypeOK, NEW d \in DeliveryIds, Exists(d),
           NEW s \in EscrowStatus, SetStatus(d, s)
    PROVE  escrows' \in [DeliveryIds -> EscrowRecord \union {None}]
<1>1. [escrows[d] EXCEPT !.status = s] \in EscrowRecord
  BY RecordIsTyped DEF EscrowRecord
<1>2. escrows' = [escrows EXCEPT ![d] = [escrows[d] EXCEPT !.status = s]]
  BY DEF SetStatus
<1>3. QED
  BY <1>1, <1>2 DEF EscrowTypeOK

LEMMA InitIsTyped == EscrowInit => EscrowTypeOK
BY EscrowAssumption DEF EscrowInit, EscrowTypeOK, InitialBalances

LEMMA TypeIsKept == EscrowTypeOK /\ [EscrowNext]_escrowVars => EscrowTypeOK'
<1> SUFFICES ASSUME EscrowTypeOK, [EscrowNext]_escrowVars
             PROVE  EscrowTypeOK'
  OBVIOUS
<1> USE DEF Ledgers
<1>1. ASSUME NEW admin \in Users, NEW bps \in InitFees, escrow_init(admin, bps)
      PROVE  EscrowTypeOK'
  BY <1>1, EscrowAssumption DEF escrow_init, EscrowTypeOK
<1>2. ASSUME NEW admin \in Users, NEW bps \in NewFees,
             update_platform_fee(admin, bps)
      PROVE  EscrowTypeOK'
  BY <1>2, EscrowAssumption DEF update_platform_fee, EscrowTypeOK
<1>3. ASSUME NEW current \in Users, NEW new \in Users,
             propose_admin(current, new)
      PROVE  EscrowTypeOK'
  BY <1>3 DEF propose_admin, EscrowTypeOK
<1>4. ASSUME NEW new \in Users, accept_admin(new)
      PROVE  EscrowTypeOK'
  BY <1>4 DEF accept_admin, EscrowTypeOK
<1>5. ASSUME NEW d \in DeliveryIds, NEW sender \in Users,
             NEW recipient \in Users, NEW driver \in Users, NEW t \in Tokens,
             NEW n \in Amounts,
             create_escrow(sender, recipient, driver, d, t, n)
      PROVE  EscrowTypeOK'
  <2>1. n \in Nat /\ CanPay(balance, t, sender, n)
    BY <1>5, EscrowAssumption DEF create_escrow, CanPay
  <2>2. balance' \in Ledgers
    <3>1. balance' = Pay(balance, t, sender, EscrowAddress, n)
      BY <1>5 DEF create_escrow
    <3>2. balance \in Ledgers /\ sender \in Accounts
                            /\ EscrowAddress \in Accounts /\ n \in Int
      BY <2>1, EscrowIsAccount DEF EscrowTypeOK, Ledgers
    <3>3. Pay(balance, t, sender, EscrowAddress, n) \in Ledgers
      BY <2>1, <3>2, PayKeepsLedgers
    <3>4. QED
      BY <3>1, <3>3
  <2>3. [sender |-> sender, recipient |-> recipient, driver |-> driver,
         token |-> t, amount |-> n, status |-> "Locked", disputed_by |-> None]
            \in EscrowRecord
    BY <2>1 DEF EscrowRecord, EscrowStatus
  <2>4. escrows' \in [DeliveryIds -> EscrowRecord \union {None}]
    BY <1>5, <2>3 DEF create_escrow, EscrowTypeOK
  <2>5. QED
    BY <1>5, <2>2, <2>4 DEF create_escrow, EscrowTypeOK
<1>6. ASSUME NEW d \in DeliveryIds, NEW caller \in Users,
             release_escrow(caller, d)
      PROVE  EscrowTypeOK'
  <2>1. balance' \in Ledgers
    BY <1>6, DriverAndFeeArePaid DEF release_escrow
  <2>2. escrows' \in [DeliveryIds -> EscrowRecord \union {None}]
    BY <1>6, SetStatusIsTyped DEF release_escrow, EscrowStatus
  <2>3. QED
    BY <1>6, <2>1, <2>2 DEF release_escrow, EscrowTypeOK
<1>7. ASSUME NEW d \in DeliveryIds, NEW caller \in Users,
             refund_escrow(caller, d)
      PROVE  EscrowTypeOK'
  <2>1. balance' \in Ledgers
    BY <1>7, SenderIsPaid DEF refund_escrow
  <2>2. escrows' \in [DeliveryIds -> EscrowRecord \union {None}]
    BY <1>7, SetStatusIsTyped DEF refund_escrow, EscrowStatus
  <2>3. QED
    BY <1>7, <2>1, <2>2 DEF refund_escrow, EscrowTypeOK
<1>8. ASSUME NEW d \in DeliveryIds, NEW caller \in Users,
             escrow_raise_dispute(caller, d)
      PROVE  EscrowTypeOK'
  <2>1. [escrows[d] EXCEPT !.status = "Paused", !.disputed_by = caller]
            \in EscrowRecord
    BY <1>8, RecordIsTyped
       DEF escrow_raise_dispute, MayDispute, EscrowRecord, EscrowStatus
  <2>2. escrows' = [escrows EXCEPT ![d] =
            [escrows[d] EXCEPT !.status = "Paused", !.disputed_by = caller]]
    BY <1>8 DEF escrow_raise_dispute, Marked, EscrowTypeOK
  <2>3. QED
    BY <1>8, <2>1, <2>2 DEF escrow_raise_dispute, EscrowTypeOK
<1>9. ASSUME NEW d \in DeliveryIds, NEW caller \in Users,
             NEW toDriver \in BOOLEAN, resolve_dispute(caller, d, toDriver)
      PROVE  EscrowTypeOK'
  <2>1. EscrowInitialised /\ Exists(d)
    BY <1>9, SharedAssumption
       DEF resolve_dispute, is_admin, EscrowInitialised
  <2>2. balance' \in Ledgers
    BY <1>9, <2>1, DriverAndFeeArePaid, SenderIsPaid DEF resolve_dispute
  <2>3. escrows' \in [DeliveryIds -> EscrowRecord \union {None}]
    BY <1>9, <2>1, SetStatusIsTyped DEF resolve_dispute, EscrowStatus
  <2>4. QED
    BY <1>9, <2>2, <2>3 DEF resolve_dispute, EscrowTypeOK
<1>10. ASSUME NEW d \in DeliveryIds, NEW caller \in Users,
              NEW share \in Shares, resolve_dispute_split(caller, d, share)
       PROVE  EscrowTypeOK'
  <2>1. balance' \in Ledgers
    BY <1>10, SplitIsPaid, EscrowAssumption
  <2>2. escrows' \in [DeliveryIds -> EscrowRecord \union {None}]
    BY <1>10, SetStatusIsTyped DEF resolve_dispute_split, EscrowStatus
  <2>3. QED
    BY <1>10, <2>1, <2>2 DEF resolve_dispute_split, EscrowTypeOK
<1>11. ASSUME NEW d \in DeliveryIds, freeze_funds(d)
       PROVE  EscrowTypeOK'
  <2>1. escrows' \in [DeliveryIds -> EscrowRecord \union {None}]
    BY <1>11, SetStatusIsTyped
       DEF freeze_funds, Frozen, EscrowStatus, SetStatus, EscrowTypeOK
  <2>2. QED
    BY <1>11, <2>1 DEF freeze_funds, EscrowTypeOK
<1>12. ASSUME NEW from \in Users, NEW to \in Accounts, NEW t \in Tokens,
              NEW n \in TransferAmounts, token_transfer(from, to, t, n)
       PROVE  EscrowTypeOK'
  <2>1. balance' \in Ledgers
    BY <1>12, PayKeepsLedgers, EscrowIsAccount, EscrowAssumption
       DEF token_transfer, EscrowTypeOK
  <2>2. QED
    BY <1>12, <2>1 DEF token_transfer, EscrowTypeOK
<1>13. CASE UNCHANGED escrowVars
  BY <1>13 DEF escrowVars, EscrowTypeOK
<1>14. QED
  BY <1>1, <1>2, <1>3, <1>4, <1>5, <1>6, <1>7, <1>8, <1>9, <1>10, <1>11,
     <1>12, <1>13
     DEF EscrowNext, EscrowAdministration, EscrowLifecycleCalls, UserTransfers

\* The storage of the escrow contract and the token balances always hold
\* values of their types, whatever fee the contract was deployed with: no
\* sequence of calls makes a balance or an amount in escrow negative.
THEOREM EscrowTypeCorrect == EscrowSpec => []EscrowTypeOK
BY InitIsTyped, TypeIsKept, PTL DEF EscrowSpec

-----------------------------------------------------------------------------
(* Custody: the balance of the contract moves with what it owes.           *)

LEMMA FeeStaysBounded ==
    ASSUME FeeWithinWhole, FeeBounded, [EscrowNext]_escrowVars
    PROVE  FeeBounded'
<1>1. CASE EscrowAdministration
  <2>1. \/ \E bps \in InitFees : feeBps' = bps
        \/ \E bps \in NewFees : bps <= 1000 /\ feeBps' = bps
        \/ feeBps' = feeBps
    BY <1>1 DEF EscrowAdministration, escrow_init, update_platform_fee,
                propose_admin, accept_admin
  <2>2. QED
    BY <2>1, EscrowAssumption DEF FeeBounded, FeeWithinWhole, BasisPoints
<1>2. CASE EscrowLifecycleCalls
  <2>1. ASSUME NEW sender, NEW recipient, NEW driver, NEW d, NEW t, NEW n,
               create_escrow(sender, recipient, driver, d, t, n)
        PROVE  feeBps' = feeBps
    BY <2>1 DEF create_escrow
  <2>2. ASSUME NEW caller, NEW d, release_escrow(caller, d)
        PROVE  feeBps' = feeBps
    BY <2>2 DEF release_escrow
  <2>3. ASSUME NEW caller, NEW d, refund_escrow(caller, d)
        PROVE  feeBps' = feeBps
    BY <2>3 DEF refund_escrow
  <2>4. ASSUME NEW caller, NEW d, escrow_raise_dispute(caller, d)
        PROVE  feeBps' = feeBps
    BY <2>4 DEF escrow_raise_dispute
  <2>5. ASSUME NEW caller, NEW d, NEW toDriver,
               resolve_dispute(caller, d, toDriver)
        PROVE  feeBps' = feeBps
    BY <2>5 DEF resolve_dispute
  <2>6. ASSUME NEW caller, NEW d, NEW share,
               resolve_dispute_split(caller, d, share)
        PROVE  feeBps' = feeBps
    BY <2>6 DEF resolve_dispute_split
  <2>7. ASSUME NEW d, freeze_funds(d)
        PROVE  feeBps' = feeBps
    BY <2>7 DEF freeze_funds
  <2>8. feeBps' = feeBps
    BY <1>2, <2>1, <2>2, <2>3, <2>4, <2>5, <2>6, <2>7 DEF EscrowLifecycleCalls
  <2>9. QED
    BY <2>8 DEF FeeBounded
<1>3. CASE UserTransfers \/ UNCHANGED escrowVars
  BY <1>3 DEF UserTransfers, token_transfer, escrowVars, FeeBounded
<1>4. QED
  BY <1>1, <1>2, <1>3 DEF EscrowNext

\* A handler that settles d and pays out its amount.
LEMMA SettlingKeepsCustody ==
    ASSUME EscrowTypeOK, NEW d \in DeliveryIds, Exists(d), Open(escrows[d]),
           NEW s \in {"Released", "Refunded"}, SetStatus(d, s),
           AmountLeaves(escrows[d])
    PROVE  CustodyStep
<1>1. \A e \in DeliveryIds \ {d} : escrows'[e] = escrows[e]
  BY DEF SetStatus, EscrowTypeOK
<1>2. escrows'[d] = [escrows[d] EXCEPT !.status = s]
  BY DEF SetStatus, EscrowTypeOK
<1>3. escrows'[d].status = s
  BY <1>2, RecordIsTyped DEF EscrowRecord
<1>4. ASSUME NEW t \in Tokens
      PROVE  balance'[t][EscrowAddress] - balance[t][EscrowAddress]
                 = Claim(escrows'[d], t) - Claim(escrows[d], t)
  <2>1. Claim(escrows'[d], t) = 0
    BY <1>3 DEF Claim, Open
  <2>2. Claim(escrows[d], t) =
            IF t = escrows[d].token THEN escrows[d].amount ELSE 0
    BY DEF Claim
  <2>3. balance[t][EscrowAddress] \in Nat /\ escrows[d].amount \in Nat
    BY RecordIsTyped, EscrowIsAccount DEF EscrowTypeOK
  <2>4. balance'[t][EscrowAddress] =
            IF t = escrows[d].token
            THEN balance[t][EscrowAddress] - escrows[d].amount
            ELSE balance[t][EscrowAddress]
    BY DEF AmountLeaves
  <2>5. QED
    BY <2>1, <2>2, <2>3, <2>4
<1>5. QED
  BY <1>1, <1>4 DEF CustodyStep

\* A handler that pauses d and moves no money.
LEMMA PausingKeepsCustody ==
    ASSUME EscrowTypeOK, NEW d \in DeliveryIds, Exists(d),
           escrows[d].status = "Locked", UNCHANGED balance,
           \A e \in DeliveryIds \ {d} : escrows'[e] = escrows[e],
           escrows'[d] # None, escrows'[d].status = "Paused",
           escrows'[d].token = escrows[d].token,
           escrows'[d].amount = escrows[d].amount
    PROVE  CustodyStep
<1>1. ASSUME NEW t \in Tokens
      PROVE  balance'[t][EscrowAddress] - balance[t][EscrowAddress]
                 = Claim(escrows'[d], t) - Claim(escrows[d], t)
  <2>1. Claim(escrows'[d], t) = Claim(escrows[d], t)
    BY DEF Claim, Open, Exists
  <2>2. Claim(escrows[d], t) \in Nat /\ balance[t][EscrowAddress] \in Nat
    BY RecordIsTyped, EscrowIsAccount DEF Claim, EscrowTypeOK
  <2>3. QED
    BY <2>1, <2>2
<1>2. QED
  BY <1>1 DEF CustodyStep

LEMMA CustodyIsKept ==
    ASSUME EscrowTypeOK, FeeBounded, EscrowNext
    PROVE  CustodyStep
<1>1. CASE EscrowAdministration
  <2>1. escrows' = escrows /\ balance' = balance
    BY <1>1 DEF EscrowAdministration, escrow_init, update_platform_fee,
       propose_admin, accept_admin
  <2>2. \A t \in Tokens : balance[t][EscrowAddress] \in Nat
    BY EscrowIsAccount DEF EscrowTypeOK
  <2>3. QED
    BY <2>1, <2>2 DEF CustodyStep
<1>2. ASSUME NEW d \in DeliveryIds, NEW sender \in Users,
             NEW recipient \in Users, NEW driver \in Users, NEW c \in Tokens,
             NEW n \in Amounts,
             create_escrow(sender, recipient, driver, d, c, n)
      PROVE  CustodyStep
  <2>1. n \in Int /\ balance \in Ledgers
    BY EscrowAssumption DEF EscrowTypeOK, Ledgers
  <2>2. /\ \A e \in DeliveryIds \ {d} : escrows'[e] = escrows[e]
        /\ escrows'[d] = [sender |-> sender, recipient |-> recipient,
               driver |-> driver, token |-> c, amount |-> n,
               status |-> "Locked", disputed_by |-> None]
        /\ escrows[d] = None
    BY <1>2 DEF create_escrow, EscrowTypeOK, Exists
  <2>3. escrows'[d] # None
    <3>1. n \in Nat
      BY <1>2, <2>1 DEF create_escrow, CanPay
    <3>2. escrows'[d] \in EscrowRecord
      BY <2>2, <3>1 DEF EscrowRecord, EscrowStatus
    <3>3. QED
      BY <3>2, NoneIsNoEscrow
  <2>4. ASSUME NEW t \in Tokens
        PROVE  balance'[t][EscrowAddress] - balance[t][EscrowAddress]
                   = Claim(escrows'[d], t) - Claim(escrows[d], t)
    <3>1. balance'[t][EscrowAddress] = IF t = c
              THEN balance[t][EscrowAddress] + n ELSE balance[t][EscrowAddress]
      BY <1>2, <2>1, PayByUser, EscrowIsAccount DEF create_escrow
    <3>2. Claim(escrows'[d], t) = IF t = c THEN n ELSE 0
      BY <2>2, <2>3 DEF Claim, Open
    <3>3. Claim(escrows[d], t) = 0
      BY <2>2 DEF Claim, Open
    <3>4. balance[t][EscrowAddress] \in Nat
      BY EscrowIsAccount DEF EscrowTypeOK
    <3>5. QED
      BY <2>1, <3>1, <3>2, <3>3, <3>4
  <2>5. QED
    BY <2>2, <2>4 DEF CustodyStep
<1>3. ASSUME NEW d \in DeliveryIds, NEW caller \in Users,
             release_escrow(caller, d)
      PROVE  CustodyStep
  BY <1>3, DriverAndFeeArePaid, SettlingKeepsCustody
     DEF release_escrow, Open, Exists
<1>4. ASSUME NEW d \in DeliveryIds, NEW caller \in Users,
             refund_escrow(caller, d)
      PROVE  CustodyStep
  BY <1>4, SenderIsPaid, SettlingKeepsCustody DEF refund_escrow, Open, Exists
<1>5. ASSUME NEW d \in DeliveryIds, NEW caller \in Users,
             escrow_raise_dispute(caller, d)
      PROVE  CustodyStep
  <2>1. /\ Exists(d) /\ escrows[d].status = "Locked" /\ UNCHANGED balance
        /\ \A e \in DeliveryIds \ {d} : escrows'[e] = escrows[e]
        /\ escrows'[d] = [escrows[d] EXCEPT !.status = "Paused",
                                            !.disputed_by = caller]
    BY <1>5 DEF escrow_raise_dispute, MayDispute, Marked, EscrowTypeOK
  <2>2. /\ escrows'[d] \in EscrowRecord /\ escrows'[d].status = "Paused"
        /\ escrows'[d].token = escrows[d].token
        /\ escrows'[d].amount = escrows[d].amount
    BY <2>1, RecordIsTyped DEF EscrowRecord, EscrowStatus
  <2>3. QED
    BY <2>1, <2>2, NoneIsNoEscrow, PausingKeepsCustody
<1>6. ASSUME NEW d \in DeliveryIds, NEW caller \in Users,
             NEW toDriver \in BOOLEAN, resolve_dispute(caller, d, toDriver)
      PROVE  CustodyStep
  <2>1. EscrowInitialised /\ Exists(d) /\ Open(escrows[d])
    BY <1>6, SharedAssumption
       DEF resolve_dispute, is_admin, EscrowInitialised, Open, Exists
  <2>2. CASE toDriver
    BY <1>6, <2>1, <2>2, DriverAndFeeArePaid, SettlingKeepsCustody
       DEF resolve_dispute
  <2>3. CASE ~ toDriver
    BY <1>6, <2>1, <2>3, SenderIsPaid, SettlingKeepsCustody
       DEF resolve_dispute
  <2>4. QED
    BY <2>2, <2>3
<1>7. ASSUME NEW d \in DeliveryIds, NEW caller \in Users,
             NEW share \in Shares, resolve_dispute_split(caller, d, share)
      PROVE  CustodyStep
  BY <1>7, SplitIsPaid, EscrowAssumption, SettlingKeepsCustody
     DEF resolve_dispute_split, Open, Exists
<1>8. ASSUME NEW d \in DeliveryIds, freeze_funds(d)
      PROVE  CustodyStep
  <2>1. CASE escrows[d].status = "Locked"
    <3>1. /\ Exists(d) /\ UNCHANGED balance
          /\ \A e \in DeliveryIds \ {d} : escrows'[e] = escrows[e]
          /\ escrows'[d] = [escrows[d] EXCEPT !.status = "Paused"]
      BY <1>8, <2>1 DEF freeze_funds, Frozen, EscrowTypeOK
    <3>2. /\ escrows'[d] \in EscrowRecord /\ escrows'[d].status = "Paused"
          /\ escrows'[d].token = escrows[d].token
          /\ escrows'[d].amount = escrows[d].amount
      BY <3>1, RecordIsTyped DEF EscrowRecord, EscrowStatus
    <3>3. QED
      BY <2>1, <3>1, <3>2, NoneIsNoEscrow, PausingKeepsCustody
  <2>2. CASE escrows[d].status # "Locked"
    <3>1. escrows' = escrows /\ balance' = balance
      BY <1>8, <2>2 DEF freeze_funds, Frozen
    <3>2. \A t \in Tokens : balance[t][EscrowAddress] \in Nat
      BY EscrowIsAccount DEF EscrowTypeOK
    <3>3. QED
      BY <3>1, <3>2 DEF CustodyStep
  <2>3. QED
    BY <2>1, <2>2
<1>9. ASSUME NEW from \in Users, NEW to \in Accounts, NEW c \in Tokens,
             NEW n \in TransferAmounts, token_transfer(from, to, c, n)
      PROVE  CustodyStep
  <2>1. n \in Nat /\ balance \in Ledgers /\ escrows' = escrows
    BY <1>9, EscrowAssumption
       DEF token_transfer, CanPay, EscrowTypeOK, Ledgers
  <2>2. ASSUME NEW t \in Tokens
        PROVE  balance'[t][EscrowAddress] >= balance[t][EscrowAddress]
    <3>1. balance[t][EscrowAddress] \in Nat
      BY EscrowIsAccount DEF EscrowTypeOK
    <3>2. QED
      BY <1>9, <2>1, <3>1, PayByUser DEF token_transfer
  <2>3. QED
    BY <2>1, <2>2 DEF CustodyStep
<1>10. QED
  BY <1>1, <1>2, <1>3, <1>4, <1>5, <1>6, <1>7, <1>8, <1>9
     DEF EscrowNext, EscrowLifecycleCalls, UserTransfers

\* When the deployer passes a fee of at most 100%, every handler moves the
\* contract's balance by exactly what it changes in what the contract owes.
THEOREM Custody ==
    ASSUME FeeWithinWhole PROVE EscrowSpec => CustodyMatchesClaims
<1>1. EscrowInit => FeeBounded
  BY DEF EscrowInit, FeeBounded, BasisPoints
<1>2. EscrowTypeOK /\ FeeBounded /\ [EscrowNext]_escrowVars
          => [CustodyStep]_escrowVars
  BY CustodyIsKept
<1>3. FeeBounded /\ [EscrowNext]_escrowVars => FeeBounded'
  BY FeeStaysBounded
<1>4. QED
  BY <1>1, <1>2, <1>3, EscrowTypeCorrect, PTL DEF EscrowSpec, CustodyMatchesClaims

-----------------------------------------------------------------------------
(* Solvency.  The sum of the claims is a function defined by recursion, so *)
(* the induction over the steps of a behaviour carries a witness instead:  *)
(* some function obeys the recursion equation and its last value is        *)
(* covered.  That there is only one such function is shown by looking at   *)
(* the least argument at which two of them would differ.                   *)

LEMMA LeastElement ==
    ASSUME NEW S, S \subseteq Nat, S # {}
    PROVE  \E x \in S : \A y \in S : x <= y
<1> DEFINE R == {ss \in Nat \X Nat : ss[1] < ss[2]}
<1>1. R = OpToRel(<, Nat)
  BY DEF OpToRel
<1>2. IsWellFoundedOn(R, Nat)
  BY <1>1, NatLessThanWellFounded
<1>3. PICK x \in S : \A y \in S : ~ (<<y, x>> \in R)
  <2> HIDE DEF R
  <2> QED
    BY <1>2, WFMin
<1>4. ASSUME NEW y \in S PROVE x <= y
  <2>1. x \in Nat /\ y \in Nat /\ ~ (<<y, x>> \in R)
    BY <1>3
  <2>2. y < x => <<y, x>> \in R
    BY <2>1
  <2>3. QED
    BY <2>1, <2>2
<1>5. QED
  BY <1>4

\* acc adds up the claims in token t of the escrow records E.
AddsUp(acc, E, t) ==
    /\ acc \in [0 .. MaxDeliveryId -> Int]
    /\ \A d \in 0 .. MaxDeliveryId :
          acc[d] = IF d = 0 THEN 0 ELSE acc[d - 1] + Claim(E[d], t)

Covered ==
    \A t \in Tokens :
        \E acc : AddsUp(acc, escrows, t)
                 /\ acc[MaxDeliveryId] <= balance[t][EscrowAddress]

LEMMA OnlyOneSum ==
    ASSUME NEW t \in Tokens, NEW acc, AddsUp(acc, escrows, t)
    PROVE  ClaimsUpTo(t)[MaxDeliveryId] = acc[MaxDeliveryId]
<1> DEFINE Eqn(f) == f = [d \in 0 .. MaxDeliveryId |->
                  IF d = 0 THEN 0 ELSE f[d - 1] + Claim(escrows[d], t)]
           g == CHOOSE f : Eqn(f)
           Differ == {d \in 0 .. MaxDeliveryId : g[d] # acc[d]}
<1>1. ClaimsUpTo(t) = g
  BY DEF ClaimsUpTo
<1>2. Eqn(acc)
  BY DEF AddsUp
<1>3. Eqn(g)
  <2> HIDE DEF Eqn
  <2> QED
    BY <1>2
<1> HIDE DEF g
<1>4. Differ = {}
  <2> SUFFICES ASSUME Differ # {} PROVE FALSE
    OBVIOUS
  <2>1. PICK d \in Differ : \A e \in Differ : d <= e
    <3>1. Differ \subseteq Nat
      BY SharedAssumption
    <3> HIDE DEF Differ
    <3> QED
      BY <3>1, LeastElement
  <2>2. d \in 0 .. MaxDeliveryId /\ g[d] # acc[d]
    OBVIOUS
  <2>3. CASE d = 0
    BY <1>2, <1>3, <2>2, <2>3
  <2>4. CASE d # 0
    <3>1. d - 1 \in 0 .. MaxDeliveryId /\ ~ (d <= d - 1)
      BY <2>2, <2>4, SharedAssumption
    <3>2. d - 1 \notin Differ
      BY <2>1, <3>1
    <3>3. g[d - 1] = acc[d - 1]
      BY <3>1, <3>2
    <3>4. /\ g[d] = g[d - 1] + Claim(escrows[d], t)
          /\ acc[d] = acc[d - 1] + Claim(escrows[d], t)
      BY <1>2, <1>3, <2>2, <2>4
    <3>5. QED
      BY <2>2, <3>3, <3>4
  <2>5. QED
    BY <2>3, <2>4
<1>5. QED
  BY <1>1, <1>4, SharedAssumption

LEMMA ClaimIsNat ==
    ASSUME EscrowTypeOK, NEW d \in DeliveryIds, NEW t \in Tokens
    PROVE  Claim(escrows[d], t) \in Nat
BY RecordIsTyped DEF Claim, Open, Exists

LEMMA NothingIsCovered ==
    ASSUME escrows = [d \in DeliveryIds |-> None], balance = InitialBalances
    PROVE  Covered
<1> SUFFICES ASSUME NEW t \in Tokens
             PROVE  \E acc : AddsUp(acc, escrows, t)
                        /\ acc[MaxDeliveryId] <= balance[t][EscrowAddress]
  BY DEF Covered
<1> DEFINE acc == [d \in 0 .. MaxDeliveryId |-> 0]
<1>1. \A d \in DeliveryIds : Claim(escrows[d], t) = 0
  BY DEF Claim, Open
<1>2. AddsUp(acc, escrows, t)
  <2>1. \A d \in 0 .. MaxDeliveryId : d # 0 => d \in DeliveryIds
    BY SharedAssumption DEF DeliveryIds
  <2>2. \A d \in 0 .. MaxDeliveryId :
            acc[d] = IF d = 0 THEN 0 ELSE acc[d - 1] + Claim(escrows[d], t)
    BY <1>1, <2>1, SharedAssumption
  <2>3. acc \in [0 .. MaxDeliveryId -> Int]
    OBVIOUS
  <2> HIDE DEF acc
  <2>4. QED
    BY <2>2, <2>3 DEF AddsUp
<1>3. acc[MaxDeliveryId] = 0 /\ balance[t][EscrowAddress] = 0
  BY SharedAssumption, EscrowIsAccount DEF InitialBalances
<1> HIDE DEF acc
<1>4. QED
  BY <1>2, <1>3

\* A claim that changes by k changes every sum from there on by k.
LEMMA SumFollowsClaim ==
    ASSUME EscrowTypeOK, EscrowTypeOK', NEW t \in Tokens,
           NEW acc, AddsUp(acc, escrows, t), NEW d \in DeliveryIds,
           \A e \in DeliveryIds \ {d} : escrows'[e] = escrows[e]
    PROVE  \E sum : /\ AddsUp(sum, escrows', t)
                    /\ sum[MaxDeliveryId] = acc[MaxDeliveryId]
                           + Claim(escrows'[d], t) - Claim(escrows[d], t)
<1> DEFINE k == Claim(escrows'[d], t) - Claim(escrows[d], t)
           sum == [e \in 0 .. MaxDeliveryId |->
                       IF e < d THEN acc[e] ELSE acc[e] + k]
<1>1. /\ Claim(escrows'[d], t) \in Nat /\ Claim(escrows[d], t) \in Nat
      /\ d \in 1 .. MaxDeliveryId /\ MaxDeliveryId \in Nat
  BY ClaimIsNat, RecordIsTyped, SharedAssumption
     DEF DeliveryIds, Claim, Open, EscrowTypeOK, EscrowRecord
<1>2. k \in Int
  BY <1>1
<1> HIDE DEF k
<1>3. /\ acc \in [0 .. MaxDeliveryId -> Int]
      /\ \A e \in 0 .. MaxDeliveryId :
            acc[e] = IF e = 0 THEN 0 ELSE acc[e - 1] + Claim(escrows[e], t)
  BY DEF AddsUp
<1>4. \A e \in 0 .. MaxDeliveryId :
          sum[e] = IF e = 0 THEN 0 ELSE sum[e - 1] + Claim(escrows'[e], t)
  <2> TAKE e \in 0 .. MaxDeliveryId
  <2>1. CASE e < d
    <3>1. e # 0 => escrows'[e] = escrows[e] /\ e - 1 \in 0 .. MaxDeliveryId
      BY <1>1, <2>1 DEF DeliveryIds
    <3>2. sum[e] = acc[e]
      BY <2>1
    <3>3. e # 0 => sum[e - 1] = acc[e - 1]
      BY <1>1, <2>1, <3>1
    <3>4. acc[e] = IF e = 0 THEN 0 ELSE acc[e - 1] + Claim(escrows[e], t)
      BY <1>3
    <3> HIDE DEF sum
    <3>5. CASE e = 0
      BY <3>2, <3>4, <3>5
    <3>6. CASE e # 0
      BY <3>1, <3>2, <3>3, <3>4, <3>6
    <3>7. QED
      BY <3>5, <3>6
  <2>2. CASE e = d
    <3>1. /\ ~ (e < d) /\ e - 1 < d /\ e # 0
          /\ e \in 0 .. MaxDeliveryId /\ e - 1 \in 0 .. MaxDeliveryId
      BY <1>1, <2>2
    <3>2. sum[e] = acc[e] + k /\ sum[e - 1] = acc[e - 1]
      BY <3>1
    <3>3. acc[e] = acc[e - 1] + Claim(escrows[e], t) /\ acc[e - 1] \in Int
      BY <1>3, <3>1
    <3>4. Claim(escrows[e], t) + k = Claim(escrows'[e], t)
      BY <1>1, <2>2 DEF k
    <3> HIDE DEF sum
    <3>5. QED
      BY <1>1, <1>2, <2>2, <3>1, <3>2, <3>3, <3>4
  <2>3. CASE e > d
    <3>1. escrows'[e] = escrows[e] /\ Claim(escrows[e], t) \in Nat
      BY <1>1, <2>3, ClaimIsNat DEF DeliveryIds
    <3>2. e - 1 \in 0 .. MaxDeliveryId /\ ~ (e < d) /\ ~ (e - 1 < d) /\ e # 0
      BY <1>1, <2>3
    <3>3. sum[e] = acc[e] + k /\ sum[e - 1] = acc[e - 1] + k
      BY <3>2
    <3>4. acc[e] = acc[e - 1] + Claim(escrows[e], t) /\ acc[e - 1] \in Int
      BY <1>3, <3>2
    <3> HIDE DEF sum
    <3>5. QED
      BY <1>2, <3>1, <3>2, <3>3, <3>4
  <2>4. QED
    BY <1>1, <2>1, <2>2, <2>3
<1>5. sum \in [0 .. MaxDeliveryId -> Int]
  BY <1>2, <1>3
<1>6. AddsUp(sum, escrows', t)
  BY <1>4, <1>5 DEF AddsUp
<1>7. sum[MaxDeliveryId] = acc[MaxDeliveryId] + k
  BY <1>1
<1> HIDE DEF sum
<1>8. sum[MaxDeliveryId] = acc[MaxDeliveryId]
                               + Claim(escrows'[d], t) - Claim(escrows[d], t)
  BY <1>1, <1>3, <1>7 DEF k
<1>9. QED
  BY <1>6, <1>8

LEMMA CoverIsKept ==
    ASSUME EscrowTypeOK, EscrowTypeOK', [CustodyStep]_escrowVars, Covered
    PROVE  Covered'
<1> SUFFICES ASSUME NEW t \in Tokens
             PROVE  \E acc : AddsUp(acc, escrows', t)
                       /\ acc[MaxDeliveryId] <= balance'[t][EscrowAddress]
  BY DEF Covered
<1>1. PICK acc : /\ AddsUp(acc, escrows, t)
                 /\ acc[MaxDeliveryId] <= balance[t][EscrowAddress]
  BY DEF Covered
<1>2. /\ acc[MaxDeliveryId] \in Int
      /\ balance[t][EscrowAddress] \in Nat /\ balance'[t][EscrowAddress] \in Nat
  BY <1>1, SharedAssumption, EscrowIsAccount DEF AddsUp, EscrowTypeOK
<1>3. CASE /\ escrows' = escrows
           /\ balance'[t][EscrowAddress] >= balance[t][EscrowAddress]
  <2>1. AddsUp(acc, escrows', t)
    BY <1>1, <1>3 DEF AddsUp
  <2>2. QED
    BY <1>1, <1>2, <1>3, <2>1
<1>4. ASSUME NEW d \in DeliveryIds,
             \A e \in DeliveryIds \ {d} : escrows'[e] = escrows[e],
             balance'[t][EscrowAddress] - balance[t][EscrowAddress]
                 = Claim(escrows'[d], t) - Claim(escrows[d], t)
      PROVE  \E sum : AddsUp(sum, escrows', t)
                 /\ sum[MaxDeliveryId] <= balance'[t][EscrowAddress]
  <2>1. PICK sum : /\ AddsUp(sum, escrows', t)
                   /\ sum[MaxDeliveryId] = acc[MaxDeliveryId]
                          + Claim(escrows'[d], t) - Claim(escrows[d], t)
    BY <1>1, <1>4, SumFollowsClaim
  <2>2. Claim(escrows'[d], t) \in Nat /\ Claim(escrows[d], t) \in Nat
    BY ClaimIsNat, RecordIsTyped DEF Claim, Open, EscrowTypeOK, EscrowRecord
  <2>3. sum[MaxDeliveryId] <= balance'[t][EscrowAddress]
    BY <1>1, <1>2, <1>4, <2>1, <2>2
  <2>4. QED
    BY <2>1, <2>3
<1>5. CASE UNCHANGED escrowVars
  BY <1>2, <1>3, <1>5 DEF escrowVars
<1>6. QED
  BY <1>3, <1>4, <1>5 DEF CustodyStep

LEMMA CoverIsSolvency == Covered => Solvency
<1> SUFFICES ASSUME Covered, NEW t \in Tokens
             PROVE  ClaimsUpTo(t)[MaxDeliveryId] <= balance[t][EscrowAddress]
  BY DEF Solvency
<1>1. PICK acc : /\ AddsUp(acc, escrows, t)
                 /\ acc[MaxDeliveryId] <= balance[t][EscrowAddress]
  BY DEF Covered
<1>2. QED
  BY <1>1, OnlyOneSum

\* The inductive invariant behind the theorems about money.
Funded == EscrowTypeOK /\ FeeBounded /\ Covered

LEMMA InitIsFunded == EscrowInit => Funded
BY InitIsTyped, NothingIsCovered DEF EscrowInit, Funded, FeeBounded, BasisPoints

LEMMA FundsAreKept ==
    ASSUME FeeWithinWhole
    PROVE  Funded /\ [EscrowNext]_escrowVars
               => Funded' /\ [CustodyStep]_escrowVars
BY TypeIsKept, FeeStaysBounded, CustodyIsKept, CoverIsKept DEF Funded

LEMMA AlwaysFunded == ASSUME FeeWithinWhole PROVE EscrowSpec => []Funded
BY InitIsFunded, FundsAreKept, PTL DEF EscrowSpec

\* When the deployer passes a fee of at most 100%, the contract can at every
\* moment pay all the escrows that are not settled, together: whichever are
\* released, refunded or split, and in whatever order.
THEOREM Solvent == ASSUME FeeWithinWhole PROVE EscrowSpec => []Solvency
<1>1. Funded => Solvency
  BY CoverIsSolvency DEF Funded
<1>2. QED
  BY <1>1, AlwaysFunded, PTL

-----------------------------------------------------------------------------
(* Settlements.  A sum of claims is at least each of them, so what covers  *)
(* the sum covers every single escrow; what is left to show is that the    *)
(* two payments of one settlement fit into its amount one after the other. *)

\* The sums grow: from d on they are at least what is owed for d.
LEMMA OneClaimFits ==
    ASSUME EscrowTypeOK, Covered, NEW d \in DeliveryIds, Open(escrows[d])
    PROVE  balance[escrows[d].token][EscrowAddress] >= escrows[d].amount
<1> DEFINE t == escrows[d].token
           n == escrows[d].amount
           least(e) == IF e < d THEN 0 ELSE n
<1>1. /\ t \in Tokens /\ n \in Nat /\ Claim(escrows[d], t) = n
      /\ d \in 1 .. MaxDeliveryId /\ MaxDeliveryId \in Nat
  BY RecordIsTyped, SharedAssumption DEF Claim, Open, Exists, DeliveryIds
<1>2. PICK acc : /\ AddsUp(acc, escrows, t)
                 /\ acc[MaxDeliveryId] <= balance[t][EscrowAddress]
  BY <1>1 DEF Covered
<1>3. \A e \in DeliveryIds : Claim(escrows[e], t) \in Nat
  BY <1>1, ClaimIsNat
<1> HIDE DEF t, n
<1> DEFINE Short == {e \in 0 .. MaxDeliveryId : acc[e] < least(e)}
<1>4. Short = {}
  <2> SUFFICES ASSUME Short # {} PROVE FALSE
    OBVIOUS
  <2>1. PICK e \in Short : \A f \in Short : e <= f
    <3>1. Short \subseteq Nat
      BY <1>1
    <3> HIDE DEF Short
    <3> QED
      BY <3>1, LeastElement
  <2>2. e \in 0 .. MaxDeliveryId /\ acc[e] < least(e)
    OBVIOUS
  <2>3. e # 0
    BY <1>1, <1>2, <2>2 DEF AddsUp
  <2>4. /\ e \in DeliveryIds /\ e - 1 \in 0 .. MaxDeliveryId
        /\ ~ (e <= e - 1)
    BY <1>1, <2>2, <2>3 DEF DeliveryIds
  <2>5. e - 1 \notin Short
    BY <2>1, <2>4
  <2>6. acc[e] \in Int /\ acc[e - 1] \in Int /\ acc[e - 1] >= least(e - 1)
    BY <1>1, <1>2, <2>2, <2>4, <2>5 DEF AddsUp
  <2>7. acc[e] = acc[e - 1] + Claim(escrows[e], t)
    BY <1>2, <2>2, <2>3 DEF AddsUp
  <2>8. Claim(escrows[e], t) \in Nat /\ (e = d => Claim(escrows[e], t) = n)
    BY <1>1, <1>3, <2>4
  <2>9. QED
    BY <1>1, <2>2, <2>4, <2>6, <2>7, <2>8
<1>5. acc[MaxDeliveryId] \in Int /\ acc[MaxDeliveryId] >= n
  <2>1. MaxDeliveryId \in 0 .. MaxDeliveryId /\ MaxDeliveryId \notin Short
    BY <1>1, <1>4
  <2>2. QED
    BY <1>1, <1>2, <2>1 DEF AddsUp
<1>6. balance[t][EscrowAddress] \in Nat
  BY <1>1, EscrowIsAccount DEF EscrowTypeOK
<1>7. QED
  BY <1>1, <1>2, <1>5, <1>6 DEF t, n

\* Two payments that make up an amount the contract holds can both be made.
LEMMA PartsFit ==
    ASSUME NEW b \in Ledgers, NEW t \in Tokens, NEW to \in Users,
           NEW first \in Nat, NEW second \in Nat,
           first + second <= b[t][EscrowAddress]
    PROVE  /\ CanPayOut(b, t, first)
           /\ CanPayOut(PayOut(b, t, to, first), t, second)
<1>1. b[t][EscrowAddress] \in Nat
  BY EscrowIsAccount DEF Ledgers
<1>2. PayOut(b, t, to, first)[t][EscrowAddress] = b[t][EscrowAddress] - first
  BY PayOutFromContract
<1>3. QED
  BY <1>1, <1>2 DEF CanPayOut

LEMMA CoverIsEnough ==
    ASSUME EscrowTypeOK, FeeBounded, Covered
    PROVE  SettlementsAreCovered
<1> SUFFICES ASSUME NEW d \in DeliveryIds, Open(escrows[d])
             PROVE  Covers(escrows[d])
  BY DEF SettlementsAreCovered
<1> DEFINE r == escrows[d]
<1>1. /\ r.sender \in Users /\ r.driver \in Users /\ r.token \in Tokens
      /\ r.amount \in Nat /\ balance \in Ledgers /\ feeBps \in Nat
  BY RecordIsTyped DEF Open, Exists, EscrowTypeOK, Ledgers
<1>2. /\ balance[r.token][EscrowAddress] \in Nat
      /\ r.amount <= balance[r.token][EscrowAddress]
  BY <1>1, OneClaimFits, EscrowIsAccount DEF Ledgers
<1>3. CanPayDriverAndFee(r)
  <2>1. calculate_fee(r.amount, feeBps) \in 0 .. r.amount
    BY <1>1, ShareWithinAmount DEF calculate_fee, FeeBounded
  <2>2. /\ driver_amount(r) \in Nat /\ calculate_fee(r.amount, feeBps) \in Nat
        /\ driver_amount(r) + calculate_fee(r.amount, feeBps) = r.amount
    BY <1>1, <2>1 DEF driver_amount
  <2>3. QED
    BY <1>1, <1>2, <2>2, PartsFit DEF CanPayDriverAndFee, DriverPaid
<1>4. ASSUME NEW share \in Shares, share <= BasisPoints
      PROVE  CanPayParts(r, share)
  <2>1. sender_amount(r, share) \in 0 .. r.amount
    BY <1>1, <1>4, ShareWithinAmount, EscrowAssumption DEF sender_amount
  <2>2. /\ sender_amount(r, share) \in Nat /\ driver_part(r, share) \in Nat
        /\ sender_amount(r, share) + driver_part(r, share) = r.amount
    BY <1>1, <2>1 DEF driver_part
  <2>3. QED
    BY <1>1, <1>2, <2>2, PartsFit DEF CanPayParts, SenderPaid
<1>5. BalanceGuard(r) /\ CanPay(balance, r.token, EscrowAddress, r.amount)
  BY <1>1, <1>2 DEF BalanceGuard, CanPay
<1>6. QED
  BY <1>3, <1>4, <1>5 DEF Covers

\* When the deployer passes a fee of at most 100%, no balance guard and no
\* transfer of release_escrow, refund_escrow, resolve_dispute or
\* resolve_dispute_split can ever fail on an escrow that is not settled:
\* this is the part of SettlementNeverBlocked that is about money.
THEOREM SettlementsCovered ==
    ASSUME FeeWithinWhole PROVE EscrowSpec => []SettlementsAreCovered
<1>1. Funded => SettlementsAreCovered
  BY CoverIsEnough DEF Funded
<1>2. QED
  BY <1>1, AlwaysFunded, PTL

-----------------------------------------------------------------------------
(* The life of a record.                                                   *)

\* A handler that changes the status of d, and possibly who disputed it.
LEMMA StatusChangeKeepsRecords ==
    ASSUME EscrowTypeOK, NEW d \in DeliveryIds, Exists(d), Open(escrows[d]),
           NEW s \in EscrowStatus \ {"Locked"},
           NEW by \in Users \union {None},
           escrows' = [escrows EXCEPT ![d] =
               [escrows[d] EXCEPT !.status = s, !.disputed_by = by]]
    PROVE  RecordStep
<1>1. \A e \in DeliveryIds \ {d} : escrows'[e] = escrows[e]
  BY DEF EscrowTypeOK
<1> DEFINE r == escrows[d]
           q == [r EXCEPT !.status = s, !.disputed_by = by]
<1>2. escrows'[d] = q
  BY DEF EscrowTypeOK
<1>3. r \in EscrowRecord
  BY RecordIsTyped
<1>4. q \in EscrowRecord /\ q.status = s
  BY <1>3 DEF EscrowRecord
<1>5. TermsOf(q) = TermsOf(r)
  BY <1>3 DEF EscrowRecord, TermsOf
<1> HIDE DEF q
<1>6. QED
  BY <1>1, <1>2, <1>4, <1>5, NoneIsNoEscrow DEF RecordStep, Exists

LEMMA SettlingKeepsRecords ==
    ASSUME EscrowTypeOK, NEW d \in DeliveryIds, Exists(d), Open(escrows[d]),
           NEW s \in EscrowStatus \ {"Locked"}, SetStatus(d, s)
    PROVE  RecordStep
<1>1. escrows[d].disputed_by \in Users \union {None}
  BY RecordIsTyped DEF EscrowRecord
<1>2. [escrows[d] EXCEPT !.status = s] = [escrows[d] EXCEPT !.status = s,
                                   !.disputed_by = escrows[d].disputed_by]
  BY RecordIsTyped DEF EscrowRecord
<1>3. escrows' = [escrows EXCEPT ![d] = [escrows[d] EXCEPT !.status = s,
                                   !.disputed_by = escrows[d].disputed_by]]
  BY <1>2 DEF SetStatus
<1>4. QED
  BY <1>1, <1>3, StatusChangeKeepsRecords

LEMMA RecordsAreKept ==
    ASSUME EscrowTypeOK, [EscrowNext]_escrowVars
    PROVE  RecordStep
<1>1. CASE escrows' = escrows
  BY <1>1 DEF RecordStep, Exists
<1>2. ASSUME NEW d \in DeliveryIds, NEW sender \in Users,
             NEW recipient \in Users, NEW driver \in Users, NEW c \in Tokens,
             NEW n \in Amounts,
             create_escrow(sender, recipient, driver, d, c, n)
      PROVE  RecordStep
  BY <1>2 DEF create_escrow, RecordStep, Exists, EscrowTypeOK
<1>3. ASSUME NEW d \in DeliveryIds, NEW caller \in Users,
             \/ release_escrow(caller, d)
             \/ refund_escrow(caller, d)
             \/ \E toDriver \in BOOLEAN : resolve_dispute(caller, d, toDriver)
             \/ \E share \in Shares : resolve_dispute_split(caller, d, share)
      PROVE  RecordStep
  <2>1. PICK s \in {"Released", "Refunded"} :
            Exists(d) /\ Open(escrows[d]) /\ SetStatus(d, s)
    BY <1>3 DEF release_escrow, refund_escrow, resolve_dispute,
       resolve_dispute_split, Open, Exists
  <2>2. QED
    BY <2>1, SettlingKeepsRecords DEF EscrowStatus
<1>4. ASSUME NEW d \in DeliveryIds, NEW caller \in Users,
             escrow_raise_dispute(caller, d)
      PROVE  RecordStep
  <2>1. escrows' = [escrows EXCEPT ![d] =
            [escrows[d] EXCEPT !.status = "Paused", !.disputed_by = caller]]
    BY <1>4 DEF escrow_raise_dispute, Marked, EscrowTypeOK
  <2>2. Exists(d) /\ Open(escrows[d])
    BY <1>4 DEF escrow_raise_dispute, MayDispute, Open, Exists
  <2>3. QED
    BY <2>1, <2>2, StatusChangeKeepsRecords DEF EscrowStatus
<1>5. ASSUME NEW d \in DeliveryIds, freeze_funds(d)
      PROVE  RecordStep
  <2>1. CASE escrows[d].status = "Locked"
    BY <1>5, <2>1, SettlingKeepsRecords
       DEF freeze_funds, Frozen, Open, Exists, EscrowStatus, SetStatus
  <2>2. CASE escrows[d].status # "Locked"
    BY <1>1, <1>5, <2>2 DEF freeze_funds, Frozen
  <2>3. QED
    BY <2>1, <2>2
<1>6. CASE EscrowAdministration \/ UserTransfers \/ UNCHANGED escrowVars
  <2>1. escrows' = escrows
    BY <1>6 DEF EscrowAdministration, UserTransfers, escrowVars, escrow_init,
       update_platform_fee, propose_admin, accept_admin, token_transfer
  <2>2. QED
    BY <1>1, <2>1
<1>7. QED
  BY <1>2, <1>3, <1>4, <1>5, <1>6 DEF EscrowNext, EscrowLifecycleCalls

\* No handler changes the terms of an escrow, locks one again or touches one
\* that is settled.
THEOREM RecordsSettleOnce == EscrowSpec => SettledOnce
<1>1. EscrowTypeOK /\ [EscrowNext]_escrowVars => [RecordStep]_escrowVars
  BY RecordsAreKept
<1>2. QED
  BY <1>1, EscrowTypeCorrect, PTL DEF EscrowSpec, SettledOnce

-----------------------------------------------------------------------------
(* The mark that a dispute leaves.                                         *)

MarkedWell(r) == /\ r.status = "Locked" => r.disputed_by = None
                 /\ r.disputed_by \in {None, r.sender, r.recipient}

\* A handler that changes the record of d only, and leaves it marked well.
LEMMA OneMarkChanges ==
    ASSUME EscrowTypeOK, DisputeMarks, NEW d \in DeliveryIds,
           NEW r, MarkedWell(r), escrows' = [escrows EXCEPT ![d] = r]
    PROVE  DisputeMarks'
BY DEF DisputeMarks, MarkedWell, Exists, EscrowTypeOK

\* Any status but Locked goes with any mark that was there.
LEMMA LeavingLockedKeepsMarks ==
    ASSUME EscrowTypeOK, DisputeMarks, NEW d \in DeliveryIds, Exists(d),
           NEW s \in EscrowStatus \ {"Locked"}, SetStatus(d, s)
    PROVE  DisputeMarks'
<1> DEFINE r == [escrows[d] EXCEPT !.status = s]
<1>1. MarkedWell(r)
  BY RecordIsTyped DEF MarkedWell, DisputeMarks, EscrowRecord
<1> HIDE DEF r
<1>2. escrows' = [escrows EXCEPT ![d] = r]
  BY DEF SetStatus, r
<1>3. QED
  BY <1>1, <1>2, OneMarkChanges

LEMMA MarksAreKept ==
    ASSUME EscrowTypeOK, DisputeMarks, [EscrowNext]_escrowVars
    PROVE  DisputeMarks'
<1>1. CASE escrows' = escrows
  BY <1>1 DEF DisputeMarks, Exists
<1>2. ASSUME NEW d \in DeliveryIds, NEW sender \in Users,
             NEW recipient \in Users, NEW driver \in Users, NEW c \in Tokens,
             NEW n \in Amounts,
             create_escrow(sender, recipient, driver, d, c, n)
      PROVE  DisputeMarks'
  BY <1>2, OneMarkChanges DEF create_escrow, MarkedWell
<1>3. ASSUME NEW d \in DeliveryIds, NEW caller \in Users,
             \/ release_escrow(caller, d)
             \/ refund_escrow(caller, d)
             \/ \E toDriver \in BOOLEAN : resolve_dispute(caller, d, toDriver)
             \/ \E share \in Shares : resolve_dispute_split(caller, d, share)
      PROVE  DisputeMarks'
  <2>1. PICK s \in {"Released", "Refunded"} : Exists(d) /\ SetStatus(d, s)
    BY <1>3 DEF release_escrow, refund_escrow, resolve_dispute,
       resolve_dispute_split
  <2>2. QED
    BY <2>1, LeavingLockedKeepsMarks DEF EscrowStatus
<1>4. ASSUME NEW d \in DeliveryIds, NEW caller \in Users,
             escrow_raise_dispute(caller, d)
      PROVE  DisputeMarks'
  <2> DEFINE r == [escrows[d] EXCEPT !.status = "Paused",
                                     !.disputed_by = caller]
  <2>1. Exists(d) /\ caller \in {escrows[d].sender, escrows[d].recipient}
    BY <1>4 DEF escrow_raise_dispute, MayDispute
  <2>2. MarkedWell(r)
    BY <2>1, RecordIsTyped DEF MarkedWell, EscrowRecord
  <2>3. escrows' = [escrows EXCEPT ![d] = r]
    BY <1>4 DEF escrow_raise_dispute, Marked, EscrowTypeOK
  <2> HIDE DEF r
  <2>4. QED
    BY <2>2, <2>3, OneMarkChanges
<1>5. ASSUME NEW d \in DeliveryIds, freeze_funds(d)
      PROVE  DisputeMarks'
  <2>1. CASE escrows[d].status = "Locked"
    BY <1>5, <2>1, LeavingLockedKeepsMarks
       DEF freeze_funds, Frozen, EscrowStatus, SetStatus
  <2>2. CASE escrows[d].status # "Locked"
    BY <1>1, <1>5, <2>2 DEF freeze_funds, Frozen
  <2>3. QED
    BY <2>1, <2>2
<1>6. CASE EscrowAdministration \/ UserTransfers \/ UNCHANGED escrowVars
  <2>1. escrows' = escrows
    BY <1>6 DEF EscrowAdministration, UserTransfers, escrowVars, escrow_init,
       update_platform_fee, propose_admin, accept_admin, token_transfer
  <2>2. QED
    BY <1>1, <2>1
<1>7. QED
  BY <1>2, <1>3, <1>4, <1>5, <1>6 DEF EscrowNext, EscrowLifecycleCalls

\* A mark of a dispute is always the sender's or the recipient's, and never
\* stays on an escrow that is Locked.
THEOREM MarksAreRight == EscrowSpec => []DisputeMarks
<1>1. EscrowInit => DisputeMarks
  BY DEF EscrowInit, DisputeMarks, Exists
<1>2. EscrowTypeOK /\ DisputeMarks /\ [EscrowNext]_escrowVars => DisputeMarks'
  BY MarksAreKept
<1>3. QED
  BY <1>1, <1>2, EscrowTypeCorrect, PTL DEF EscrowSpec
=============================================================================
