------------------------------- MODULE Escrow -------------------------------
(***************************************************************************)
(* escrow_contract: custody of the payment of every delivery.              *)
(*                                                                         *)
(* An invocation is one atomic transaction: a panic in the handler or in a *)
(* token transfer it makes undoes all of it, so each handler is one action *)
(* whose guards are the conditions under which nothing panics.  An address *)
(* a handler calls require_auth on is a parameter of its action: whoever   *)
(* may sign is whoever the quantifiers of EscrowNext range over.           *)
(***************************************************************************)
EXTENDS SharedTypes

CONSTANTS Amounts,         \* i128 amounts that callers pass
          TransferAmounts, \* amounts users move outside of the protocol
          InitFees,        \* fees, in basis points, that a deployer may pass
          NewFees,         \* fees that an admin may ask for later
          Shares,          \* sender shares that an arbiter may ask for
          I128Max,         \* where saturating multiplication stops
          InitialBalance   \* what each user owns of each token at first

ASSUME EscrowAssumption ==
    /\ Amounts \subseteq Int
    /\ TransferAmounts \subseteq Int
    /\ InitFees \subseteq Nat
    /\ NewFees \subseteq Nat
    /\ Shares \subseteq Nat
    /\ I128Max \in Nat
    /\ \A n \in Amounts : n <= I128Max
    /\ InitialBalance \in Nat

VARIABLES escrowAdmin,   \* StorageKey::Admin
          pendingAdmin,  \* DataKey::PendingAdmin
          feeBps,        \* ProtocolConfig.platform_fee_bps, 0 while unset
          escrows,       \* StorageKey::Escrow(id)
          balance        \* the token contracts' balances

escrowVars == <<escrowAdmin, pendingAdmin, feeBps, escrows, balance>>

-----------------------------------------------------------------------------
(* The token contracts, as far as the escrow contract relies on them.      *)

Pay(b, t, from, to, n) ==
    LET debited == [b EXCEPT ![t][from] = @ - n]
    IN  [debited EXCEPT ![t][to] = @ + n]

\* The transfer panics on a negative amount and on an insufficient balance.
CanPay(b, t, from, n) == n >= 0 /\ n <= b[t][from]

\* Transfers a user makes without the protocol, donations to it included.
token_transfer(from, to, t, n) ==
    /\ CanPay(balance, t, from, n)
    /\ balance' = Pay(balance, t, from, to, n)
    /\ UNCHANGED <<escrowAdmin, pendingAdmin, feeBps, escrows>>

\* "if n > 0 { transfer(contract, to, n) }"
CanPayOut(b, t, n) == n > 0 => n <= b[t][EscrowAddress]

PayOut(b, t, to, n) == IF n > 0 THEN Pay(b, t, EscrowAddress, to, n) ELSE b

-----------------------------------------------------------------------------
(* Arithmetic.                                                             *)

SaturatingMul(a, b) == IF a * b > I128Max THEN I128Max ELSE a * b

calculate_fee(amount, bps) == SaturatingMul(amount, bps) \div BasisPoints

-----------------------------------------------------------------------------
(* What an escrow record entitles the contract to keep.                    *)

Exists(d) == escrows[d] # None

Open(r) == r # None /\ r.status \in {"Locked", "Paused"}

SetStatus(d, s) == escrows' = [escrows EXCEPT ![d].status = s]

\* Slip: the fee is paid on top of the amount.
driver_amount_Gross(r) == r.amount

\* The driver's part and then the fee of the admin of the moment.
driver_amount(r) == r.amount - calculate_fee(r.amount, feeBps)

DriverPaid(r) == PayOut(balance, r.token, r.driver, driver_amount(r))

CanPayDriverAndFee(r) ==
    /\ CanPayOut(balance, r.token, driver_amount(r))
    /\ CanPayOut(DriverPaid(r), r.token, calculate_fee(r.amount, feeBps))

PayDriverAndFee(r) ==
    balance' = PayOut(DriverPaid(r), r.token, escrowAdmin,
                      calculate_fee(r.amount, feeBps))

\* Slip: a strict comparison.
BalanceGuard_Strict(r) == balance[r.token][EscrowAddress] > r.amount

\* The comparison of the contract's balance with the record's amount.
BalanceGuard(r) == balance[r.token][EscrowAddress] >= r.amount

\* Slip: the refund goes to the wrong party.
PaySender_ToRecipient(r) ==
    /\ CanPay(balance, r.token, EscrowAddress, r.amount)
    /\ balance' = Pay(balance, r.token, EscrowAddress, r.recipient, r.amount)

PaySender(r) ==
    /\ CanPay(balance, r.token, EscrowAddress, r.amount)
    /\ balance' = Pay(balance, r.token, EscrowAddress, r.sender, r.amount)

\* A contract that was never initialised has no admin: a handler that looks
\* the admin up panics, whoever calls it.
is_admin(caller) == escrowAdmin = caller

EscrowInitialised == escrowAdmin # None

-----------------------------------------------------------------------------
(* Administration.                                                         *)

\* Callable by anyone, with any fee, once.
escrow_init(admin, bps) ==
    /\ ~ EscrowInitialised
    /\ escrowAdmin' = admin
    /\ feeBps' = bps
    /\ UNCHANGED <<pendingAdmin, escrows, balance>>

update_platform_fee(admin, bps) ==
    /\ is_admin(admin)
    /\ bps <= 1000
    /\ feeBps' = bps
    /\ UNCHANGED <<escrowAdmin, pendingAdmin, escrows, balance>>

propose_admin(current, new) ==
    /\ is_admin(current)
    /\ pendingAdmin' = new
    /\ UNCHANGED <<escrowAdmin, feeBps, escrows, balance>>

accept_admin(new) ==
    /\ pendingAdmin = new
    /\ EscrowInitialised
    /\ escrowAdmin' = new
    /\ pendingAdmin' = None
    /\ UNCHANGED <<feeBps, escrows, balance>>

-----------------------------------------------------------------------------
(* The life of an escrow.                                                  *)

\* Slips: an id can be used again; a transfer that fails is not noticed.
create_escrow_Again(sender, recipient, driver, d, token, amount) ==
    /\ CanPay(balance, token, sender, amount)
    /\ balance' = Pay(balance, token, sender, EscrowAddress, amount)
    /\ escrows' = [escrows EXCEPT ![d] =
           [sender |-> sender, recipient |-> recipient, driver |-> driver,
            token |-> token, amount |-> amount, status |-> "Locked",
            disputed_by |-> None]]
    /\ UNCHANGED <<escrowAdmin, pendingAdmin, feeBps>>

create_escrow_Unpaid(sender, recipient, driver, d, token, amount) ==
    /\ ~ Exists(d)
    /\ balance' = IF CanPay(balance, token, sender, amount)
                  THEN Pay(balance, token, sender, EscrowAddress, amount)
                  ELSE balance
    /\ escrows' = [escrows EXCEPT ![d] =
           [sender |-> sender, recipient |-> recipient, driver |-> driver,
            token |-> token, amount |-> amount, status |-> "Locked",
            disputed_by |-> None]]
    /\ UNCHANGED <<escrowAdmin, pendingAdmin, feeBps>>

\* Nothing here asks for a delivery record or for an initialised contract.
create_escrow(sender, recipient, driver, d, token, amount) ==
    /\ ~ Exists(d)
    /\ CanPay(balance, token, sender, amount)
    /\ balance' = Pay(balance, token, sender, EscrowAddress, amount)
    /\ escrows' = [escrows EXCEPT ![d] =
           [sender |-> sender, recipient |-> recipient, driver |-> driver,
            token |-> token, amount |-> amount, status |-> "Locked",
            disputed_by |-> None]]
    /\ UNCHANGED <<escrowAdmin, pendingAdmin, feeBps>>

\* Slip: a disputed escrow can be released like any other.
release_escrow_Paused(caller, d) ==
    /\ Exists(d)
    /\ EscrowInitialised
    /\ is_admin(caller) \/ caller = escrows[d].recipient
    /\ escrows[d].status \in {"Locked", "Paused"}
    /\ BalanceGuard(escrows[d])
    /\ CanPayDriverAndFee(escrows[d])
    /\ PayDriverAndFee(escrows[d])
    /\ SetStatus(d, "Released")
    /\ UNCHANGED <<escrowAdmin, pendingAdmin, feeBps>>

release_escrow(caller, d) ==
    /\ Exists(d)
    /\ EscrowInitialised
    /\ is_admin(caller) \/ caller = escrows[d].recipient
    /\ escrows[d].status = "Locked"
    /\ BalanceGuard(escrows[d])
    /\ CanPayDriverAndFee(escrows[d])
    /\ PayDriverAndFee(escrows[d])
    /\ SetStatus(d, "Released")
    /\ UNCHANGED <<escrowAdmin, pendingAdmin, feeBps>>

refund_escrow(caller, d) ==
    /\ Exists(d)
    /\ EscrowInitialised
    /\ is_admin(caller) \/ caller = escrows[d].sender
    /\ escrows[d].status \in {"Locked", "Paused"}
    /\ BalanceGuard(escrows[d])
    /\ PaySender(escrows[d])
    /\ SetStatus(d, "Refunded")
    /\ UNCHANGED <<escrowAdmin, pendingAdmin, feeBps>>

\* Slips: a settled escrow can be disputed; anyone can dispute.
escrow_raise_dispute_Settled(caller, d) ==
    /\ Exists(d)
    /\ caller \in {escrows[d].sender, escrows[d].recipient}
    /\ escrows' = [escrows EXCEPT ![d].status = "Paused",
                                  ![d].disputed_by = caller]
    /\ UNCHANGED <<escrowAdmin, pendingAdmin, feeBps, balance>>

escrow_raise_dispute_Anyone(caller, d) ==
    /\ Exists(d)
    /\ escrows[d].status = "Locked"
    /\ escrows' = [escrows EXCEPT ![d].status = "Paused",
                                  ![d].disputed_by = caller]
    /\ UNCHANGED <<escrowAdmin, pendingAdmin, feeBps, balance>>

\* The records that raise_dispute leaves: an operator on records, because the
\* dispute contract calls freeze_funds on them in the same invocation.
Marked(records, caller, d) ==
    [records EXCEPT ![d].status = "Paused", ![d].disputed_by = caller]

MayDispute(caller, d) ==
    /\ Exists(d)
    /\ caller \in {escrows[d].sender, escrows[d].recipient}
    /\ escrows[d].status = "Locked"

escrow_raise_dispute(caller, d) ==
    /\ MayDispute(caller, d)
    /\ escrows' = Marked(escrows, caller, d)
    /\ UNCHANGED <<escrowAdmin, pendingAdmin, feeBps, balance>>

\* Slip: there is no decision without a party that disputed.
resolve_dispute_Marked(caller, d, release_to_driver) ==
    /\ is_admin(caller)
    /\ Exists(d)
    /\ escrows[d].status = "Paused"
    /\ escrows[d].disputed_by # None
    /\ \/ /\ release_to_driver
          /\ CanPayDriverAndFee(escrows[d])
          /\ PayDriverAndFee(escrows[d])
          /\ SetStatus(d, "Released")
       \/ /\ ~ release_to_driver
          /\ PaySender(escrows[d])
          /\ SetStatus(d, "Refunded")
    /\ UNCHANGED <<escrowAdmin, pendingAdmin, feeBps>>

\* No balance guard here: it is the token transfers that may panic.
resolve_dispute(caller, d, release_to_driver) ==
    /\ is_admin(caller)
    /\ Exists(d)
    /\ escrows[d].status = "Paused"
    /\ \/ /\ release_to_driver
          /\ CanPayDriverAndFee(escrows[d])
          /\ PayDriverAndFee(escrows[d])
          /\ SetStatus(d, "Released")
       \/ /\ ~ release_to_driver
          /\ PaySender(escrows[d])
          /\ SetStatus(d, "Refunded")
    /\ UNCHANGED <<escrowAdmin, pendingAdmin, feeBps>>

sender_amount(r, share) == SaturatingMul(r.amount, share) \div BasisPoints

\* Slip: both parts are rounded down, and what is left over stays behind.
driver_part_Rounded(r, share) == sender_amount(r, BasisPoints - share)

driver_part(r, share) == r.amount - sender_amount(r, share)

SenderPaid(r, share) ==
    PayOut(balance, r.token, r.sender, sender_amount(r, share))

CanPayParts(r, share) ==
    /\ CanPayOut(balance, r.token, sender_amount(r, share))
    /\ CanPayOut(SenderPaid(r, share), r.token, driver_part(r, share))

PayParts(r, share) ==
    balance' = PayOut(SenderPaid(r, share), r.token, r.driver,
                      driver_part(r, share))

resolve_dispute_split(caller, d, share) ==
    /\ is_admin(caller)
    /\ share <= BasisPoints
    /\ Exists(d)
    /\ escrows[d].status = "Paused"
    /\ BalanceGuard(escrows[d])
    /\ CanPayParts(escrows[d], share)
    /\ PayParts(escrows[d], share)
    /\ SetStatus(d, "Refunded")
    /\ UNCHANGED <<escrowAdmin, pendingAdmin, feeBps>>

\* Slip: a settled escrow can be frozen, and is owed again.
Frozen_Settled(records, d) == [records EXCEPT ![d].status = "Paused"]

\* A record that is not Locked is left alone and the call succeeds.
Frozen(records, d) ==
    IF records[d].status = "Locked"
    THEN [records EXCEPT ![d].status = "Paused"]
    ELSE records

\* No require_auth: anyone may call it.
freeze_funds(d) ==
    /\ Exists(d)
    /\ escrows' = Frozen(escrows, d)
    /\ UNCHANGED <<escrowAdmin, pendingAdmin, feeBps, balance>>

-----------------------------------------------------------------------------
InitialBalances ==
    [t \in Tokens |->
        [a \in Accounts |-> IF a = EscrowAddress THEN 0 ELSE InitialBalance]]

\* The contract is on the ledger, nobody called init, and it owns nothing.
EscrowInit ==
    /\ escrowAdmin = None
    /\ pendingAdmin = None
    /\ feeBps = 0
    /\ escrows = [d \in DeliveryIds |-> None]
    /\ balance = InitialBalances

EscrowAdministration ==
    \/ \E admin \in Users, bps \in InitFees : escrow_init(admin, bps)
    \/ \E admin \in Users, bps \in NewFees : update_platform_fee(admin, bps)
    \/ \E current, new \in Users : propose_admin(current, new)
    \/ \E new \in Users : accept_admin(new)

EscrowLifecycleCalls ==
    \E d \in DeliveryIds :
        \/ \E sender, recipient, driver \in Users, t \in Tokens, n \in Amounts :
               create_escrow(sender, recipient, driver, d, t, n)
        \/ \E caller \in Users :
               \/ release_escrow(caller, d)
               \/ refund_escrow(caller, d)
               \/ escrow_raise_dispute(caller, d)
               \/ \E toDriver \in BOOLEAN : resolve_dispute(caller, d, toDriver)
               \/ \E share \in Shares : resolve_dispute_split(caller, d, share)
        \/ freeze_funds(d)

UserTransfers ==
    \E from \in Users, to \in Accounts, t \in Tokens, n \in TransferAmounts :
        token_transfer(from, to, t, n)

EscrowNext == EscrowAdministration \/ EscrowLifecycleCalls \/ UserTransfers

EscrowSpec == EscrowInit /\ [][EscrowNext]_escrowVars

-----------------------------------------------------------------------------
(* Properties.                                                             *)

\* Every variable holds a value of its storage type; in particular no balance
\* and no amount in escrow is negative, although amounts are signed.
EscrowTypeOK ==
    /\ escrowAdmin \in Users \union {None}
    /\ pendingAdmin \in Users \union {None}
    /\ feeBps \in Nat
    /\ escrows \in [DeliveryIds -> EscrowRecord \union {None}]
    /\ balance \in [Tokens -> [Accounts -> Nat]]

\* What the contract owes in token t for delivery d: the whole amount until
\* the escrow is settled, nothing afterwards.
Claim(r, t) == IF Open(r) /\ r.token = t THEN r.amount ELSE 0

\* The sum of the claims of deliveries 1 .. d.
ClaimsUpTo(t) ==
    LET total[d \in 0 .. MaxDeliveryId] ==
            IF d = 0 THEN 0 ELSE total[d - 1] + Claim(escrows[d], t)
    IN  total

\* The contract holds, of every token, at least the sum of what it owes to
\* the deliveries that are not settled.  All escrows share one balance, so a
\* payment that is too large for one delivery is made with the money of the
\* others: the balance guards (lib.rs 290-295, 345-350) compare the shared
\* balance with one amount and cannot notice.
Solvency ==
    \A t \in Tokens :
        ClaimsUpTo(t)[MaxDeliveryId] <= balance[t][EscrowAddress]

\* A step that changes the escrow record of some delivery changes no other
\* record, and moves the contract's balance of each token by exactly the
\* change of that delivery's claim; no other step lowers the balance.  So
\* no handler pays out more or less than it settles.
CustodyStep ==
    \/ \E d \in DeliveryIds :
          /\ \A e \in DeliveryIds \ {d} : escrows'[e] = escrows[e]
          /\ \A t \in Tokens :
                balance'[t][EscrowAddress] - balance[t][EscrowAddress]
                    = Claim(escrows'[d], t) - Claim(escrows[d], t)
    \/ /\ escrows' = escrows
       /\ \A t \in Tokens :
             balance'[t][EscrowAddress] >= balance[t][EscrowAddress]

CustodyMatchesClaims == [][CustodyStep]_escrowVars

\* A record, once written, keeps its parties, token and amount; nothing makes
\* it Locked again; and once settled it does not change at all.  So an escrow
\* is settled once, and its delivery id is never used for another one.
TermsOf(r) == <<r.sender, r.recipient, r.driver, r.token, r.amount>>

RecordStep ==
    \A d \in DeliveryIds : Exists(d) =>
        /\ escrows'[d] # None
        /\ TermsOf(escrows'[d]) = TermsOf(escrows[d])
        /\ escrows'[d].status = "Locked" => escrows[d].status = "Locked"
        /\ ~ Open(escrows[d]) => escrows'[d] = escrows[d]

SettledOnce == [][RecordStep]_escrowVars

\* Whatever happened before, the admin of an initialised contract can refund
\* every escrow that is not settled, can pay the driver of every one that is
\* not settled, and can split every frozen one: no balance guard and no
\* transfer ever stands in the way.
SettlementNeverBlocked ==
    EscrowInitialised =>
        \A d \in DeliveryIds : Open(escrows[d]) =>
            /\ ENABLED refund_escrow(escrowAdmin, d)
            /\ \/ ENABLED release_escrow(escrowAdmin, d)
               \/ /\ ENABLED resolve_dispute(escrowAdmin, d, TRUE)
                  /\ \A share \in Shares : share <= BasisPoints =>
                        ENABLED resolve_dispute_split(escrowAdmin, d, share)

\* The reason for it, in terms of money: the shared balance covers each of
\* the ways to settle an escrow, payment by payment, for the fee of the
\* moment and for every share, with what other deliveries left there.
Covers(r) ==
    /\ BalanceGuard(r)
    /\ CanPay(balance, r.token, EscrowAddress, r.amount)
    /\ CanPayDriverAndFee(r)
    /\ \A share \in Shares : share <= BasisPoints => CanPayParts(r, share)

SettlementsAreCovered ==
    \A d \in DeliveryIds : Open(escrows[d]) => Covers(escrows[d])

\* A Locked escrow carries no mark of a dispute, and a mark names a party of
\* the escrow, whichever of the two ways the dispute came in.
DisputeMarks ==
    \A d \in DeliveryIds : Exists(d) =>
        /\ escrows[d].status = "Locked" => escrows[d].disputed_by = None
        /\ escrows[d].disputed_by \in
               {None, escrows[d].sender, escrows[d].recipient}

\* What a step may do to the money of the users.  Everyone gains in the
\* token of r what the parts below add up to, and nothing in another token;
\* two parts may go to the same user.
Part(u, payee, n) == IF u = payee THEN n ELSE 0

GainInToken(r, gain) ==
    \A t \in Tokens, u \in Users :
        balance'[t][u] - balance[t][u] = IF t = r.token THEN gain[u] ELSE 0

\* The driver has the amount less the fee, and the admin has the fee.
DriverGains(r) ==
    LET fee == calculate_fee(r.amount, feeBps)
    IN  GainInToken(r, [u \in Users |-> Part(u, r.driver, r.amount - fee)
                                            + Part(u, escrowAdmin, fee)])

\* The sender has everything back.
SenderGains(r) == GainInToken(r, [u \in Users |-> Part(u, r.sender, r.amount)])

\* The sender has a share, and the driver has all the rest.
BothGain(r, share) ==
    LET given == sender_amount(r, share)
    IN  GainInToken(r, [u \in Users |-> Part(u, r.sender, given)
                                            + Part(u, r.driver, r.amount - given)])

\* The hypothesis under which the contract is solvent.
FeeWithinWhole == \A bps \in InitFees : bps <= BasisPoints
=============================================================================
