------------------------------ MODULE Delivery ------------------------------
(***************************************************************************)
(* delivery_contract, on top of the escrow contract it calls.              *)
(*                                                                         *)
(* A call to the escrow contract is a conjunct: its guards are guards of   *)
(* the calling handler, since a panic in it undoes the whole transaction,  *)
(* and the caller's signature is passed on.  Everyone can also call the    *)
(* escrow contract directly, so its own steps remain steps of this module. *)
(***************************************************************************)
EXTENDS Escrow, FiniteSets

CONSTANT MaxTime  \* bound on the ledger's clock

ASSUME DeliveryAssumption == MaxTime \in Nat

DeliveryRecord ==
    [sender : Users, recipient : Users, driver : Users \union {None},
     status : DeliveryStatus, delivered_at : Nat \union {None}]

ASSUME NoneIsNoDelivery == None \notin DeliveryRecord /\ None \notin Nat

VARIABLES deliveryAdmin,    \* StorageKey::Admin; DataKey::EscrowContract is
                            \* stored together with it
          deliveryCounter,  \* DataKey::DeliveryCounter, 0 while unset
          deliveries,       \* StorageKey::Delivery(id)
          completed,        \* DriverProfile.deliveries_completed of a driver,
                            \* with which reputation_score moves in step
          now               \* the ledger's timestamp

deliveryOnlyVars == <<deliveryAdmin, deliveryCounter, deliveries, completed>>
deliveryVars == <<escrowVars, deliveryOnlyVars, now>>

-----------------------------------------------------------------------------
Transitions ==
    {<<"Pending", "Active">>, <<"Pending", "Cancelled">>,
     <<"Active", "InTransit">>, <<"Active", "Disputed">>,
     <<"Active", "Cancelled">>,
     <<"InTransit", "Delivered">>, <<"InTransit", "Disputed">>,
     <<"Disputed", "Delivered">>, <<"Disputed", "Cancelled">>}

validate_transition(from, to) == <<from, to>> \in Transitions

Known(d) == deliveries[d] # None

MayBecome(d, status) ==
    Known(d) /\ validate_transition(deliveries[d].status, status)

delivery_is_admin(caller) == deliveryAdmin = caller

EscrowConfigured == deliveryAdmin # None

-----------------------------------------------------------------------------
(* The handlers.                                                           *)

\* The counter starts again, whatever was created before.
delivery_init(admin) ==
    /\ deliveryAdmin = None
    /\ deliveryAdmin' = admin
    /\ deliveryCounter' = 0
    /\ UNCHANGED <<deliveries, completed, escrowVars, now>>

\* Slip: the counter is not stored.
create_delivery_SameId(sender, recipient) ==
    /\ deliveryCounter < MaxDeliveryId
    /\ deliveries' = [deliveries EXCEPT ![deliveryCounter + 1] =
           [sender |-> sender, recipient |-> recipient, driver |-> None,
            status |-> "Pending", delivered_at |-> None]]
    /\ UNCHANGED <<deliveryAdmin, deliveryCounter, completed, escrowVars, now>>

\* Works without initialisation, and overwrites what the new id refers to.
create_delivery(sender, recipient) ==
    /\ deliveryCounter < MaxDeliveryId
    /\ deliveryCounter' = deliveryCounter + 1
    /\ deliveries' = [deliveries EXCEPT ![deliveryCounter + 1] =
           [sender |-> sender, recipient |-> recipient, driver |-> None,
            status |-> "Pending", delivered_at |-> None]]
    /\ UNCHANGED <<deliveryAdmin, completed, escrowVars, now>>

\* Slip: the escrow contract is not called.
cancel_delivery_NoRefund(sender, d) ==
    /\ MayBecome(d, "Cancelled")
    /\ deliveries[d].sender = sender
    /\ EscrowConfigured
    /\ deliveries' = [deliveries EXCEPT ![d].status = "Cancelled"]
    /\ UNCHANGED <<deliveryAdmin, deliveryCounter, completed, escrowVars, now>>

\* The sender takes the whole payment back, from a dispute as well.
cancel_delivery(sender, d) ==
    /\ MayBecome(d, "Cancelled")
    /\ deliveries[d].sender = sender
    /\ EscrowConfigured
    /\ refund_escrow(sender, d)
    /\ deliveries' = [deliveries EXCEPT ![d].status = "Cancelled"]
    /\ UNCHANGED <<deliveryAdmin, deliveryCounter, completed, now>>

assign_driver(caller, d, driver) ==
    /\ delivery_is_admin(caller) \/ caller = driver
    /\ MayBecome(d, "Active")
    /\ deliveries' = [deliveries EXCEPT ![d].driver = driver,
                                        ![d].status = "Active"]
    /\ UNCHANGED <<deliveryAdmin, deliveryCounter, completed, escrowVars, now>>

mark_in_transit(driver, d) ==
    /\ MayBecome(d, "InTransit")
    /\ deliveries[d].driver = driver
    /\ deliveries' = [deliveries EXCEPT ![d].status = "InTransit"]
    /\ UNCHANGED <<deliveryAdmin, deliveryCounter, completed, escrowVars, now>>

\* Slip: the profile of the confirming party is credited.
confirm_delivery_CreditsCaller(recipient, d) ==
    /\ MayBecome(d, "Delivered")
    /\ deliveries[d].recipient = recipient
    /\ EscrowConfigured
    /\ release_escrow(recipient, d)
    /\ deliveries' = [deliveries EXCEPT ![d].status = "Delivered",
                                        ![d].delivered_at = now]
    /\ completed' = [completed EXCEPT ![recipient] = @ + 1]
    /\ UNCHANGED <<deliveryAdmin, deliveryCounter, now>>

\* The escrow pays the driver of the escrow record; the profile that is
\* credited is the one of the driver of the delivery record.
confirm_delivery(recipient, d) ==
    /\ MayBecome(d, "Delivered")
    /\ deliveries[d].recipient = recipient
    /\ EscrowConfigured
    /\ release_escrow(recipient, d)
    /\ deliveries' = [deliveries EXCEPT ![d].status = "Delivered",
                                        ![d].delivered_at = now]
    /\ completed' = IF deliveries[d].driver = None THEN completed
                    ELSE [completed EXCEPT ![deliveries[d].driver] = @ + 1]
    /\ UNCHANGED <<deliveryAdmin, deliveryCounter, now>>

\* What raise_dispute does in this contract; the escrow's part is a conjunct
\* of its callers.
Disputing(caller, d) ==
    /\ MayBecome(d, "Disputed")
    /\ caller \in {deliveries[d].sender, deliveries[d].recipient}
    /\ EscrowConfigured
    /\ deliveries' = [deliveries EXCEPT ![d].status = "Disputed"]
    /\ UNCHANGED <<deliveryAdmin, deliveryCounter, completed, now>>

delivery_raise_dispute(caller, d) ==
    /\ Disputing(caller, d)
    /\ escrow_raise_dispute(caller, d)

Tick ==
    /\ now < MaxTime
    /\ now' = now + 1
    /\ UNCHANGED <<escrowVars, deliveryOnlyVars>>

-----------------------------------------------------------------------------
DeliveryEmpty ==
    /\ deliveryCounter = 0
    /\ deliveries = [d \in DeliveryIds |-> None]
    /\ completed = [u \in Users |-> 0]
    /\ now = 0

\* Both contracts are on the ledger and neither was initialised.
DeliveryInit == EscrowInit /\ deliveryAdmin = None /\ DeliveryEmpty

\* The deployer initialised both contracts before anyone used them.
DeliveryDeployed(admin) ==
    /\ escrowAdmin = admin
    /\ pendingAdmin = None
    /\ feeBps \in InitFees
    /\ escrows = [d \in DeliveryIds |-> None]
    /\ balance = InitialBalances
    /\ deliveryAdmin = admin
    /\ DeliveryEmpty

DeliveryCalls ==
    \/ \E admin \in Users : delivery_init(admin)
    \/ \E sender, recipient \in Users : create_delivery(sender, recipient)
    \/ \E d \in DeliveryIds, caller \in Users :
           \/ cancel_delivery(caller, d)
           \/ \E driver \in Users : assign_driver(caller, d, driver)
           \/ mark_in_transit(caller, d)
           \/ confirm_delivery(caller, d)
           \/ delivery_raise_dispute(caller, d)

DirectEscrowCalls == EscrowNext /\ UNCHANGED <<deliveryOnlyVars, now>>

DeliveryNext == DirectEscrowCalls \/ DeliveryCalls \/ Tick

DeliverySpec == DeliveryInit /\ [][DeliveryNext]_deliveryVars

DeployedDeliverySpec ==
    /\ \E admin \in Users : DeliveryDeployed(admin)
    /\ [][DeliveryNext]_deliveryVars

-----------------------------------------------------------------------------
(* Properties.                                                             *)

\* Every variable of this contract holds a value of its storage type, and
\* the ids given out so far are a prefix of those that fit.
DeliveryTypeOK ==
    /\ deliveryAdmin \in Users \union {None}
    /\ deliveryCounter \in 0 .. MaxDeliveryId
    /\ deliveries \in [DeliveryIds -> DeliveryRecord \union {None}]
    /\ completed \in [Users -> Nat]
    /\ now \in Nat

\* The two contracts agree on every delivery, although each keeps a status
\* of its own and the escrow contract can be called behind the back of the
\* delivery contract: a delivery is Delivered only when its escrow was
\* released, Cancelled only when it was refunded, and a Disputed delivery has
\* an escrow that is not Locked any more.
AgreesWithEscrow(status, r) ==
    CASE status = "Delivered" -> r # None /\ r.status = "Released"
      [] status = "Cancelled" -> r # None /\ r.status = "Refunded"
      [] status = "Disputed"  -> r # None /\ r.status # "Locked"
      [] OTHER -> TRUE

StatusAgreement ==
    \A d \in DeliveryIds :
        Known(d) => AgreesWithEscrow(deliveries[d].status, escrows[d])

\* A disputed delivery is never confirmed: validate_transition would let it
\* become Delivered, but the escrow it needs for that is not Locked, and no
\* call locks it again.
ConfirmationStep ==
    \A d \in DeliveryIds :
        Known(d) /\ deliveries[d].status = "Disputed" =>
            deliveries'[d] # None /\ deliveries'[d].status # "Delivered"

DisputeBlocksConfirmation == [][ConfirmationStep]_deliveryVars

\* An id is given to one delivery only: the record it refers to keeps its
\* sender and its recipient, its driver once assigned and its delivery time
\* once confirmed, and a delivery that is over stays as it is.
DeliveryStep ==
    \A d \in DeliveryIds : Known(d) =>
        LET old == deliveries[d] new == deliveries'[d] IN
        /\ new # None
        /\ new.sender = old.sender /\ new.recipient = old.recipient
        /\ old.driver \in {None, new.driver}
        /\ old.status \in {"Delivered", "Cancelled"} => new = old
        /\ new.status = "Pending" => old.status = "Pending"

IdsAreUnique == [][DeliveryStep]_deliveryVars

\* A driver's profile counts exactly the deliveries that were confirmed with
\* this driver: none is counted twice and none is lost.
DeliveredBy(u) ==
    {d \in DeliveryIds : Known(d) /\ deliveries[d].status = "Delivered"
                                  /\ deliveries[d].driver = u}

CompletedMatchesDeliveries ==
    \A u \in Users : completed[u] = Cardinality(DeliveredBy(u))

\* The end of a delivery is the moment the money moves, all of it, and to
\* the right people: the step in which a delivery becomes Delivered gives
\* the driver of its escrow the amount less the fee, and the admin of the
\* escrow contract the fee; the step in which it becomes Cancelled gives the
\* sender of its escrow the whole amount; and neither gives anything to
\* anyone else.  delivery_contract moves no money itself: it relies on what
\* it calls, in a contract that others can call before it.
EndStep ==
    \A d \in DeliveryIds :
        Known(d) /\ deliveries'[d].status # deliveries[d].status =>
            /\ deliveries'[d].status = "Delivered" =>
                  Exists(d) /\ DriverGains(escrows[d])
            /\ deliveries'[d].status = "Cancelled" =>
                  Exists(d) /\ SenderGains(escrows[d])

EndsMoveMoney == [][EndStep]_deliveryVars

\* What the project's README says of a confirmed delivery ("A driver is
\* assigned to the task ... Escrow contract releases payment to driver"): the
\* driver who was assigned is the one the escrow paid.  The escrow names a
\* driver of its own, before anyone is assigned.
AssignedDriverIsPaid ==
    \A d \in DeliveryIds :
        Known(d) /\ deliveries[d].status = "Delivered"
            => deliveries[d].driver = escrows[d].driver
=============================================================================
