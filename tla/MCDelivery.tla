----------------------------- MODULE MCDelivery -----------------------------
(***************************************************************************)
(* Small instances of the delivery and the escrow contract together.       *)
(***************************************************************************)
EXTENDS Delivery, TLC

UserSymmetry == Permutations(Users)

\* Bounds of the run with two deliveries: the escrow's administration stays
\* with the deployer, the delivery contract is initialised before it is used,
\* and an escrow is opened by the sender of the delivery, for its recipient,
\* with the driver that is or will be assigned.
OrdinaryUse ==
    /\ pendingAdmin = None
    /\ deliveryAdmin = None => deliveryCounter = 0
    /\ \A d \in DeliveryIds : Exists(d) =>
          /\ Known(d)
          /\ escrows[d].sender = deliveries[d].sender
          /\ escrows[d].recipient = deliveries[d].recipient
          /\ deliveries[d].driver \in {None, escrows[d].driver}
=============================================================================
