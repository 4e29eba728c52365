----------------------------- MODULE SharedTypes -----------------------------
(***************************************************************************)
(* The vocabulary of the shared_types crate that the contracts exchange:   *)
(* statuses, and the value None that stands both for Option::None and for  *)
(* a storage key that holds nothing.  A record names the fields that some  *)
(* handler reads; timestamps that no handler reads are left out.           *)
(***************************************************************************)
EXTENDS Integers

CONSTANTS Users,          \* addresses that sign invocations
          EscrowAddress,  \* the address of the deployed escrow contract
          Tokens,         \* token contracts
          MaxDeliveryId,  \* bound on the u64 delivery identifiers
          None            \* an absent value

ASSUME SharedAssumption ==
    /\ EscrowAddress \notin Users
    /\ None \notin Users
    /\ MaxDeliveryId \in Nat

DeliveryIds == 1 .. MaxDeliveryId

\* Everyone who can hold tokens.
Accounts == Users \union {EscrowAddress}

EscrowStatus == {"Locked", "Released", "Refunded", "Paused"}

DeliveryStatus ==
    {"Pending", "Active", "InTransit", "Delivered", "Disputed", "Cancelled"}

EscrowRecord ==
    [sender : Users, recipient : Users, driver : Users, token : Tokens,
     amount : Nat, status : EscrowStatus, disputed_by : Users \union {None}]

ASSUME NoneIsNoEscrow == None \notin EscrowRecord

\* The platform fee is a number of basis points.
BasisPoints == 10000
=============================================================================
