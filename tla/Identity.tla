------------------------------ MODULE Identity ------------------------------
(***************************************************************************)
(* identity_reputation_contract: the profiles of the drivers, their        *)
(* reputation and the tier that follows from it.                           *)
(*                                                                         *)
(* A handler is one action, as in Escrow.  Addresses of contracts that     *)
(* call this one are not told apart from those of users: the contract      *)
(* only compares them.                                                     *)
(***************************************************************************)
EXTENDS Integers

CONSTANTS Users,      \* addresses that can sign an invocation
          None,       \* a storage key that is not set
          Weights,    \* parcel weights, in grams, that a caller reports
          Penalties,  \* points that a caller takes away
          U32Max      \* largest counter

MAX_REPUTATION == 100
ENTERPRISE_THRESHOLD == 75

ASSUME IdentityAssumption ==
    /\ None \notin Users
    /\ Weights \subseteq Nat
    /\ Penalties \subseteq Nat
    /\ U32Max \in Nat

\* The address is the key, and nothing reads the time of the registration.
DriverProfile == [score : 0 .. MAX_REPUTATION, completed : 0 .. U32Max,
                  kyc : BOOLEAN]

ASSUME NoneIsNoProfile == None \notin DriverProfile

VARIABLES identityAdmin,  \* DataKey::Admin
          reporters,      \* the addresses under DataKey::DeliveryContract and
                          \* DataKey::DisputeContract, {} while unset
          authorized,     \* the a for which DataKey::AuthorizedContract(a) is
                          \* set; no handler asks for it
          profiles        \* DataKey::DriverProfile(address)

identityVars == <<identityAdmin, reporters, authorized, profiles>>

-----------------------------------------------------------------------------
Registered(driver) == profiles[driver] # None

is_identity_admin(caller) == identityAdmin = caller

IdentityUninitialised == identityAdmin = None

\* Asks for no signature, and leaves the two reporters unset.
identity_init(admin) ==
    /\ IdentityUninitialised
    /\ identityAdmin' = admin
    /\ UNCHANGED <<reporters, authorized, profiles>>

initialize(admin, deliveryContract, disputeContract) ==
    /\ IdentityUninitialised
    /\ identityAdmin' = admin
    /\ reporters' = {deliveryContract, disputeContract}
    /\ UNCHANGED <<authorized, profiles>>

set_authorized_contract(admin, contract, allowed) ==
    /\ is_identity_admin(admin)
    /\ authorized' = IF allowed THEN authorized \union {contract}
                     ELSE authorized \ {contract}
    /\ UNCHANGED <<identityAdmin, reporters, profiles>>

\* Slip: a driver can register again, and starts afresh.
register_driver_Again(driver) ==
    /\ profiles' = [profiles EXCEPT ![driver] =
           [score |-> 50, completed |-> 0, kyc |-> FALSE]]
    /\ UNCHANGED <<identityAdmin, reporters, authorized>>

\* Works without initialisation.
register_driver(driver) ==
    /\ ~ Registered(driver)
    /\ profiles' = [profiles EXCEPT ![driver] =
           [score |-> 50, completed |-> 0, kyc |-> FALSE]]
    /\ UNCHANGED <<identityAdmin, reporters, authorized>>

update_driver_kyc_status(admin, driver, verified) ==
    /\ is_identity_admin(admin)
    /\ Registered(driver)
    /\ profiles' = [profiles EXCEPT ![driver].kyc = verified]
    /\ UNCHANGED <<identityAdmin, reporters, authorized>>

\* What a completed delivery earns: 5 to 10 points.
Points(weight, fragile) ==
    5 + (IF weight > 5000 THEN 3 ELSE 0) + (IF fragile THEN 2 ELSE 0)

\* Slip: the sum is not capped.
Capped_Not(n) == n

Capped(n) == IF n > MAX_REPUTATION THEN MAX_REPUTATION ELSE n

\* Slips: the delivery is not counted; the caller is not looked at.
increase_reputation_Uncounted(caller, driver, weight, fragile) ==
    /\ caller \in reporters
    /\ Registered(driver)
    /\ profiles' = [profiles EXCEPT
           ![driver].score = Capped(@ + Points(weight, fragile))]
    /\ UNCHANGED <<identityAdmin, reporters, authorized>>

increase_reputation_Anyone(caller, driver, weight, fragile) ==
    /\ Registered(driver)
    /\ profiles[driver].completed < U32Max
    /\ profiles' = [profiles EXCEPT
           ![driver].score = Capped(@ + Points(weight, fragile)),
           ![driver].completed = @ + 1]
    /\ UNCHANGED <<identityAdmin, reporters, authorized>>

\* The delivery id goes into the event only: the same delivery can be
\* reported any number of times.  The counter is a checked u32.
increase_reputation(caller, driver, weight, fragile) ==
    /\ caller \in reporters
    /\ Registered(driver)
    /\ profiles[driver].completed < U32Max
    /\ profiles' = [profiles EXCEPT
           ![driver].score = Capped(@ + Points(weight, fragile)),
           ![driver].completed = @ + 1]
    /\ UNCHANGED <<identityAdmin, reporters, authorized>>

decrease_reputation(caller, driver, points) ==
    /\ caller \in reporters
    /\ Registered(driver)
    /\ profiles' = [profiles EXCEPT
           ![driver].score = IF @ > points THEN @ - points ELSE 0]
    /\ UNCHANGED <<identityAdmin, reporters, authorized>>

get_driver_tier(driver) ==
    CASE profiles[driver].score >= 75 -> "Gold"
      [] profiles[driver].score \in 50 .. 74 -> "Silver"
      [] OTHER -> "Bronze"

is_eligible_for_enterprise(driver) ==
    profiles[driver].score >= ENTERPRISE_THRESHOLD

-----------------------------------------------------------------------------
\* The contract is on the ledger and nobody called it.
IdentityInit ==
    /\ identityAdmin = None
    /\ reporters = {}
    /\ authorized = {}
    /\ profiles = [u \in Users |-> None]

IdentityAdministration ==
    \E admin \in Users :
        \/ identity_init(admin)
        \/ \E delivery, dispute \in Users : initialize(admin, delivery, dispute)
        \/ \E contract \in Users, allowed \in BOOLEAN :
               set_authorized_contract(admin, contract, allowed)
        \/ \E driver \in Users, verified \in BOOLEAN :
               update_driver_kyc_status(admin, driver, verified)

ReputationReports ==
    \E caller, driver \in Users :
        \/ \E weight \in Weights, fragile \in BOOLEAN :
               increase_reputation(caller, driver, weight, fragile)
        \/ \E points \in Penalties : decrease_reputation(caller, driver, points)

IdentityNext ==
    \/ IdentityAdministration
    \/ \E driver \in Users : register_driver(driver)
    \/ ReputationReports

IdentitySpec == IdentityInit /\ [][IdentityNext]_identityVars

-----------------------------------------------------------------------------
(* Properties.                                                             *)

\* Every variable holds a value of its storage type; in particular a
\* reputation stays within 0 .. 100, however long the contract is used.
IdentityTypeOK ==
    /\ identityAdmin \in Users \union {None}
    /\ reporters \subseteq Users
    /\ authorized \subseteq Users
    /\ profiles \in [Users -> DriverProfile \union {None}]

\* A tier is earned by deliveries: no sequence of increases, decreases and
\* registrations gives a driver more than 10 points for each delivery counted,
\* so that nobody is Gold before the third one; and the two thresholds, which
\* the code writes down twice, admit the same drivers.
TierIsEarned ==
    \A u \in Users : Registered(u) =>
        /\ profiles[u].score <= 50 + 10 * profiles[u].completed
        /\ get_driver_tier(u) = "Gold" => profiles[u].completed >= 3
        /\ is_eligible_for_enterprise(u) <=> get_driver_tier(u) = "Gold"

\* A profile stays: nothing removes it or starts it afresh, its deliveries are
\* counted one at a time and never down, a score rises only with a delivery
\* that is counted, and what the admin finds out about the driver's identity
\* is no reason to change either.
ProfileStep ==
    \A u \in Users : Registered(u) =>
        LET old == profiles[u] new == profiles'[u] IN
        /\ new # None
        /\ new.completed \in {old.completed, old.completed + 1}
        /\ new.score > old.score => new.completed = old.completed + 1
        /\ new.kyc # old.kyc =>
              identityAdmin # None /\ new = [old EXCEPT !.kyc = new.kyc]

ProfilesPersist == [][ProfileStep]_identityVars

\* The call that makes the contract initialised may be init, which names
\* nobody who may report deliveries: as long as nobody was named, every
\* profile keeps the score it started with.
ScoresNeedReporters ==
    reporters = {} =>
        \A u \in Users : Registered(u) =>
            profiles[u].score = 50 /\ profiles[u].completed = 0
=============================================================================
