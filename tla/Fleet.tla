-------------------------------- MODULE Fleet --------------------------------
(***************************************************************************)
(* fleet_management_contract, on top of the identity contract it calls.    *)
(*                                                                         *)
(* The nested call is a conjunct, as in Delivery: when register_driver     *)
(* panics, nothing that register_fleet stored before it remains.           *)
(***************************************************************************)
EXTENDS Identity, FiniteSets

CONSTANTS MaxFleetId,         \* bound on the u64 fleet identifiers
          IdentityAddress,    \* the address of the deployed identity contract
          ContractAddresses   \* contracts that the admin may name

ASSUME FleetAssumption ==
    /\ MaxFleetId \in Nat
    /\ IdentityAddress \in ContractAddresses
    /\ None \notin ContractAddresses
    /\ None \notin Nat

FleetIds == 1 .. MaxFleetId

DriverFleetStatus == {"Pending", "Active"}

FleetProfile == [owner : Users, treasury : Users, total_active_drivers : Nat]

ASSUME NoneIsNoFleet == None \notin FleetProfile \union DriverFleetStatus

VARIABLES fleetAdmin,        \* DataKey::Admin
          identityContract,  \* DataKey::IdentityContract
          fleetCounter,      \* DataKey::FleetCounter
          fleets,            \* DataKey::Fleet(id)
          roster             \* DataKey::DriverFleet(id, driver)

fleetOnlyVars ==
    <<fleetAdmin, identityContract, fleetCounter, fleets, roster>>
fleetVars == <<fleetOnlyVars, identityVars>>

-----------------------------------------------------------------------------
FleetExists(f) == fleets[f] # None

Linked == identityContract = IdentityAddress

fleet_init(admin) ==
    /\ fleetAdmin = None
    /\ fleetAdmin' = admin
    /\ fleetCounter' = 0
    /\ UNCHANGED <<identityContract, fleets, roster, identityVars>>

set_identity_contract(admin, contract) ==
    /\ fleetAdmin = admin
    /\ identityContract' = contract
    /\ UNCHANGED <<fleetAdmin, fleetCounter, fleets, roster, identityVars>>

\* Slip: an owner who is a driver already is let through.
RegisterOwner_Unless(owner) ==
    \/ identityContract = None /\ UNCHANGED identityVars
    \/ Linked /\ Registered(owner) /\ UNCHANGED identityVars
    \/ Linked /\ register_driver(owner)

\* What a linked identity contract adds to a registration; a contract of
\* another kind has no such handler, and the call panics.
RegisterOwner(owner) ==
    \/ identityContract = None /\ UNCHANGED identityVars
    \/ Linked /\ register_driver(owner)

NewFleet(owner, treasury) ==
    [owner |-> owner, treasury |-> treasury, total_active_drivers |-> 0]

\* Slip: the counter is not stored.
register_fleet_KeepsCounter(owner, treasury) ==
    /\ fleetCounter # None
    /\ fleetCounter < MaxFleetId
    /\ fleets' = [fleets EXCEPT ![fleetCounter + 1] = NewFleet(owner, treasury)]
    /\ RegisterOwner(owner)
    /\ UNCHANGED <<fleetAdmin, identityContract, fleetCounter, roster>>

register_fleet(owner, treasury) ==
    /\ fleetCounter # None
    /\ fleetCounter < MaxFleetId
    /\ fleetCounter' = fleetCounter + 1
    /\ fleets' = [fleets EXCEPT ![fleetCounter + 1] = NewFleet(owner, treasury)]
    /\ RegisterOwner(owner)
    /\ UNCHANGED <<fleetAdmin, identityContract, roster>>

update_fleet_treasury(owner, f, treasury) ==
    /\ FleetExists(f)
    /\ fleets[f].owner = owner
    /\ fleets' = [fleets EXCEPT ![f].treasury = treasury]
    /\ UNCHANGED <<fleetAdmin, identityContract, fleetCounter, roster,
                   identityVars>>

\* Slip: the owner makes somebody a member, and nobody asks the driver.
add_driver_to_fleet_Active(f, driver) ==
    /\ FleetExists(f)
    /\ roster[f][driver] = None
    /\ roster' = [roster EXCEPT ![f][driver] = "Active"]
    /\ fleets' = [fleets EXCEPT ![f].total_active_drivers = @ + 1]
    /\ UNCHANGED <<fleetAdmin, identityContract, fleetCounter, identityVars>>

\* Slip: a driver who is on the roster already is put back to Pending.
add_driver_to_fleet_Again(f, driver) ==
    /\ FleetExists(f)
    /\ roster' = [roster EXCEPT ![f][driver] = "Pending"]
    /\ UNCHANGED <<fleetAdmin, identityContract, fleetCounter, fleets,
                   identityVars>>

\* Signed by the owner on record.
add_driver_to_fleet(f, driver) ==
    /\ FleetExists(f)
    /\ roster[f][driver] = None
    /\ roster' = [roster EXCEPT ![f][driver] = "Pending"]
    /\ UNCHANGED <<fleetAdmin, identityContract, fleetCounter, fleets,
                   identityVars>>

accept_fleet_invite(f, driver) ==
    /\ FleetExists(f)
    /\ roster[f][driver] = "Pending"
    /\ roster' = [roster EXCEPT ![f][driver] = "Active"]
    /\ fleets' = [fleets EXCEPT ![f].total_active_drivers = @ + 1]
    /\ UNCHANGED <<fleetAdmin, identityContract, fleetCounter, identityVars>>

\* Slip: a removal subtracts, whoever is removed.
remove_driver_from_fleet_Unchecked(f, caller, driver) ==
    /\ FleetExists(f)
    /\ caller \in {fleets[f].owner, driver}
    /\ roster[f][driver] # None
    /\ fleets' = [fleets EXCEPT ![f].total_active_drivers = @ - 1]
    /\ roster' = [roster EXCEPT ![f][driver] = None]
    /\ UNCHANGED <<fleetAdmin, identityContract, fleetCounter, identityVars>>

\* Slip: an invitation that was never accepted is subtracted as well.
CountsAsActive_Any(f, driver) == fleets[f].total_active_drivers > 0

CountsAsActive(f, driver) ==
    roster[f][driver] = "Active" /\ fleets[f].total_active_drivers > 0

\* Either party ends it, the invitation as well as the membership.
remove_driver_from_fleet(f, caller, driver) ==
    /\ FleetExists(f)
    /\ caller \in {fleets[f].owner, driver}
    /\ roster[f][driver] # None
    /\ fleets' = IF CountsAsActive(f, driver)
                 THEN [fleets EXCEPT ![f].total_active_drivers = @ - 1]
                 ELSE fleets
    /\ roster' = [roster EXCEPT ![f][driver] = None]
    /\ UNCHANGED <<fleetAdmin, identityContract, fleetCounter, identityVars>>

get_payout_address(driver, f) ==
    IF roster[f][driver] = "Active" THEN fleets[f].treasury ELSE driver

-----------------------------------------------------------------------------
\* Both contracts are on the ledger and nobody called them.
FleetInit ==
    /\ IdentityInit
    /\ fleetAdmin = None
    /\ identityContract = None
    /\ fleetCounter = None
    /\ fleets = [f \in FleetIds |-> None]
    /\ roster = [f \in FleetIds |-> [u \in Users |-> None]]

FleetCalls ==
    \/ \E admin \in Users :
           \/ fleet_init(admin)
           \/ \E c \in ContractAddresses : set_identity_contract(admin, c)
    \/ \E owner, treasury \in Users :
           \/ register_fleet(owner, treasury)
           \/ \E f \in FleetIds : update_fleet_treasury(owner, f, treasury)
    \/ \E f \in FleetIds, driver \in Users :
           \/ add_driver_to_fleet(f, driver)
           \/ accept_fleet_invite(f, driver)
           \/ \E caller \in Users : remove_driver_from_fleet(f, caller, driver)

DirectIdentityCalls == IdentityNext /\ UNCHANGED fleetOnlyVars

FleetNext == FleetCalls \/ DirectIdentityCalls

FleetSpec == FleetInit /\ [][FleetNext]_fleetVars

-----------------------------------------------------------------------------
(* Properties.                                                             *)

\* Every variable of this contract holds a value of its storage type.
FleetTypeOK ==
    /\ fleetAdmin \in Users \union {None}
    /\ identityContract \in ContractAddresses \union {None}
    /\ fleetCounter \in FleetIds \union {0, None}
    /\ fleets \in [FleetIds -> FleetProfile \union {None}]
    /\ roster \in [FleetIds -> [Users -> DriverFleetStatus \union {None}]]

\* The counter kept in the fleet's profile is the number of its members, over
\* every order of invitations, acceptances and removals by either party; so
\* the removal's test for a positive counter never lets a member go uncounted.
ActiveDrivers(f) == {u \in Users : roster[f][u] = "Active"}

ActiveDriversCounted ==
    \A f \in FleetIds : FleetExists(f) =>
        fleets[f].total_active_drivers = Cardinality(ActiveDrivers(f))

\* The ids in use are exactly 1 .. counter: none is given out twice, none is
\* lost to a registration that failed, and no invitation or membership
\* belongs to a fleet that does not exist, so that get_payout_address finds
\* the fleet of every member.
FleetIdsAreGapless ==
    \A f \in FleetIds :
        /\ FleetExists(f) <=> fleetCounter # None /\ f <= fleetCounter
        /\ ~ FleetExists(f) => roster[f] = [u \in Users |-> None]

\* Where a driver's pay goes changes with consent only: to a treasury when the
\* driver accepts an invitation that was open, back to the driver when the
\* membership ends, and, for a member, when the owner on record, whom nothing
\* replaces, names another treasury.
PayoutStep ==
    \A f \in FleetIds, u \in Users : FleetExists(f) =>
        /\ fleets'[f] # None
        /\ fleets'[f].owner = fleets[f].owner
        /\ get_payout_address(u, f)' # get_payout_address(u, f) =>
              \/ roster[f][u] = "Pending" /\ roster'[f][u] = "Active"
              \/ roster[f][u] = "Active" /\ roster'[f][u] = None
              \/ /\ roster[f][u] = "Active" /\ roster'[f][u] = "Active"
                 /\ fleets'[f].treasury # fleets[f].treasury

PayoutsMoveByConsent == [][PayoutStep]_fleetVars

\* While the identity contract is linked, a fleet and its owner's profile
\* come into being together or not at all: no fleet is registered for an
\* owner who has a profile already, a second fleet of the same owner
\* included, and no registration that fails uses up an id.
RegistrationStep ==
    fleetCounter' # fleetCounter /\ fleetCounter # None =>
        LET new == fleets'[fleetCounter'] IN
        /\ new # None
        /\ Linked => ~ Registered(new.owner) /\ profiles'[new.owner] # None
        /\ ~ Linked => profiles' = profiles

OwnersGetProfiles == [][RegistrationStep]_fleetVars
=============================================================================
