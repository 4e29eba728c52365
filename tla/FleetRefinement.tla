--------------------------- MODULE FleetRefinement ---------------------------
(***************************************************************************)
(* The fleet contract implements FleetCharter: invitations and members are *)
(* read off the roster, the head count off the fleet's profile.            *)
(***************************************************************************)
EXTENDS Fleet

InvitedTo(f) == {u \in Users : roster[f][u] = "Pending"}

TreasuryOf(profile) == IF profile = None THEN None ELSE profile.treasury
HeadcountOf(profile) == IF profile = None THEN 0 ELSE profile.total_active_drivers

Charter == INSTANCE FleetCharter WITH
    People <- Users, Ids <- FleetIds, NoTreasury <- None,
    founded <- IF fleetCounter = None THEN 0 ELSE fleetCounter,
    treasury <- [f \in FleetIds |-> TreasuryOf(fleets[f])],
    invited <- [f \in FleetIds |-> InvitedTo(f)],
    members <- [f \in FleetIds |-> ActiveDrivers(f)],
    headcount <- [f \in FleetIds |-> HeadcountOf(fleets[f])]

\* Roster, profiles and counter, three records that every handler updates one
\* by one, change together as the charter says: nobody becomes a member
\* without an open invitation, nobody who joined or was removed keeps one, a
\* new fleet starts with an empty roster, and the published count is right
\* after every step, in whatever order drivers are invited, join, leave and
\* are invited again.
KeepsCharter == Charter!CharterSpec
=============================================================================
