---------------------------- MODULE FleetProofs ----------------------------
(***************************************************************************)
(* Theorems about the fleet contract and the identity contract it calls,   *)
(* for any set of addresses and any number of fleets.                      *)
(***************************************************************************)
EXTENDS FleetRefinement, IdentityProofs, FiniteSetTheorems

-----------------------------------------------------------------------------
(* The fleet contract changes profiles by calling the identity contract.   *)

LEMMA FleetStepIsIdentityStep ==
    ASSUME [FleetNext]_fleetVars PROVE [IdentityNext]_identityVars
<1>1. ASSUME NEW owner \in Users, NEW treasury \in Users,
             register_fleet(owner, treasury)
      PROVE  [IdentityNext]_identityVars
  BY <1>1 DEF register_fleet, RegisterOwner, IdentityNext
<1>2. CASE FleetCalls /\ ~ \E owner, treasury \in Users :
                               register_fleet(owner, treasury)
  BY <1>2 DEF FleetCalls, fleet_init, set_identity_contract,
     update_fleet_treasury, add_driver_to_fleet, accept_fleet_invite,
     remove_driver_from_fleet
<1>3. CASE DirectIdentityCalls
  BY <1>3 DEF DirectIdentityCalls
<1>4. CASE UNCHANGED fleetVars
  BY <1>4 DEF fleetVars
<1>5. QED
  BY <1>1, <1>2, <1>3, <1>4 DEF FleetNext

\* Seen from the identity contract, every behaviour of the two contracts is
\* one of its own: what is proved of IdentitySpec holds with fleets as well.
THEOREM FleetCallsIdentity == FleetSpec => IdentitySpec
<1>1. FleetInit => IdentityInit
  BY DEF FleetInit
<1>2. QED
  BY <1>1, FleetStepIsIdentityStep, PTL DEF FleetSpec, IdentitySpec

\* A fleet registered for a driver can neither reset that driver's profile
\* nor lose it.
THEOREM FleetsKeepProfiles == FleetSpec => ProfilesPersist
BY FleetCallsIdentity, ProfilesAreKept, PTL

\* nor earn the driver a tier or a point of reputation: with fleets in use as
\* without them, scores stay within 0 .. 100 and are earned by counted
\* deliveries, and as long as nobody may report any, they do not move.
THEOREM FleetsLeaveScoresEarned ==
    FleetSpec => /\ []IdentityTypeOK
                 /\ []TierIsEarned
                 /\ []ScoresNeedReporters
BY FleetCallsIdentity, IdentityTypeCorrect, TiersAreEarned,
   NoScoreWithoutReporters, PTL

-----------------------------------------------------------------------------
(* Types.                                                                  *)

LEMMA FleetIsTyped ==
    ASSUME FleetTypeOK, NEW f \in FleetIds, FleetExists(f)
    PROVE  /\ fleets[f] \in FleetProfile
           /\ fleets[f].owner \in Users /\ fleets[f].treasury \in Users
           /\ fleets[f].total_active_drivers \in Nat
<1>1. fleets[f] \in FleetProfile
  BY DEF FleetTypeOK, FleetExists
<1>2. QED
  BY <1>1 DEF FleetProfile

LEMMA FleetInitIsTyped == FleetInit => FleetTypeOK
BY DEF FleetInit, FleetTypeOK

LEMMA NewFleetIsTyped ==
    ASSUME NEW owner \in Users, NEW treasury \in Users
    PROVE  /\ NewFleet(owner, treasury) \in FleetProfile
           /\ NewFleet(owner, treasury) # None
BY NoneIsNoFleet DEF NewFleet, FleetProfile

LEMMA NewIdIsTyped ==
    ASSUME FleetTypeOK, fleetCounter # None, fleetCounter < MaxFleetId
    PROVE  fleetCounter \in Nat /\ fleetCounter + 1 \in FleetIds
BY FleetAssumption DEF FleetTypeOK, FleetIds

\* Where a handler changes a fleet's count, it changes nothing else of it.
LEMMA RecountIsTyped ==
    ASSUME FleetTypeOK, NEW f \in FleetIds, FleetExists(f), NEW n \in Nat
    PROVE  LET new == [fleets[f] EXCEPT !.total_active_drivers = n] IN
           /\ new \in FleetProfile /\ new # None
           /\ new.total_active_drivers = n
           /\ new.owner = fleets[f].owner /\ new.treasury = fleets[f].treasury
BY FleetIsTyped, NoneIsNoFleet DEF FleetProfile

\* The two handlers that change a fleet's count change nothing else of it.
LEMMA RosterCallsRecount ==
    ASSUME FleetTypeOK, NEW f \in FleetIds, NEW driver \in Users,
           \/ accept_fleet_invite(f, driver)
           \/ \E caller \in Users : remove_driver_from_fleet(f, caller, driver)
    PROVE  \/ fleets' = fleets
           \/ \E n \in Nat :
                 fleets' = [fleets EXCEPT ![f] =
                               [fleets[f] EXCEPT !.total_active_drivers = n]]
<1>1. FleetExists(f)
  BY DEF accept_fleet_invite, remove_driver_from_fleet
<1>2. CASE accept_fleet_invite(f, driver)
  <2>1. fleets[f].total_active_drivers + 1 \in Nat
    BY <1>1, FleetIsTyped
  <2>2. QED
    BY <1>2, <2>1 DEF accept_fleet_invite, FleetTypeOK
<1>3. CASE /\ fleets' # fleets
           /\ \E caller \in Users : remove_driver_from_fleet(f, caller, driver)
  <2>1. CountsAsActive(f, driver)
    BY <1>3 DEF remove_driver_from_fleet
  <2>2. fleets[f].total_active_drivers - 1 \in Nat
    BY <1>1, <2>1, FleetIsTyped DEF CountsAsActive
  <2>3. QED
    BY <1>3, <2>1, <2>2 DEF remove_driver_from_fleet, FleetTypeOK
<1>4. QED
  BY <1>2, <1>3

LEMMA RemovalIsTyped ==
    ASSUME FleetTypeOK, NEW f \in FleetIds, NEW caller, NEW driver \in Users,
           remove_driver_from_fleet(f, caller, driver)
    PROVE  fleets' \in [FleetIds -> FleetProfile \union {None}]
<1>1. CASE CountsAsActive(f, driver)
  <2> DEFINE n == fleets[f].total_active_drivers - 1
  <2>1. FleetExists(f) /\ n \in Nat
    BY <1>1, FleetIsTyped DEF remove_driver_from_fleet, CountsAsActive
  <2>2. fleets' = [fleets EXCEPT ![f] =
                      [fleets[f] EXCEPT !.total_active_drivers = n]]
    BY <1>1 DEF remove_driver_from_fleet, FleetTypeOK
  <2> HIDE DEF n
  <2>3. QED
    BY <2>1, <2>2, RecountIsTyped DEF FleetTypeOK
<1>2. CASE ~ CountsAsActive(f, driver)
  BY <1>2 DEF remove_driver_from_fleet, FleetTypeOK
<1>3. QED
  BY <1>1, <1>2

LEMMA FleetTypeIsKept ==
    ASSUME FleetTypeOK, [FleetNext]_fleetVars
    PROVE  FleetTypeOK'
<1>1. ASSUME NEW admin \in Users, fleet_init(admin)
      PROVE  FleetTypeOK'
  BY <1>1 DEF fleet_init, FleetTypeOK
<1>2. ASSUME NEW admin \in Users, NEW c \in ContractAddresses,
             set_identity_contract(admin, c)
      PROVE  FleetTypeOK'
  BY <1>2 DEF set_identity_contract, FleetTypeOK
<1>3. ASSUME NEW owner \in Users, NEW treasury \in Users,
             register_fleet(owner, treasury)
      PROVE  FleetTypeOK'
  <2>1. /\ fleetCounter + 1 \in FleetIds
        /\ NewFleet(owner, treasury) \in FleetProfile
    BY <1>3, NewIdIsTyped, NewFleetIsTyped DEF register_fleet
  <2>2. QED
    BY <1>3, <2>1 DEF register_fleet, FleetTypeOK
<1>4. ASSUME NEW owner \in Users, NEW treasury \in Users, NEW f \in FleetIds,
             update_fleet_treasury(owner, f, treasury)
      PROVE  FleetTypeOK'
  <2>1. [fleets[f] EXCEPT !.treasury = treasury] \in FleetProfile
    BY <1>4, FleetIsTyped DEF update_fleet_treasury, FleetProfile
  <2>2. QED
    BY <1>4, <2>1 DEF update_fleet_treasury, FleetTypeOK
<1>5. ASSUME NEW f \in FleetIds, NEW driver \in Users,
             add_driver_to_fleet(f, driver)
      PROVE  FleetTypeOK'
  BY <1>5 DEF add_driver_to_fleet, FleetTypeOK, DriverFleetStatus
<1>6. ASSUME NEW f \in FleetIds, NEW driver \in Users,
             accept_fleet_invite(f, driver)
      PROVE  FleetTypeOK'
  <2> DEFINE n == fleets[f].total_active_drivers + 1
  <2>1. FleetExists(f) /\ n \in Nat
    BY <1>6, FleetIsTyped DEF accept_fleet_invite
  <2>2. fleets' = [fleets EXCEPT ![f] =
                      [fleets[f] EXCEPT !.total_active_drivers = n]]
    BY <1>6 DEF accept_fleet_invite, FleetTypeOK
  <2> HIDE DEF n
  <2>3. fleets' \in [FleetIds -> FleetProfile \union {None}]
    BY <2>1, <2>2, RecountIsTyped DEF FleetTypeOK
  <2>4. QED
    BY <1>6, <2>3 DEF accept_fleet_invite, FleetTypeOK, DriverFleetStatus
<1>7. ASSUME NEW f \in FleetIds, NEW driver \in Users, NEW caller \in Users,
             remove_driver_from_fleet(f, caller, driver)
      PROVE  FleetTypeOK'
  <2>1. fleets' \in [FleetIds -> FleetProfile \union {None}]
    BY <1>7, RemovalIsTyped
  <2>2. QED
    BY <1>7, <2>1 DEF remove_driver_from_fleet, FleetTypeOK, DriverFleetStatus
<1>8. CASE UNCHANGED fleetOnlyVars
  BY <1>8 DEF fleetOnlyVars, FleetTypeOK
<1>9. CASE FleetCalls
  BY <1>1, <1>2, <1>3, <1>4, <1>5, <1>6, <1>7, <1>9 DEF FleetCalls
<1>10. QED
  BY <1>8, <1>9 DEF FleetNext, DirectIdentityCalls, fleetVars

\* In particular no count of members is ever negative.
THEOREM FleetTypeCorrect == FleetSpec => []FleetTypeOK
BY FleetInitIsTyped, FleetTypeIsKept, PTL DEF FleetSpec

-----------------------------------------------------------------------------
(* Ids.                                                                    *)

\* Everything but a registration and the initialisation keeps counter, set of
\* fleets and, for a fleet that does not exist, the roster.
IdsAreKept ==
    /\ fleetAdmin' = fleetAdmin /\ fleetCounter' = fleetCounter
    /\ \A f \in FleetIds : FleetExists(f)' <=> FleetExists(f)
    /\ \A f \in FleetIds : ~ FleetExists(f) => roster'[f] = roster[f]

LEMMA MostStepsKeepIds ==
    ASSUME FleetTypeOK, [FleetNext]_fleetVars
    PROVE  \/ \E admin \in Users : fleet_init(admin)
           \/ \E owner, treasury \in Users : register_fleet(owner, treasury)
           \/ IdsAreKept
<1>1. CASE UNCHANGED fleetOnlyVars
  BY <1>1 DEF fleetOnlyVars, IdsAreKept, FleetExists
<1>2. ASSUME NEW admin \in Users, NEW c \in ContractAddresses,
             set_identity_contract(admin, c)
      PROVE  IdsAreKept
  BY <1>2 DEF set_identity_contract, IdsAreKept, FleetExists
<1>3. ASSUME NEW owner \in Users, NEW treasury \in Users, NEW f \in FleetIds,
             update_fleet_treasury(owner, f, treasury)
      PROVE  IdsAreKept
  <2>1. [fleets[f] EXCEPT !.treasury = treasury] \in FleetProfile
    BY <1>3, FleetIsTyped DEF update_fleet_treasury, FleetProfile
  <2>2. [fleets[f] EXCEPT !.treasury = treasury] # None
    BY <2>1, NoneIsNoFleet
  <2>3. QED
    BY <1>3, <2>2 DEF update_fleet_treasury, IdsAreKept, FleetExists,
       FleetTypeOK
<1>4. ASSUME NEW f \in FleetIds, NEW driver \in Users,
             add_driver_to_fleet(f, driver)
      PROVE  IdsAreKept
  BY <1>4 DEF add_driver_to_fleet, IdsAreKept, FleetExists, FleetTypeOK
<1>5. ASSUME NEW f \in FleetIds, NEW driver \in Users,
             accept_fleet_invite(f, driver)
      PROVE  IdsAreKept
  <2> DEFINE n == fleets[f].total_active_drivers + 1
             new == [fleets[f] EXCEPT !.total_active_drivers = n]
  <2>1. FleetExists(f) /\ n \in Nat
    BY <1>5, FleetIsTyped DEF accept_fleet_invite
  <2>2. fleets' = [fleets EXCEPT ![f] = new]
    BY <1>5 DEF accept_fleet_invite, FleetTypeOK
  <2> HIDE DEF n
  <2>3. new # None
    BY <2>1, RecountIsTyped
  <2> HIDE DEF new
  <2>4. QED
    BY <1>5, <2>1, <2>2, <2>3 DEF accept_fleet_invite, IdsAreKept,
       FleetExists, FleetTypeOK
<1>6. ASSUME NEW f \in FleetIds, NEW driver \in Users, NEW caller \in Users,
             remove_driver_from_fleet(f, caller, driver)
      PROVE  IdsAreKept
  <2>1. \A g \in FleetIds : FleetExists(g)' <=> FleetExists(g)
    <3>1. CASE CountsAsActive(f, driver)
      <4> DEFINE n == fleets[f].total_active_drivers - 1
                 new == [fleets[f] EXCEPT !.total_active_drivers = n]
      <4>1. FleetExists(f) /\ n \in Nat
        BY <1>6, <3>1, FleetIsTyped DEF remove_driver_from_fleet, CountsAsActive
      <4>2. fleets' = [fleets EXCEPT ![f] = new]
        BY <1>6, <3>1 DEF remove_driver_from_fleet, FleetTypeOK
      <4> HIDE DEF n
      <4>3. new # None
        BY <4>1, RecountIsTyped
      <4> HIDE DEF new
      <4>4. QED
        BY <4>1, <4>2, <4>3 DEF FleetExists, FleetTypeOK
    <3>2. CASE ~ CountsAsActive(f, driver)
      BY <1>6, <3>2 DEF remove_driver_from_fleet, FleetExists
    <3>3. QED
      BY <3>1, <3>2
  <2>2. QED
    BY <1>6, <2>1 DEF remove_driver_from_fleet, IdsAreKept, FleetExists,
       FleetTypeOK
<1>7. QED
  BY <1>1, <1>2, <1>3, <1>4, <1>5, <1>6
     DEF FleetNext, FleetCalls, DirectIdentityCalls, fleetVars

\* What makes FleetIdsAreGapless inductive: the counter is stored together
\* with the admin, so that init cannot set it back.
GaplessInv ==
    /\ FleetIdsAreGapless
    /\ fleetAdmin = None => fleetCounter = None

LEMMA GaplessIsKept ==
    ASSUME FleetTypeOK, GaplessInv, [FleetNext]_fleetVars
    PROVE  GaplessInv'
<1>1. ASSUME NEW admin \in Users, fleet_init(admin)
      PROVE  GaplessInv'
  <2>1. \A f \in FleetIds : ~ FleetExists(f)
    BY <1>1 DEF fleet_init, GaplessInv, FleetIdsAreGapless
  <2>2. /\ fleetAdmin' = admin /\ admin # None
        /\ fleetCounter' = 0 /\ fleets' = fleets /\ roster' = roster
    BY <1>1, IdentityAssumption DEF fleet_init
  <2>3. 0 # None /\ \A f \in FleetIds : ~ (f <= 0)
    BY FleetAssumption DEF FleetIds
  <2>4. QED
    BY <2>1, <2>2, <2>3 DEF GaplessInv, FleetIdsAreGapless, FleetExists
<1>2. ASSUME NEW owner \in Users, NEW treasury \in Users,
             register_fleet(owner, treasury)
      PROVE  GaplessInv'
  <2> DEFINE id == fleetCounter + 1
  <2>1. /\ fleetCounter \in Nat /\ id \in FleetIds /\ id # None
        /\ fleetCounter # None
    BY <1>2, NewIdIsTyped, FleetAssumption DEF register_fleet, FleetIds
  <2>2. /\ fleetAdmin' = fleetAdmin /\ fleetCounter' = id /\ roster' = roster
        /\ \A f \in FleetIds :
              fleets'[f] = IF f = id THEN NewFleet(owner, treasury)
                                     ELSE fleets[f]
    BY <1>2, <2>1 DEF register_fleet, FleetTypeOK
  <2>3. \A f \in FleetIds : f <= id <=> f = id \/ f <= fleetCounter
    BY <2>1 DEF FleetIds
  <2> HIDE DEF id
  <2>4. \A f \in FleetIds : FleetExists(f)' <=> f = id \/ FleetExists(f)
    BY <2>2, NewFleetIsTyped DEF FleetExists
  <2>5. QED
    BY <2>1, <2>2, <2>3, <2>4 DEF GaplessInv, FleetIdsAreGapless
<1>3. ASSUME IdsAreKept
      PROVE  GaplessInv'
  BY <1>3 DEF IdsAreKept, GaplessInv, FleetIdsAreGapless
<1>4. QED
  BY <1>1, <1>2, <1>3, MostStepsKeepIds

LEMMA GaplessHolds == FleetSpec => []GaplessInv
<1>1. FleetInit => GaplessInv
  <2>1. \A f \in FleetIds : f \in Int
    BY DEF FleetIds
  <2>2. QED
    BY <2>1 DEF FleetInit, GaplessInv, FleetIdsAreGapless, FleetExists
<1>2. QED
  BY <1>1, FleetTypeCorrect, GaplessIsKept, PTL DEF FleetSpec

\* Every id up to the counter names a fleet, no other one does, and no driver
\* is on the roster of a fleet that does not exist.
THEOREM IdsHaveNoGaps == FleetSpec => []FleetIdsAreGapless
<1>1. GaplessInv => FleetIdsAreGapless
  BY DEF GaplessInv
<1>2. QED
  BY <1>1, GaplessHolds, PTL

-----------------------------------------------------------------------------
(* Members.                                                                *)

\* What makes ActiveDriversCounted inductive: the members of a fleet are
\* finitely many, even if the addresses are not.
MembersCounted(f) ==
    /\ IsFiniteSet(ActiveDrivers(f))
    /\ FleetExists(f) =>
          fleets[f].total_active_drivers = Cardinality(ActiveDrivers(f))

CountInv == \A f \in FleetIds : MembersCounted(f)

LEMMA SameMembersSameCount ==
    ASSUME NEW f \in FleetIds, MembersCounted(f), fleets'[f] = fleets[f],
           ActiveDrivers(f)' = ActiveDrivers(f)
    PROVE  MembersCounted(f)'
BY DEF MembersCounted, FleetExists

LEMMA JoiningCounts ==
    ASSUME FleetTypeOK, CountInv, NEW f \in FleetIds, NEW driver \in Users,
           accept_fleet_invite(f, driver)
    PROVE  CountInv'
<1> DEFINE n == fleets[f].total_active_drivers + 1
           new == [fleets[f] EXCEPT !.total_active_drivers = n]
<1>1. FleetExists(f) /\ n \in Nat /\ roster[f][driver] = "Pending"
  BY FleetIsTyped DEF accept_fleet_invite
<1>2. /\ fleets' = [fleets EXCEPT ![f] = new]
      /\ roster' = [roster EXCEPT ![f][driver] = "Active"]
  BY DEF accept_fleet_invite, FleetTypeOK
<1> HIDE DEF n
<1>3. new.total_active_drivers = n
  BY <1>1, RecountIsTyped
<1> HIDE DEF new
<1>4. ASSUME NEW g \in FleetIds \ {f}
      PROVE  MembersCounted(g)'
  <2>1. fleets'[g] = fleets[g] /\ roster'[g] = roster[g]
    BY <1>2 DEF FleetTypeOK
  <2>2. ActiveDrivers(g)' = ActiveDrivers(g)
    BY <2>1 DEF ActiveDrivers
  <2>3. QED
    BY <2>1, <2>2, SameMembersSameCount DEF CountInv
<1>5. MembersCounted(f)'
  <2>1. /\ ActiveDrivers(f)' = ActiveDrivers(f) \union {driver}
        /\ driver \notin ActiveDrivers(f)
    BY <1>1, <1>2 DEF ActiveDrivers, FleetTypeOK
  <2>2. /\ IsFiniteSet(ActiveDrivers(f))
        /\ fleets[f].total_active_drivers = Cardinality(ActiveDrivers(f))
    BY <1>1 DEF CountInv, MembersCounted
  <2>3. /\ IsFiniteSet(ActiveDrivers(f)')
        /\ Cardinality(ActiveDrivers(f)') = Cardinality(ActiveDrivers(f)) + 1
    BY <2>1, <2>2, FS_AddElement
  <2>4. fleets'[f].total_active_drivers = Cardinality(ActiveDrivers(f)) + 1
    BY <1>2, <1>3, <2>2 DEF n, FleetTypeOK
  <2>5. QED
    BY <2>3, <2>4 DEF MembersCounted
<1>6. QED
  BY <1>4, <1>5 DEF CountInv

LEMMA LeavingCounts ==
    ASSUME FleetTypeOK, CountInv, NEW f \in FleetIds, NEW caller,
           NEW driver \in Users, remove_driver_from_fleet(f, caller, driver)
    PROVE  CountInv'
<1>1. /\ FleetExists(f) /\ fleets[f].total_active_drivers \in Nat
      /\ IsFiniteSet(ActiveDrivers(f))
      /\ fleets[f].total_active_drivers = Cardinality(ActiveDrivers(f))
  BY FleetIsTyped DEF remove_driver_from_fleet, CountInv, MembersCounted
<1>2. roster' = [roster EXCEPT ![f][driver] = None]
  BY DEF remove_driver_from_fleet
<1>3. \A g \in FleetIds \ {f} : fleets'[g] = fleets[g] /\ roster'[g] = roster[g]
  BY DEF remove_driver_from_fleet, FleetTypeOK
<1>4. ASSUME NEW g \in FleetIds \ {f}
      PROVE  MembersCounted(g)'
  <2>1. ActiveDrivers(g)' = ActiveDrivers(g)
    BY <1>3 DEF ActiveDrivers
  <2>2. QED
    BY <1>3, <2>1, SameMembersSameCount DEF CountInv
<1>5. ActiveDrivers(f)' = ActiveDrivers(f) \ {driver}
  BY <1>2, NoneIsNoFleet DEF ActiveDrivers, FleetTypeOK, DriverFleetStatus
<1>6. CASE driver \in ActiveDrivers(f)
  <2> DEFINE n == fleets[f].total_active_drivers - 1
             new == [fleets[f] EXCEPT !.total_active_drivers = n]
  <2>1. /\ IsFiniteSet(ActiveDrivers(f)')
        /\ Cardinality(ActiveDrivers(f)') = n
    BY <1>1, <1>5, <1>6, FS_RemoveElement
  <2>2. n \in Nat
    BY <2>1, FS_CardinalityType
  <2>3. CountsAsActive(f, driver)
    BY <1>1, <1>6, <2>2 DEF CountsAsActive, ActiveDrivers
  <2>4. fleets' = [fleets EXCEPT ![f] = new]
    BY <2>3 DEF remove_driver_from_fleet, FleetTypeOK
  <2> HIDE DEF n
  <2>5. new.total_active_drivers = n
    BY <1>1, <2>2, RecountIsTyped
  <2> HIDE DEF new
  <2>6. fleets'[f].total_active_drivers = n
    BY <2>4, <2>5 DEF FleetTypeOK
  <2>7. MembersCounted(f)'
    BY <2>1, <2>6 DEF MembersCounted
  <2>8. QED
    BY <1>4, <2>7 DEF CountInv
<1>7. CASE driver \notin ActiveDrivers(f)
  <2>1. ActiveDrivers(f)' = ActiveDrivers(f)
    BY <1>5, <1>7
  <2>2. fleets' = fleets
    BY <1>7 DEF remove_driver_from_fleet, CountsAsActive, ActiveDrivers
  <2>3. MembersCounted(f)'
    BY <2>1, <2>2, SameMembersSameCount DEF CountInv
  <2>4. QED
    BY <1>4, <2>3 DEF CountInv
<1>8. QED
  BY <1>6, <1>7

LEMMA CountIsKept ==
    ASSUME FleetTypeOK, FleetIdsAreGapless, CountInv, [FleetNext]_fleetVars
    PROVE  CountInv'
<1>1. ASSUME fleets' = fleets, roster' = roster
      PROVE  CountInv'
  BY <1>1 DEF CountInv, MembersCounted, ActiveDrivers, FleetExists
<1>2. ASSUME NEW admin \in Users, fleet_init(admin)
      PROVE  CountInv'
  BY <1>1, <1>2 DEF fleet_init
<1>3. ASSUME NEW admin \in Users, NEW c \in ContractAddresses,
             set_identity_contract(admin, c)
      PROVE  CountInv'
  BY <1>1, <1>3 DEF set_identity_contract
<1>4. ASSUME NEW owner \in Users, NEW treasury \in Users,
             register_fleet(owner, treasury)
      PROVE  CountInv'
  <2>1. PICK id \in FleetIds : id = fleetCounter + 1 /\ fleetCounter \in Nat
    BY <1>4, NewIdIsTyped DEF register_fleet
  <2>2. ~ FleetExists(id)
    BY <2>1 DEF FleetIdsAreGapless
  <2>3. /\ roster' = roster
        /\ fleets' = [fleets EXCEPT ![id] = NewFleet(owner, treasury)]
    BY <1>4, <2>1 DEF register_fleet
  <2>4. ActiveDrivers(id) = {} /\ ActiveDrivers(id)' = {}
    <3>1. roster[id] = [u \in Users |-> None]
      BY <2>1, <2>2 DEF FleetIdsAreGapless
    <3>2. QED
      BY <2>3, <3>1, NoneIsNoFleet DEF ActiveDrivers, DriverFleetStatus
  <2>5. fleets'[id].total_active_drivers = 0
    BY <2>1, <2>3 DEF NewFleet, FleetTypeOK
  <2>6. MembersCounted(id)'
    BY <2>4, <2>5, FS_EmptySet DEF MembersCounted
  <2>7. ASSUME NEW g \in FleetIds \ {id}
        PROVE  MembersCounted(g)'
    <3>1. fleets'[g] = fleets[g] /\ ActiveDrivers(g)' = ActiveDrivers(g)
      BY <2>3 DEF ActiveDrivers, FleetTypeOK
    <3>2. QED
      BY <3>1, SameMembersSameCount DEF CountInv
  <2>8. QED
    BY <2>6, <2>7 DEF CountInv
<1>5. ASSUME NEW owner \in Users, NEW treasury \in Users, NEW f \in FleetIds,
             update_fleet_treasury(owner, f, treasury)
      PROVE  CountInv'
  <2>1. /\ roster' = roster
        /\ FleetExists(f)
        /\ fleets' = [fleets EXCEPT ![f] =
                         [fleets[f] EXCEPT !.treasury = treasury]]
    BY <1>5 DEF update_fleet_treasury, FleetTypeOK
  <2>2. [fleets[f] EXCEPT !.treasury = treasury].total_active_drivers
            = fleets[f].total_active_drivers
    BY <2>1, FleetIsTyped DEF FleetProfile
  <2>3. \A g \in FleetIds : ActiveDrivers(g)' = ActiveDrivers(g)
    BY <2>1 DEF ActiveDrivers
  <2>4. \A g \in FleetIds \ {f} : fleets'[g] = fleets[g]
    BY <2>1 DEF FleetTypeOK
  <2>5. fleets'[f].total_active_drivers = fleets[f].total_active_drivers
    BY <2>1, <2>2 DEF FleetTypeOK
  <2>6. MembersCounted(f)'
    BY <2>1, <2>3, <2>5 DEF CountInv, MembersCounted
  <2>7. \A g \in FleetIds \ {f} : MembersCounted(g)'
    BY <2>3, <2>4, SameMembersSameCount DEF CountInv
  <2>8. QED
    BY <2>6, <2>7 DEF CountInv
<1>6. ASSUME NEW f \in FleetIds, NEW driver \in Users,
             add_driver_to_fleet(f, driver)
      PROVE  CountInv'
  <2>1. /\ fleets' = fleets /\ roster[f][driver] = None
        /\ roster' = [roster EXCEPT ![f][driver] = "Pending"]
    BY <1>6 DEF add_driver_to_fleet
  <2>2. \A g \in FleetIds : ActiveDrivers(g)' = ActiveDrivers(g)
    BY <2>1, NoneIsNoFleet DEF ActiveDrivers, FleetTypeOK, DriverFleetStatus
  <2>3. QED
    BY <2>1, <2>2, SameMembersSameCount DEF CountInv
<1>7. CASE FleetCalls
  BY <1>2, <1>3, <1>4, <1>5, <1>6, <1>7, JoiningCounts, LeavingCounts
     DEF FleetCalls
<1>8. CASE UNCHANGED fleetOnlyVars
  BY <1>1, <1>8 DEF fleetOnlyVars
<1>9. QED
  BY <1>7, <1>8 DEF FleetNext, DirectIdentityCalls, fleetVars

\* Whatever the order in which drivers are invited, join, are removed and are
\* invited again, the count in the fleet's profile is the number of members.
THEOREM MembersAreCounted == FleetSpec => []ActiveDriversCounted
<1>1. FleetInit => CountInv
  BY FS_EmptySet, NoneIsNoFleet
     DEF FleetInit, CountInv, MembersCounted, ActiveDrivers, FleetExists,
         DriverFleetStatus
<1>2. CountInv => ActiveDriversCounted
  BY DEF CountInv, MembersCounted, ActiveDriversCounted
<1>3. QED
  BY <1>1, <1>2, FleetTypeCorrect, IdsHaveNoGaps, CountIsKept, PTL
     DEF FleetSpec

-----------------------------------------------------------------------------
(* Payouts and registrations.                                              *)

LEMMA RegistrationKeepsFleets ==
    ASSUME FleetTypeOK, FleetIdsAreGapless, NEW owner, NEW treasury,
           register_fleet(owner, treasury), NEW f \in FleetIds, FleetExists(f)
    PROVE  fleets'[f] = fleets[f]
<1>1. fleetCounter \in Nat /\ f <= fleetCounter
  BY NewIdIsTyped DEF register_fleet, FleetIdsAreGapless
<1>2. f # fleetCounter + 1
  BY <1>1 DEF FleetIds
<1>3. QED
  BY <1>2 DEF register_fleet, FleetTypeOK

\* One fleet and one driver, before and after a step.
PayoutStepOf(f, u) ==
    /\ fleets'[f] # None
    /\ fleets'[f].owner = fleets[f].owner
    /\ get_payout_address(u, f)' # get_payout_address(u, f) =>
          \/ roster[f][u] = "Pending" /\ roster'[f][u] = "Active"
          \/ roster[f][u] = "Active" /\ roster'[f][u] = None
          \/ /\ roster[f][u] = "Active" /\ roster'[f][u] = "Active"
             /\ fleets'[f].treasury # fleets[f].treasury

LEMMA PayoutStepHolds ==
    ASSUME FleetTypeOK, FleetIdsAreGapless, [FleetNext]_fleetVars,
           NEW f \in FleetIds, NEW u \in Users, FleetExists(f)
    PROVE  PayoutStepOf(f, u)
<1>1. ASSUME fleets'[f] = fleets[f], roster'[f][u] = roster[f][u]
      PROVE  PayoutStepOf(f, u)
  BY <1>1 DEF PayoutStepOf, get_payout_address, FleetExists
<1>2. ASSUME NEW admin \in Users, fleet_init(admin)
      PROVE  PayoutStepOf(f, u)
  BY <1>1, <1>2 DEF fleet_init
<1>3. ASSUME NEW admin \in Users, NEW c \in ContractAddresses,
             set_identity_contract(admin, c)
      PROVE  PayoutStepOf(f, u)
  BY <1>1, <1>3 DEF set_identity_contract
<1>4. ASSUME NEW owner \in Users, NEW treasury \in Users,
             register_fleet(owner, treasury)
      PROVE  PayoutStepOf(f, u)
  <2>1. fleets'[f] = fleets[f]
    BY <1>4, RegistrationKeepsFleets
  <2>2. QED
    BY <1>1, <1>4, <2>1 DEF register_fleet
<1>5. ASSUME NEW owner \in Users, NEW treasury \in Users, NEW g \in FleetIds,
             update_fleet_treasury(owner, g, treasury)
      PROVE  PayoutStepOf(f, u)
  <2>1. CASE g # f
    BY <1>1, <1>5, <2>1 DEF update_fleet_treasury, FleetTypeOK
  <2>2. CASE g = f
    <3> DEFINE new == [fleets[f] EXCEPT !.treasury = treasury]
    <3>1. /\ new \in FleetProfile /\ new # None
          /\ new.owner = fleets[f].owner
      BY FleetIsTyped, NoneIsNoFleet DEF FleetProfile
    <3>2. fleets'[f] = new /\ roster' = roster
      BY <1>5, <2>2 DEF update_fleet_treasury, FleetTypeOK
    <3> HIDE DEF new
    <3>3. QED
      BY <3>1, <3>2 DEF PayoutStepOf, get_payout_address
  <2>3. QED
    BY <2>1, <2>2
<1>6. ASSUME NEW g \in FleetIds, NEW driver \in Users,
             add_driver_to_fleet(g, driver)
      PROVE  PayoutStepOf(f, u)
  <2>1. fleets' = fleets
    BY <1>6 DEF add_driver_to_fleet
  <2>2. CASE g = f /\ driver = u
    <3>1. roster[f][u] = None /\ roster'[f][u] = "Pending"
      BY <1>6, <2>2 DEF add_driver_to_fleet, FleetTypeOK
    <3>2. QED
      BY <2>1, <3>1, NoneIsNoFleet
         DEF PayoutStepOf, get_payout_address, FleetExists, DriverFleetStatus
  <2>3. CASE ~ (g = f /\ driver = u)
    <3>1. roster'[f][u] = roster[f][u]
      BY <1>6, <2>3 DEF add_driver_to_fleet, FleetTypeOK
    <3>2. QED
      BY <1>1, <2>1, <3>1
  <2>4. QED
    BY <2>2, <2>3
<1>7. ASSUME NEW g \in FleetIds, NEW driver \in Users,
             \/ accept_fleet_invite(g, driver)
             \/ \E caller \in Users :
                    remove_driver_from_fleet(g, caller, driver)
      PROVE  PayoutStepOf(f, u)
  <2>1. /\ fleets'[f] # None
        /\ fleets'[f].owner = fleets[f].owner
        /\ fleets'[f].treasury = fleets[f].treasury
    <3>1. CASE fleets'[f] = fleets[f]
      BY <3>1 DEF FleetExists
    <3>2. ASSUME NEW n \in Nat,
                 fleets' = [fleets EXCEPT ![f] =
                               [fleets[f] EXCEPT !.total_active_drivers = n]]
          PROVE  /\ fleets'[f] # None
                 /\ fleets'[f].owner = fleets[f].owner
                 /\ fleets'[f].treasury = fleets[f].treasury
      <4> DEFINE new == [fleets[f] EXCEPT !.total_active_drivers = n]
      <4>1. /\ new # None /\ new.owner = fleets[f].owner
            /\ new.treasury = fleets[f].treasury
        BY RecountIsTyped
      <4>2. fleets'[f] = new
        BY <3>2 DEF FleetTypeOK
      <4> HIDE DEF new
      <4>3. QED
        BY <4>1, <4>2
    <3>3. \/ fleets'[f] = fleets[f]
          \/ \E n \in Nat :
                fleets' = [fleets EXCEPT ![f] =
                              [fleets[f] EXCEPT !.total_active_drivers = n]]
      <4>1. CASE g # f
        BY <1>7, <4>1, RosterCallsRecount DEF FleetTypeOK
      <4>2. CASE g = f
        BY <1>7, <4>2, RosterCallsRecount
      <4>3. QED
        BY <4>1, <4>2
    <3>4. QED
      BY <3>1, <3>2, <3>3
  <2>2. \/ roster'[f][u] = roster[f][u]
        \/ roster[f][u] = "Pending" /\ roster'[f][u] = "Active"
        \/ roster'[f][u] = None
    BY <1>7 DEF accept_fleet_invite, remove_driver_from_fleet, FleetTypeOK
  <2>3. None # "Active"
    BY NoneIsNoFleet DEF DriverFleetStatus
  <2>4. QED
    BY <2>1, <2>2, <2>3 DEF PayoutStepOf, get_payout_address
<1>8. CASE FleetCalls
  BY <1>2, <1>3, <1>4, <1>5, <1>6, <1>7, <1>8 DEF FleetCalls
<1>9. CASE UNCHANGED fleetOnlyVars
  BY <1>1, <1>9 DEF fleetOnlyVars
<1>10. QED
  BY <1>8, <1>9 DEF FleetNext, DirectIdentityCalls, fleetVars

\* Nobody's pay is redirected without an invitation that this driver accepted,
\* or by anyone but the owner of the fleet that the driver is in.
THEOREM PayoutsNeedConsent == FleetSpec => PayoutsMoveByConsent
<1>1. FleetTypeOK /\ FleetIdsAreGapless /\ [FleetNext]_fleetVars => PayoutStep
  BY PayoutStepHolds DEF PayoutStep, PayoutStepOf
<1>2. QED
  BY <1>1, FleetTypeCorrect, IdsHaveNoGaps, PTL
     DEF FleetSpec, PayoutsMoveByConsent

LEMMA RegistrationStepHolds ==
    ASSUME FleetTypeOK, IdentityTypeOK, GaplessInv, [FleetNext]_fleetVars
    PROVE  RegistrationStep
<1>1. ASSUME NEW owner \in Users, NEW treasury \in Users,
             register_fleet(owner, treasury)
      PROVE  RegistrationStep
  <2>1. PICK id \in FleetIds : id = fleetCounter + 1
    BY <1>1, NewIdIsTyped DEF register_fleet
  <2>2. /\ fleetCounter' = id
        /\ fleets'[id] = NewFleet(owner, treasury)
    BY <1>1, <2>1 DEF register_fleet, FleetTypeOK
  <2>3. fleets'[id] # None /\ fleets'[id].owner = owner
    BY <2>2, NewFleetIsTyped DEF NewFleet
  <2>4. CASE Linked
    <3>1. register_driver(owner)
      BY <1>1, <2>4, FleetAssumption DEF register_fleet, RegisterOwner, Linked
    <3>2. ~ Registered(owner) /\ profiles'[owner] = NewProfile
      BY <3>1 DEF register_driver, NewProfile, IdentityTypeOK
    <3>3. NewProfile \in DriverProfile
      BY IdentityAssumption DEF NewProfile, DriverProfile, MAX_REPUTATION
    <3>4. NewProfile # None
      BY <3>3, NoneIsNoProfile
    <3>5. QED
      BY <2>2, <2>3, <2>4, <3>2, <3>4 DEF RegistrationStep
  <2>5. CASE ~ Linked
    <3>1. profiles' = profiles
      BY <1>1, <2>5 DEF register_fleet, RegisterOwner, identityVars
    <3>2. QED
      BY <2>2, <2>3, <2>5, <3>1 DEF RegistrationStep
  <2>6. QED
    BY <2>4, <2>5
<1>2. ASSUME NEW admin \in Users, fleet_init(admin)
      PROVE  fleetCounter = None
  BY <1>2 DEF fleet_init, GaplessInv
<1>3. CASE fleetCounter' = fleetCounter
  BY <1>3 DEF RegistrationStep
<1>4. QED
  BY <1>1, <1>2, <1>3, MostStepsKeepIds DEF IdsAreKept, RegistrationStep

\* With a linked identity contract, no fleet without a new profile for its
\* owner and, without one, no registration that touches the profiles.
THEOREM RegistrationsAreWhole == FleetSpec => OwnersGetProfiles
<1>1. FleetSpec => []IdentityTypeOK
  BY FleetCallsIdentity, IdentityTypeCorrect, PTL
<1>2. QED
  BY <1>1, FleetTypeCorrect, GaplessHolds, RegistrationStepHolds, PTL
     DEF FleetSpec, OwnersGetProfiles

-----------------------------------------------------------------------------
(* The charter.                                                            *)

Founded == IF fleetCounter = None THEN 0 ELSE fleetCounter
Treasuries == [f \in FleetIds |-> TreasuryOf(fleets[f])]
Invitees == [f \in FleetIds |-> InvitedTo(f)]
Members == [f \in FleetIds |-> ActiveDrivers(f)]
Heads == [f \in FleetIds |-> HeadcountOf(fleets[f])]

CharterStep == [Charter!CharterNext]_(Charter!charterVars)

HeadsAreCounted ==
    \A f \in FleetIds : HeadcountOf(fleets[f]) = Cardinality(ActiveDrivers(f))

\* The charter counts as this module does.
LEMMA SameCardinality == \A S : Charter!Cardinality(S) = Cardinality(S)
BY DEF Charter!Cardinality, Cardinality

\* What the refinement needs: the count is right for a fleet that exists, and
\* a fleet that does not exist has no roster, so nobody is in it when it is
\* founded.
CharterInv == FleetTypeOK /\ GaplessInv /\ HeadsAreCounted

LEMMA NobodyBefore ==
    ASSUME FleetIdsAreGapless, NEW f \in FleetIds, ~ FleetExists(f)
    PROVE  ActiveDrivers(f) = {} /\ InvitedTo(f) = {}
<1>1. roster[f] = [u \in Users |-> None]
  BY DEF FleetIdsAreGapless
<1>2. None # "Active" /\ None # "Pending"
  BY NoneIsNoFleet DEF DriverFleetStatus
<1>3. QED
  BY <1>1, <1>2 DEF ActiveDrivers, InvitedTo

LEMMA CountsAreHeads ==
    ASSUME FleetIdsAreGapless, ActiveDriversCounted
    PROVE  HeadsAreCounted
<1> SUFFICES ASSUME NEW f \in FleetIds
             PROVE  HeadcountOf(fleets[f]) = Cardinality(ActiveDrivers(f))
  BY DEF HeadsAreCounted
<1>1. CASE FleetExists(f)
  BY <1>1 DEF ActiveDriversCounted, HeadcountOf, FleetExists
<1>2. CASE ~ FleetExists(f)
  BY <1>2, NobodyBefore, FS_EmptySet DEF HeadcountOf, FleetExists
<1>3. QED
  BY <1>1, <1>2

LEMMA CharterInvHolds == FleetSpec => []CharterInv
<1>1. FleetTypeOK /\ GaplessInv /\ FleetIdsAreGapless /\ ActiveDriversCounted
          => CharterInv
  BY CountsAreHeads DEF CharterInv
<1>2. QED
  BY <1>1, FleetTypeCorrect, GaplessHolds, IdsHaveNoGaps, MembersAreCounted,
     PTL

\* The head count follows the members, whatever the handler did to either.
LEMMA HeadsFollowMembers ==
    ASSUME HeadsAreCounted, HeadsAreCounted'
    PROVE  /\ UNCHANGED Members => UNCHANGED Heads
           /\ \A f \in FleetIds : \A new :
                 Members' = [Members EXCEPT ![f] = new] =>
                     Heads' = [Heads EXCEPT ![f] = Cardinality(new)]
<1>1. /\ Heads = [f \in FleetIds |-> Cardinality(Members[f])]
      /\ Heads' = [f \in FleetIds |-> Cardinality(Members'[f])]
  BY DEF Heads, Members, HeadsAreCounted
<1>2. Members = [f \in FleetIds |-> Members[f]]
  BY DEF Members
<1>3. QED
  BY <1>1, <1>2

LEMMA CharterStands ==
    ASSUME HeadsAreCounted, HeadsAreCounted',
           UNCHANGED <<Founded, Treasuries, Invitees, Members>>
    PROVE  CharterStep
<1>1. UNCHANGED Heads
  BY HeadsFollowMembers
<1>2. QED
  BY <1>1 DEF CharterStep, Charter!charterVars, Founded, Treasuries,
     Invitees, Members, Heads

\* Fleets, roster and counter unchanged: nothing the charter sees.
LEMMA NothingMoves ==
    ASSUME UNCHANGED <<fleetCounter, fleets, roster>>
    PROVE  UNCHANGED <<Founded, Treasuries, Invitees, Members>>
BY DEF Founded, Treasuries, Invitees, Members, InvitedTo, ActiveDrivers

LEMMA FoundingStep ==
    ASSUME CharterInv, CharterInv', NEW owner \in Users, NEW place \in Users,
           register_fleet(owner, place)
    PROVE  CharterStep
<1>1. PICK id \in FleetIds :
          id = fleetCounter + 1 /\ fleetCounter \in Nat /\ fleetCounter # None
  BY NewIdIsTyped DEF register_fleet, CharterInv
<1>2. ~ FleetExists(id)
  BY <1>1 DEF CharterInv, GaplessInv, FleetIdsAreGapless
<1>3. /\ fleetCounter' = id /\ id # None /\ roster' = roster
      /\ fleets' = [fleets EXCEPT ![id] = NewFleet(owner, place)]
  BY <1>1, FleetAssumption DEF register_fleet, FleetIds
<1>4. Founded = fleetCounter /\ Founded' = id
  BY <1>1, <1>3 DEF Founded
<1>5. NewFleet(owner, place).treasury = place
  BY DEF NewFleet
<1>6. Treasuries' = [Treasuries EXCEPT ![id] = place]
  BY <1>3, <1>5, NewFleetIsTyped
     DEF Treasuries, TreasuryOf, CharterInv, FleetTypeOK
<1>7. UNCHANGED <<Invitees, Members>>
  BY <1>3 DEF Invitees, Members, InvitedTo, ActiveDrivers
<1>8. UNCHANGED Heads
  BY <1>7, HeadsFollowMembers DEF CharterInv
<1>9. Invitees[id] = {} /\ Members[id] = {}
  BY <1>2, NobodyBefore DEF Invitees, Members, CharterInv, GaplessInv
<1>10. Charter!Found(id, place)
  BY <1>1, <1>4, <1>6, <1>7, <1>8, <1>9
     DEF Charter!Found, Founded, Treasuries, Invitees, Members, Heads
<1>11. QED
  BY <1>10 DEF CharterStep, Charter!CharterNext

\* An existing fleet is one of those founded.
LEMMA ExistingIsFounded ==
    ASSUME CharterInv, NEW f \in FleetIds, FleetExists(f)
    PROVE  f <= Founded
BY DEF CharterInv, GaplessInv, FleetIdsAreGapless, Founded

LEMMA TreasuryStep ==
    ASSUME CharterInv, CharterInv', NEW owner \in Users, NEW f \in FleetIds,
           NEW place \in Users, update_fleet_treasury(owner, f, place)
    PROVE  CharterStep
<1> DEFINE new == [fleets[f] EXCEPT !.treasury = place]
<1>1. /\ FleetExists(f) /\ fleetCounter' = fleetCounter /\ roster' = roster
      /\ fleets' = [fleets EXCEPT ![f] = new]
  BY DEF update_fleet_treasury, CharterInv, FleetTypeOK
<1>2. new # None /\ new.treasury = place
  BY <1>1, FleetIsTyped, NoneIsNoFleet DEF FleetProfile, CharterInv
<1> HIDE DEF new
<1>3. UNCHANGED <<Founded, Invitees, Members>>
  BY <1>1 DEF Founded, Invitees, Members, InvitedTo, ActiveDrivers
<1>4. UNCHANGED Heads
  BY <1>3, HeadsFollowMembers DEF CharterInv
<1>5. Treasuries' = [Treasuries EXCEPT ![f] = place]
  BY <1>1, <1>2 DEF Treasuries, TreasuryOf, CharterInv, FleetTypeOK
<1>6. Charter!MoveTreasury(f, place)
  BY <1>1, <1>3, <1>4, <1>5, ExistingIsFounded
     DEF Charter!MoveTreasury, Founded, Treasuries, Invitees, Members, Heads
<1>7. QED
  BY <1>6 DEF CharterStep, Charter!CharterNext

\* What one entry of the roster that changes does to the two sets.
LEMMA OneEntryMoves ==
    ASSUME FleetTypeOK, NEW f \in FleetIds, NEW u \in Users,
           NEW s \in DriverFleetStatus \union {None},
           roster' = [roster EXCEPT ![f][u] = s]
    PROVE  /\ Invitees' = [Invitees EXCEPT ![f] =
                  IF s = "Pending" THEN InvitedTo(f) \union {u}
                                   ELSE InvitedTo(f) \ {u}]
           /\ Members' = [Members EXCEPT ![f] =
                  IF s = "Active" THEN ActiveDrivers(f) \union {u}
                                  ELSE ActiveDrivers(f) \ {u}]
<1>1. \A g \in FleetIds : roster'[g] =
          IF g = f THEN [roster[f] EXCEPT ![u] = s] ELSE roster[g]
  BY DEF FleetTypeOK
<1>2. roster[f] \in [Users -> DriverFleetStatus \union {None}]
  BY DEF FleetTypeOK
<1>3. /\ InvitedTo(f)' = IF s = "Pending" THEN InvitedTo(f) \union {u}
                                          ELSE InvitedTo(f) \ {u}
      /\ ActiveDrivers(f)' = IF s = "Active" THEN ActiveDrivers(f) \union {u}
                                             ELSE ActiveDrivers(f) \ {u}
  BY <1>1, <1>2 DEF InvitedTo, ActiveDrivers
<1>4. \A g \in FleetIds \ {f} : /\ InvitedTo(g)' = InvitedTo(g)
                                /\ ActiveDrivers(g)' = ActiveDrivers(g)
  BY <1>1 DEF InvitedTo, ActiveDrivers
<1>5. QED
  BY <1>3, <1>4 DEF Invitees, Members

LEMMA InvitationStep ==
    ASSUME CharterInv, CharterInv', NEW f \in FleetIds, NEW driver \in Users,
           add_driver_to_fleet(f, driver)
    PROVE  CharterStep
<1>1. /\ FleetExists(f) /\ roster[f][driver] = None
      /\ roster' = [roster EXCEPT ![f][driver] = "Pending"]
      /\ fleetCounter' = fleetCounter /\ fleets' = fleets
  BY DEF add_driver_to_fleet
<1>2. /\ driver \notin InvitedTo(f) \union ActiveDrivers(f)
  BY <1>1, NoneIsNoFleet DEF InvitedTo, ActiveDrivers, DriverFleetStatus
<1>3. /\ Invitees' = [Invitees EXCEPT ![f] = InvitedTo(f) \union {driver}]
      /\ Members' = [Members EXCEPT ![f] = ActiveDrivers(f) \ {driver}]
  BY <1>1, OneEntryMoves DEF CharterInv, DriverFleetStatus
<1>4. ActiveDrivers(f) \ {driver} = Members[f] /\ InvitedTo(f) = Invitees[f]
  BY <1>2 DEF Members, Invitees
<1>5. UNCHANGED Members
  BY <1>3, <1>4 DEF Members
<1>6. UNCHANGED Heads
  BY <1>5, HeadsFollowMembers DEF CharterInv
<1>7. UNCHANGED <<Founded, Treasuries>>
  BY <1>1 DEF Founded, Treasuries
<1>8. Charter!Invite(f, driver)
  <2>1. /\ f <= Founded
        /\ driver \notin Invitees[f] \union Members[f]
        /\ Invitees' = [Invitees EXCEPT ![f] = @ \union {driver}]
    BY <1>1, <1>2, <1>3, <1>4, ExistingIsFounded DEF Invitees, Members
  <2>2. QED
    BY <1>5, <1>6, <1>7, <2>1
       DEF Charter!Invite, Founded, Treasuries, Invitees, Members, Heads
<1>9. QED
  BY <1>8 DEF CharterStep, Charter!CharterNext

LEMMA RecountKeepsTreasuries ==
    ASSUME FleetTypeOK, NEW f \in FleetIds, NEW driver \in Users,
           \/ accept_fleet_invite(f, driver)
           \/ \E caller \in Users : remove_driver_from_fleet(f, caller, driver)
    PROVE  UNCHANGED <<Founded, Treasuries>>
<1>1. FleetExists(f) /\ fleetCounter' = fleetCounter
  BY DEF accept_fleet_invite, remove_driver_from_fleet
<1>2. CASE fleets' = fleets
  BY <1>1, <1>2 DEF Founded, Treasuries
<1>3. CASE fleets' # fleets
  <2>1. PICK n \in Nat :
            fleets' = [fleets EXCEPT ![f] =
                          [fleets[f] EXCEPT !.total_active_drivers = n]]
    BY <1>3, RosterCallsRecount
  <2> DEFINE new == [fleets[f] EXCEPT !.total_active_drivers = n]
  <2>2. new # None /\ new.treasury = fleets[f].treasury
    BY <1>1, RecountIsTyped
  <2>3. \A g \in FleetIds : fleets'[g] = IF g = f THEN new ELSE fleets[g]
    BY <2>1 DEF FleetTypeOK
  <2> HIDE DEF new
  <2>4. UNCHANGED Treasuries
    BY <1>1, <2>2, <2>3 DEF Treasuries, TreasuryOf, FleetExists
  <2>5. QED
    BY <1>1, <2>4 DEF Founded
<1>4. QED
  BY <1>2, <1>3

LEMMA AcceptanceStep ==
    ASSUME CharterInv, CharterInv', NEW f \in FleetIds, NEW driver \in Users,
           accept_fleet_invite(f, driver)
    PROVE  CharterStep
<1>1. /\ roster[f][driver] = "Pending"
      /\ roster' = [roster EXCEPT ![f][driver] = "Active"]
  BY DEF accept_fleet_invite
<1>2. UNCHANGED <<Founded, Treasuries>>
  BY RecountKeepsTreasuries DEF CharterInv
<1>3. /\ Invitees' = [Invitees EXCEPT ![f] = InvitedTo(f) \ {driver}]
      /\ Members' = [Members EXCEPT ![f] = ActiveDrivers(f) \union {driver}]
  BY <1>1, OneEntryMoves DEF CharterInv, DriverFleetStatus
<1>4. InvitedTo(f) = Invitees[f] /\ ActiveDrivers(f) = Members[f]
  BY DEF Invitees, Members
<1>5. driver \in Invitees[f]
  BY <1>1, <1>4 DEF InvitedTo
<1>6. Heads' = [Heads EXCEPT ![f] = Cardinality(Members[f] \union {driver})]
  BY <1>3, <1>4, HeadsFollowMembers DEF CharterInv
<1>7. Charter!Join(f, driver)
  BY <1>2, <1>3, <1>4, <1>5, <1>6, SameCardinality
     DEF Charter!Join, Charter!Counted, Founded, Treasuries, Invitees,
         Members, Heads
<1>8. QED
  BY <1>7 DEF CharterStep, Charter!CharterNext

LEMMA RemovalStep ==
    ASSUME CharterInv, CharterInv', NEW f \in FleetIds, NEW caller \in Users,
           NEW driver \in Users, remove_driver_from_fleet(f, caller, driver)
    PROVE  CharterStep
<1>1. /\ roster[f][driver] # None
      /\ roster' = [roster EXCEPT ![f][driver] = None]
  BY DEF remove_driver_from_fleet
<1>2. UNCHANGED <<Founded, Treasuries>>
  BY RecountKeepsTreasuries DEF CharterInv
<1>3. /\ Invitees' = [Invitees EXCEPT ![f] = InvitedTo(f) \ {driver}]
      /\ Members' = [Members EXCEPT ![f] = ActiveDrivers(f) \ {driver}]
  BY <1>1, NoneIsNoFleet, OneEntryMoves DEF CharterInv, DriverFleetStatus
<1>4. InvitedTo(f) = Invitees[f] /\ ActiveDrivers(f) = Members[f]
  BY DEF Invitees, Members
<1>5. CASE roster[f][driver] = "Active"
  <2>1. driver \in Members[f] /\ driver \notin Invitees[f]
    BY <1>4, <1>5 DEF InvitedTo, ActiveDrivers
  <2>2. UNCHANGED Invitees
    BY <1>3, <1>4, <2>1 DEF Invitees
  <2>3. Heads' = [Heads EXCEPT ![f] = Cardinality(Members[f] \ {driver})]
    BY <1>3, <1>4, HeadsFollowMembers DEF CharterInv
  <2>4. Charter!Leave(f, driver)
    BY <1>2, <1>3, <1>4, <2>1, <2>2, <2>3, SameCardinality
       DEF Charter!Leave, Charter!Counted, Founded, Treasuries, Invitees,
           Members, Heads
  <2>5. QED
    BY <2>4 DEF CharterStep, Charter!CharterNext
<1>6. CASE roster[f][driver] = "Pending"
  <2>1. driver \in Invitees[f] /\ driver \notin Members[f]
    BY <1>4, <1>6 DEF InvitedTo, ActiveDrivers
  <2>2. UNCHANGED Members
    BY <1>3, <1>4, <2>1 DEF Members
  <2>3. UNCHANGED Heads
    BY <2>2, HeadsFollowMembers DEF CharterInv
  <2>4. Charter!Decline(f, driver)
    BY <1>2, <1>3, <1>4, <2>1, <2>2, <2>3
       DEF Charter!Decline, Founded, Treasuries, Invitees, Members, Heads
  <2>5. QED
    BY <2>4 DEF CharterStep, Charter!CharterNext
<1>7. QED
  BY <1>1, <1>5, <1>6 DEF CharterInv, FleetTypeOK, DriverFleetStatus

LEMMA StepKeepsCharter ==
    ASSUME CharterInv, CharterInv', [FleetNext]_fleetVars
    PROVE  CharterStep
<1>1. ASSUME UNCHANGED <<fleetCounter, fleets, roster>>
      PROVE  CharterStep
  BY <1>1, NothingMoves, CharterStands DEF CharterInv
<1>2. ASSUME NEW admin \in Users, fleet_init(admin)
      PROVE  CharterStep
  <2>1. fleetCounter = None /\ fleetCounter' = 0
    BY <1>2 DEF fleet_init, CharterInv, GaplessInv
  <2>2. UNCHANGED Founded
    BY <2>1, FleetAssumption DEF Founded
  <2>3. UNCHANGED <<Treasuries, Invitees, Members>>
    BY <1>2 DEF fleet_init, Treasuries, Invitees, Members, InvitedTo,
       ActiveDrivers
  <2>4. QED
    BY <2>2, <2>3, CharterStands DEF CharterInv
<1>3. ASSUME NEW admin \in Users, NEW c \in ContractAddresses,
             set_identity_contract(admin, c)
      PROVE  CharterStep
  BY <1>1, <1>3 DEF set_identity_contract
<1>4. CASE FleetCalls
  BY <1>2, <1>3, <1>4, FoundingStep, TreasuryStep, InvitationStep,
     AcceptanceStep, RemovalStep DEF FleetCalls
<1>5. CASE UNCHANGED fleetOnlyVars
  BY <1>1, <1>5 DEF fleetOnlyVars
<1>6. QED
  BY <1>4, <1>5 DEF FleetNext, DirectIdentityCalls, fleetVars

\* Roster, profiles and counter move together as FleetCharter says, for any
\* number of fleets and drivers.
THEOREM CharterIsKept == FleetSpec => KeepsCharter
<1>1. FleetInit => Charter!CharterInit
  <2> SUFFICES ASSUME FleetInit PROVE Charter!CharterInit
    OBVIOUS
  <2>1. \A f \in FleetIds : /\ fleets[f] = None
                            /\ roster[f] = [u \in Users |-> None]
    BY DEF FleetInit
  <2>2. None # "Active" /\ None # "Pending"
    BY NoneIsNoFleet DEF DriverFleetStatus
  <2>3. \A f \in FleetIds : InvitedTo(f) = {} /\ ActiveDrivers(f) = {}
    BY <2>1, <2>2 DEF InvitedTo, ActiveDrivers
  <2>4. fleetCounter = None
    BY DEF FleetInit
  <2>5. QED
    BY <2>1, <2>3, <2>4 DEF Charter!CharterInit, TreasuryOf, HeadcountOf
<1>2. CharterInv /\ CharterInv' /\ [FleetNext]_fleetVars
          => [Charter!CharterNext]_(Charter!charterVars)
  BY StepKeepsCharter DEF CharterStep
<1>3. QED
  BY <1>1, <1>2, CharterInvHolds, PTL
     DEF FleetSpec, KeepsCharter, Charter!CharterSpec
=============================================================================
