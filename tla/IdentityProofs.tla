--------------------------- MODULE IdentityProofs ---------------------------
(***************************************************************************)
(* Theorems about the identity contract, for any set of addresses, any     *)
(* weights and penalties, and any width of the counters.                   *)
(***************************************************************************)
EXTENDS Identity, TLAPS

LEMMA ProfileIsTyped ==
    ASSUME IdentityTypeOK, NEW u \in Users, Registered(u)
    PROVE  /\ profiles[u] \in DriverProfile
           /\ profiles[u].score \in 0 .. 100
           /\ profiles[u].completed \in 0 .. U32Max
           /\ profiles[u].kyc \in BOOLEAN
<1>1. profiles[u] \in DriverProfile
  BY DEF IdentityTypeOK, Registered
<1>2. QED
  BY <1>1 DEF DriverProfile, MAX_REPUTATION

\* What a report makes of a profile, as one fact about numbers.
LEMMA PointsAreFew ==
    ASSUME NEW weight \in Nat, NEW fragile \in BOOLEAN
    PROVE  Points(weight, fragile) \in 5 .. 10
BY DEF Points

LEMMA IncreaseIsTyped ==
    ASSUME IdentityTypeOK, NEW caller \in Users, NEW driver \in Users,
           NEW weight \in Weights, NEW fragile \in BOOLEAN,
           increase_reputation(caller, driver, weight, fragile)
    PROVE  \E new \in DriverProfile :
               /\ new.score <= profiles[driver].score + 10
               /\ new.completed = profiles[driver].completed + 1
               /\ new.kyc = profiles[driver].kyc
               /\ profiles' = [profiles EXCEPT ![driver] = new]
<1> DEFINE old == profiles[driver]
           sum == old.score + Points(weight, fragile)
           new == [old EXCEPT !.score = Capped(@ + Points(weight, fragile)),
                              !.completed = @ + 1]
<1>1. /\ old \in DriverProfile
      /\ old.score \in 0 .. 100 /\ old.completed \in 0 .. U32Max
      /\ old.completed < U32Max
  BY ProfileIsTyped DEF increase_reputation
<1>2. Points(weight, fragile) \in 5 .. 10
  BY PointsAreFew, IdentityAssumption
<1>3. Capped(sum) \in 0 .. 100 /\ Capped(sum) <= old.score + 10
  BY <1>1, <1>2 DEF Capped, MAX_REPUTATION
<1>4. old.completed + 1 \in 0 .. U32Max
  BY <1>1, IdentityAssumption
<1>5. /\ new \in DriverProfile
      /\ new.score = Capped(sum)
      /\ new.completed = old.completed + 1
      /\ new.kyc = old.kyc
  BY <1>1, <1>3, <1>4 DEF DriverProfile, MAX_REPUTATION
<1>6. profiles' = [profiles EXCEPT ![driver] = new]
  BY DEF increase_reputation, IdentityTypeOK
<1> HIDE DEF new
<1>7. QED
  BY <1>3, <1>5, <1>6

LEMMA PenaltyStopsAtZero ==
    ASSUME NEW score \in 0 .. 100, NEW points \in Nat
    PROVE  LET left == IF score > points THEN score - points ELSE 0
           IN  left \in 0 .. 100 /\ left <= score
OBVIOUS

LEMMA DecreaseIsTyped ==
    ASSUME IdentityTypeOK, NEW caller \in Users, NEW driver \in Users,
           NEW points \in Penalties,
           decrease_reputation(caller, driver, points)
    PROVE  \E new \in DriverProfile :
               /\ new.score <= profiles[driver].score
               /\ new.completed = profiles[driver].completed
               /\ new.kyc = profiles[driver].kyc
               /\ profiles' = [profiles EXCEPT ![driver] = new]
<1> DEFINE old == profiles[driver]
           left == IF old.score > points THEN old.score - points ELSE 0
           new == [old EXCEPT
                       !.score = IF @ > points THEN @ - points ELSE 0]
<1>1. old \in DriverProfile /\ old.score \in 0 .. 100
  BY ProfileIsTyped DEF decrease_reputation
<1>2. left \in 0 .. 100 /\ left <= old.score
  <2>1. points \in Nat
    BY IdentityAssumption
  <2>2. QED
    BY <1>1, <2>1, PenaltyStopsAtZero
<1>3. /\ new \in DriverProfile
      /\ new.score = left
      /\ new.completed = old.completed
      /\ new.kyc = old.kyc
  BY <1>1, <1>2 DEF DriverProfile, MAX_REPUTATION
<1>4. profiles' = [profiles EXCEPT ![driver] = new]
  BY DEF decrease_reputation, IdentityTypeOK
<1> HIDE DEF new
<1>5. QED
  BY <1>2, <1>3, <1>4

LEMMA IdentityInitIsTyped == IdentityInit => IdentityTypeOK
BY DEF IdentityInit, IdentityTypeOK

-----------------------------------------------------------------------------
(* What any step does to the profiles: everything else follows from this.  *)

NewProfile == [score |-> 50, completed |-> 0, kyc |-> FALSE]

\* One profile is registered, verified, credited or debited.
ProfileChange(u, new) ==
    /\ new \in DriverProfile
    /\ profiles' = [profiles EXCEPT ![u] = new]
    /\ \/ ~ Registered(u) /\ new = NewProfile /\ UNCHANGED reporters
       \/ /\ Registered(u) /\ identityAdmin # None /\ UNCHANGED reporters
          /\ new = [profiles[u] EXCEPT !.kyc = new.kyc]
       \/ /\ Registered(u) /\ reporters # {} /\ UNCHANGED reporters
          /\ new.score <= profiles[u].score + 10
          /\ new.completed = profiles[u].completed + 1
          /\ new.kyc = profiles[u].kyc
       \/ /\ Registered(u) /\ reporters # {} /\ UNCHANGED reporters
          /\ new.score <= profiles[u].score
          /\ new.completed = profiles[u].completed
          /\ new.kyc = profiles[u].kyc

LEMMA StepChangesOneProfile ==
    ASSUME IdentityTypeOK, [IdentityNext]_identityVars
    PROVE  \/ profiles' = profiles
           \/ \E u \in Users : \E new \in DriverProfile : ProfileChange(u, new)
<1>1. ASSUME NEW driver \in Users, register_driver(driver)
      PROVE  ProfileChange(driver, NewProfile) /\ NewProfile \in DriverProfile
  <2>1. NewProfile \in DriverProfile
    BY IdentityAssumption DEF NewProfile, DriverProfile, MAX_REPUTATION
  <2>2. /\ ~ Registered(driver) /\ UNCHANGED reporters
        /\ profiles' = [profiles EXCEPT ![driver] = NewProfile]
    BY <1>1 DEF register_driver, NewProfile
  <2>3. QED
    BY <2>1, <2>2 DEF ProfileChange
<1>2. ASSUME NEW admin \in Users, NEW driver \in Users,
             NEW verified \in BOOLEAN,
             update_driver_kyc_status(admin, driver, verified)
      PROVE  \E new \in DriverProfile : ProfileChange(driver, new)
  <2> DEFINE new == [profiles[driver] EXCEPT !.kyc = verified]
  <2>1. Registered(driver) /\ identityAdmin # None
    BY <1>2, IdentityAssumption
       DEF update_driver_kyc_status, is_identity_admin
  <2>2. profiles[driver] \in DriverProfile
    BY <2>1, ProfileIsTyped
  <2>3. new \in DriverProfile /\ new.kyc = verified
    BY <2>2 DEF DriverProfile
  <2>4. profiles' = [profiles EXCEPT ![driver] = new] /\ UNCHANGED reporters
    BY <1>2 DEF update_driver_kyc_status
  <2>5. ProfileChange(driver, new)
    BY <2>1, <2>3, <2>4 DEF ProfileChange
  <2>6. QED
    BY <2>3, <2>5
<1>3. ASSUME NEW caller \in Users, NEW driver \in Users,
             NEW weight \in Weights, NEW fragile \in BOOLEAN,
             increase_reputation(caller, driver, weight, fragile)
      PROVE  \E new \in DriverProfile : ProfileChange(driver, new)
  <2>1. Registered(driver) /\ reporters # {} /\ UNCHANGED reporters
    BY <1>3 DEF increase_reputation
  <2>2. QED
    BY <1>3, <2>1, IncreaseIsTyped DEF ProfileChange
<1>4. ASSUME NEW caller \in Users, NEW driver \in Users,
             NEW points \in Penalties,
             decrease_reputation(caller, driver, points)
      PROVE  \E new \in DriverProfile : ProfileChange(driver, new)
  <2>1. Registered(driver) /\ reporters # {} /\ UNCHANGED reporters
    BY <1>4 DEF decrease_reputation
  <2>2. QED
    BY <1>4, <2>1, DecreaseIsTyped DEF ProfileChange
<1>5. CASE IdentityAdministration
  BY <1>5, <1>2 DEF IdentityAdministration, identity_init, initialize,
     set_authorized_contract
<1>6. CASE ReputationReports
  BY <1>6, <1>3, <1>4 DEF ReputationReports
<1>7. CASE UNCHANGED identityVars
  BY <1>7 DEF identityVars
<1>8. QED
  BY <1>1, <1>5, <1>6, <1>7 DEF IdentityNext

LEMMA IdentityTypeIsKept ==
    IdentityTypeOK /\ [IdentityNext]_identityVars => IdentityTypeOK'
<1> SUFFICES ASSUME IdentityTypeOK, [IdentityNext]_identityVars
             PROVE  IdentityTypeOK'
  OBVIOUS
<1>1. profiles' \in [Users -> DriverProfile \union {None}]
  BY StepChangesOneProfile DEF IdentityTypeOK, ProfileChange
<1>2. /\ identityAdmin' \in Users \union {None}
      /\ reporters' \subseteq Users
      /\ authorized' \subseteq Users
  <2>1. CASE IdentityAdministration
    BY <2>1 DEF IdentityAdministration, identity_init, initialize,
       set_authorized_contract, update_driver_kyc_status, IdentityTypeOK
  <2>2. CASE UNCHANGED <<identityAdmin, reporters, authorized>>
    BY <2>2 DEF IdentityTypeOK
  <2>3. QED
    BY <2>1, <2>2 DEF IdentityNext, register_driver, ReputationReports,
       increase_reputation, decrease_reputation, identityVars
<1>3. QED
  BY <1>1, <1>2 DEF IdentityTypeOK

\* A reputation stays within 0 .. 100 and a counter within its width, however
\* long the contract is used and whatever weights and penalties are reported.
THEOREM IdentityTypeCorrect == IdentitySpec => []IdentityTypeOK
BY IdentityInitIsTyped, IdentityTypeIsKept, PTL DEF IdentitySpec

-----------------------------------------------------------------------------
(* Tiers.                                                                  *)

LEMMA TenPointsEach ==
    ASSUME NEW score \in Nat, NEW completed \in Nat,
           NEW newScore \in Nat, NEW newCompleted \in Nat,
           score <= 50 + 10 * completed,
           \/ newScore <= score /\ newCompleted = completed
           \/ newScore <= score + 10 /\ newCompleted = completed + 1
    PROVE  newScore <= 50 + 10 * newCompleted
OBVIOUS

\* The part of TierIsEarned that is inductive: 10 points for each delivery.
ScoreIsEarned ==
    \A u \in Users : Registered(u) =>
        profiles[u].score <= 50 + 10 * profiles[u].completed

LEMMA EarningIsKept ==
    ASSUME IdentityTypeOK, ScoreIsEarned, [IdentityNext]_identityVars
    PROVE  ScoreIsEarned'
<1>1. CASE profiles' = profiles
  BY <1>1 DEF ScoreIsEarned, Registered
<1>2. ASSUME NEW u \in Users, NEW new \in DriverProfile, ProfileChange(u, new)
      PROVE  ScoreIsEarned'
  <2>1. new.score <= 50 + 10 * new.completed
    <3>1. new.score \in 0 .. 100 /\ new.completed \in Nat
      BY IdentityAssumption DEF DriverProfile, MAX_REPUTATION
    <3>2. CASE new = NewProfile
      BY <3>2 DEF NewProfile
    <3>3. CASE Registered(u)
      <4>1. /\ profiles[u].score <= 50 + 10 * profiles[u].completed
            /\ profiles[u].score \in 0 .. 100 /\ profiles[u].completed \in Nat
        BY <3>3, ProfileIsTyped, IdentityAssumption DEF ScoreIsEarned
      <4>2. \/ /\ new.score <= profiles[u].score
               /\ new.completed = profiles[u].completed
            \/ /\ new.score <= profiles[u].score + 10
               /\ new.completed = profiles[u].completed + 1
        <5>1. CASE new = [profiles[u] EXCEPT !.kyc = new.kyc]
          <6>1. profiles[u] \in DriverProfile
            BY <3>3, ProfileIsTyped
          <6>2. /\ new.score = profiles[u].score
                /\ new.completed = profiles[u].completed
            BY <5>1, <6>1 DEF DriverProfile
          <6>3. QED
            BY <6>2, <4>1
        <5>2. QED
          BY <1>2, <3>3, <5>1 DEF ProfileChange
      <4>3. QED
        <5>1. profiles[u].score \in Nat /\ new.score \in Nat
          BY <3>1, <4>1
        <5>2. QED
          BY <3>1, <4>1, <4>2, <5>1, TenPointsEach
    <3>4. QED
      BY <1>2, <3>2, <3>3 DEF ProfileChange
  <2>2. \A v \in Users : profiles'[v] = IF v = u THEN new ELSE profiles[v]
    BY <1>2 DEF ProfileChange, IdentityTypeOK
  <2>3. QED
    BY <2>1, <2>2 DEF ScoreIsEarned, Registered
<1>3. QED
  BY <1>1, <1>2, StepChangesOneProfile

LEMMA EarnedScoreGivesTier == IdentityTypeOK /\ ScoreIsEarned => TierIsEarned
<1> SUFFICES ASSUME IdentityTypeOK, ScoreIsEarned,
                    NEW u \in Users, Registered(u)
             PROVE  /\ profiles[u].score <= 50 + 10 * profiles[u].completed
                    /\ get_driver_tier(u) = "Gold"
                          => profiles[u].completed >= 3
                    /\ is_eligible_for_enterprise(u)
                          <=> get_driver_tier(u) = "Gold"
  BY DEF TierIsEarned
<1>1. /\ profiles[u].score <= 50 + 10 * profiles[u].completed
      /\ profiles[u].score \in 0 .. 100 /\ profiles[u].completed \in Nat
  BY ProfileIsTyped, IdentityAssumption DEF ScoreIsEarned
<1>2. get_driver_tier(u) = "Gold" <=> profiles[u].score >= 75
  BY <1>1 DEF get_driver_tier
<1>3. profiles[u].score >= 75 => profiles[u].completed >= 3
  BY <1>1
<1>4. QED
  BY <1>1, <1>2, <1>3
     DEF is_eligible_for_enterprise, ENTERPRISE_THRESHOLD

\* Nobody reaches a tier that was not earned, whatever is reported.
THEOREM TiersAreEarned == IdentitySpec => []TierIsEarned
<1>1. IdentityInit => ScoreIsEarned
  BY DEF IdentityInit, ScoreIsEarned, Registered
<1>2. QED
  BY <1>1, IdentityTypeCorrect, EarningIsKept, EarnedScoreGivesTier, PTL
     DEF IdentitySpec

-----------------------------------------------------------------------------
(* What becomes of a profile.                                              *)

LEMMA UnreportedScoresAreKept ==
    ASSUME IdentityTypeOK, ScoresNeedReporters, [IdentityNext]_identityVars
    PROVE  ScoresNeedReporters'
<1>1. CASE profiles' = profiles
  <2>1. reporters' = {} => reporters = {}
    BY DEF IdentityNext, IdentityAdministration, identity_init, initialize,
       set_authorized_contract, update_driver_kyc_status, register_driver,
       ReputationReports, increase_reputation, decrease_reputation,
       identityVars
  <2>2. QED
    BY <1>1, <2>1 DEF ScoresNeedReporters, Registered
<1>2. ASSUME NEW u \in Users, NEW new \in DriverProfile, ProfileChange(u, new)
      PROVE  ScoresNeedReporters'
  <2>1. /\ reporters' = reporters
        /\ \A v \in Users : profiles'[v] = IF v = u THEN new ELSE profiles[v]
    BY <1>2 DEF ProfileChange, IdentityTypeOK
  <2>2. ASSUME reporters = {}
        PROVE  new.score = 50 /\ new.completed = 0
    <3>1. CASE new = NewProfile
      BY <3>1 DEF NewProfile
    <3>2. CASE Registered(u) /\ new = [profiles[u] EXCEPT !.kyc = new.kyc]
      <4>1. /\ profiles[u] \in DriverProfile
            /\ profiles[u].score = 50 /\ profiles[u].completed = 0
        BY <2>2, <3>2, ProfileIsTyped DEF ScoresNeedReporters
      <4>2. QED
        BY <3>2, <4>1 DEF DriverProfile
    <3>3. QED
      BY <1>2, <2>2, <3>1, <3>2 DEF ProfileChange
  <2>3. QED
    BY <2>1, <2>2 DEF ScoresNeedReporters, Registered
<1>3. QED
  BY <1>1, <1>2, StepChangesOneProfile

\* A contract that init made ready for use, and not initialize, leaves every
\* profile as it was registered, for ever.
THEOREM NoScoreWithoutReporters == IdentitySpec => []ScoresNeedReporters
<1>1. IdentityInit => ScoresNeedReporters
  BY DEF IdentityInit, ScoresNeedReporters, Registered
<1>2. QED
  BY <1>1, IdentityTypeCorrect, UnreportedScoresAreKept, PTL DEF IdentitySpec

LEMMA ProfileStepHolds ==
    ASSUME IdentityTypeOK, [IdentityNext]_identityVars PROVE ProfileStep
<1>1. CASE profiles' = profiles
  BY <1>1, ProfileIsTyped, IdentityAssumption DEF ProfileStep, Registered
<1>2. ASSUME NEW u \in Users, NEW new \in DriverProfile, ProfileChange(u, new),
             NEW v \in Users, Registered(v)
      PROVE  /\ profiles'[v] # None
             /\ profiles'[v].completed
                   \in {profiles[v].completed, profiles[v].completed + 1}
             /\ profiles'[v].score > profiles[v].score =>
                   profiles'[v].completed = profiles[v].completed + 1
             /\ profiles'[v].kyc # profiles[v].kyc =>
                   /\ identityAdmin # None
                   /\ profiles'[v] = [profiles[v] EXCEPT !.kyc = profiles'[v].kyc]
  <2>1. /\ profiles[v] \in DriverProfile
        /\ profiles[v].score \in 0 .. 100
    BY <1>2, ProfileIsTyped
  <2>2. CASE v # u
    <3>1. profiles'[v] = profiles[v]
      BY <1>2, <2>2 DEF ProfileChange, IdentityTypeOK
    <3>2. QED
      BY <1>2, <2>1, <3>1 DEF Registered
  <2>3. CASE v = u
    <3>1. /\ profiles'[v] = new /\ new # None
          /\ new.score \in 0 .. 100
      BY <1>2, <2>3, NoneIsNoProfile
         DEF ProfileChange, IdentityTypeOK, DriverProfile, MAX_REPUTATION
    <3>2. CASE /\ identityAdmin # None
               /\ new = [profiles[u] EXCEPT !.kyc = new.kyc]
      <4>1. new.score = profiles[v].score /\ new.completed = profiles[v].completed
        BY <2>1, <2>3, <3>2 DEF DriverProfile
      <4>2. QED
        BY <2>1, <2>3, <3>1, <3>2, <4>1
    <3>3. CASE /\ new.score <= profiles[u].score + 10
               /\ new.completed = profiles[u].completed + 1
               /\ new.kyc = profiles[u].kyc
      BY <2>3, <3>1, <3>3
    <3>4. CASE /\ new.score <= profiles[u].score
               /\ new.completed = profiles[u].completed
               /\ new.kyc = profiles[u].kyc
      <4> DEFINE after == profiles'[v].score
                 before == profiles[v].score
      <4>1. after \in 0 .. 100 /\ before \in 0 .. 100 /\ after <= before
        BY <2>1, <2>3, <3>1, <3>4
      <4> HIDE DEF after, before
      <4>2. ~ (after > before)
        BY <4>1
      <4>3. QED
        BY <2>3, <3>1, <3>4, <4>2 DEF after, before
    <3>5. QED
      BY <1>2, <2>3, <3>2, <3>3, <3>4 DEF ProfileChange
  <2>4. QED
    BY <2>2, <2>3
<1>3. QED
  BY <1>1, <1>2, StepChangesOneProfile DEF ProfileStep

\* No profile is lost or started afresh, by the fleet contract either.
THEOREM ProfilesAreKept == IdentitySpec => ProfilesPersist
BY IdentityTypeCorrect, ProfileStepHolds, PTL DEF IdentitySpec, ProfilesPersist
=============================================================================
