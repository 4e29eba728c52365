# SwiftChain contracts in TLA+

A verification project for the Soroban contracts under `src/contracts/`: TLA+
modules of the contracts on the path of a payment and of those that keep
fleets and reputations, TLC runs on small instances, and theorems checked by
TLAPS.  Paths below are relative to
`src/contracts/`.

## 1. The system

| component | state it keeps | operations that change state | called by |
|---|---|---|---|
| `escrow_contract` | admin, pending admin, protocol configuration (fee), one escrow record per delivery id; tokens, in the token contracts | `init`, `update_platform_fee`, `propose_admin`, `accept_admin`, `create_escrow`, `release_escrow`, `refund_escrow`, `raise_dispute`, `resolve_dispute`, `resolve_dispute_split`, `freeze_funds` | users, delivery and dispute contract |
| token contracts (external) | balances | `transfer` | users, escrow contract |
| `delivery_contract` | admin, escrow address, id counter, delivery records, driver profiles | `init`, `create_delivery`, `cancel_delivery`, `assign_driver`, `mark_in_transit`, `confirm_delivery`, `raise_dispute` | users, dispute contract |
| `dispute_resolution_contract` | set of admins, two contract addresses, time limit, one case per delivery id | `init`, `add_admin`, `remove_admin`, `raise_dispute`, `add_evidence_hash`, three resolutions | users |
| `fleet_management_contract` | admin, identity address, fleets, roster | `init`, `set_identity_contract`, `register_fleet`, `update_fleet_treasury`, invitation, acceptance, removal | users |
| `identity_reputation_contract` | admin, two contract addresses, authorised contracts, profiles | `init`, `initialize`, `set_authorized_contract`, `register_driver`, `update_driver_kyc_status`, `increase_reputation`, `decrease_reputation` | users, fleet contract |
| `settlement_contract` | admin, four flags | `init`, `set_supported_asset` | users |
| `shared_types` | none (types, keys, events) | none | all |

How they interact.  An invocation is one transaction: handlers call other
contracts synchronously, the caller's signature covers the nested calls, and a
panic anywhere undoes everything.  So there is no interleaving *inside* a
handler; what is hard is the interleaving *of* handlers.  Every contract can be
called directly, by anyone who can sign for the addresses it asks for, between
any two steps of a delivery; three contracts keep a status of their own for one
delivery, with nothing but the order of calls to keep them in agreement; all
escrows share one token balance; fee and admins change while escrows are open;
and nothing orders `init` with respect to the first use.  Time enters through
the ledger's timestamp (dispute window).  There are no messages that can be
lost, and no crash other than the rollback.

What makes each component correct.

- *Escrow*: it always holds what it owes; each escrow is settled once, for
  exactly its amount; settlement can never become impossible; a dispute mark
  tells who disputed.
- *Delivery*: an id belongs to one delivery; its status agrees with its escrow;
  a disputed delivery cannot be confirmed; profiles count confirmations.
- *Dispute*: a case freezes the escrow; the verdict on record is what happened
  to the money; one verdict; the window is respected.
- *Fleet*: the driver counter equals the roster; the payout address changes
  with consent only; ids have no gaps; a registration is whole or leaves nothing.
- *Identity*: tiers are earned by counted deliveries; profiles persist; a
  contract without reporters moves no score.

`PROJECT.json` lists the hazards line by line, with the properties that cover
each of them.

## 2. The modules

| module | what it is |
|---|---|
| `SharedTypes` | statuses, escrow records and identifiers of `shared_types` |
| `Escrow` | `escrow_contract/lib.rs` and the token contracts as it uses them |
| `EscrowPromise` | abstract: what an escrow promises, with no roles, statuses or disputes |
| `EscrowRefinement` | the mapping under which `Escrow` implements `EscrowPromise` |
| `Delivery` | `delivery_contract/lib.rs`, extends `Escrow` |
| `Dispute` | `dispute_resolution_contract/lib.rs`, extends `Delivery`: the whole payment path |
| `PaymentJourney` | abstract: how a parcel, its money and a verdict move together, with no roles and no contracts |
| `JourneyRefinement` | the mapping under which the three contracts implement `PaymentJourney` |
| `Progress` | what `Dispute` brings to an end when its participants act: fairness and liveness |
| `Identity` | `identity_reputation_contract/lib.rs` |
| `Fleet` | `fleet_management_contract/lib.rs`, extends `Identity`, which it calls |
| `FleetCharter` | abstract: how one comes to belong to a fleet, and what the fleet publishes |
| `FleetRefinement` | the mapping under which `Fleet` implements `FleetCharter` |
| `EscrowProofs`, `RefinementProofs` | theorems about `Escrow` and about the refinement |
| `DeliveryProofs`, `DisputeProofs` | theorems about the two contracts above the escrow |
| `SystemProofs` | the composed system implements the escrow's specification, and what follows |
| `JourneyProofs` | the three contracts implement `PaymentJourney`, and `EscrowPromise` as well |
| `IdentityProofs`, `FleetProofs` | theorems about the other two contracts, and about their refinement |
| `MCEscrow`, `MCEscrowRefinement`, `MCDelivery`, `MCDispute`, `MCIdentity`, `MCFleet` | instances for TLC: amounts, symmetry, state constraints |

There are two compositions, because there are two groups of contracts that call
each other: `Escrow`, `Delivery`, `Dispute` on the path of a payment, and
`Identity`, `Fleet`.  No call leads from one group to the other.  In particular
nobody calls `increase_reputation` or `decrease_reputation`, and the delivery
and the identity contract keep two separate profiles of a driver.

**Actions and handlers.**  One action per entry point, with the entry point's
name (a prefix where two contracts share it: `escrow_init`, `delivery_init`,
`dispute_init`, `identity_init`, `fleet_init`, `escrow_raise_dispute`,
`delivery_raise_dispute`, `dispute_raise_dispute`).  The conjuncts without primes
are the conditions under which nothing panics; a call that panics changes nothing
and is no step.  A nested call is the other contract's action used as a conjunct:
`confirm_delivery` contains `release_escrow`, `delivery_raise_dispute` contains
`escrow_raise_dispute`, and `register_fleet` contains `register_driver` (in
`RegisterOwner`).  A read-only
nested call (`get_delivery`, `get_escrow`) is a use of the other contract's
variable.  Where one invocation writes the same variable twice, the
record is handed from call to call: `dispute_raise_dispute` calls `raise_dispute`
of the delivery contract, which marks the escrow, and then `freeze_funds`, so
`RaiseThenFreeze` applies `Frozen` to what `Marked` left.  That the second call
finds the escrow Paused and changes nothing is proved (`FreezingIsIdle`,
`RaisingCallsOne` in `SystemProofs`), not assumed.

**Direct calls.**  `DirectEscrowCalls`, `DirectDeliveryCalls` and
`DirectIdentityCalls` keep every step of a lower contract a step of the
composition.

**State.**  `None` stands for `Option::None` and for an absent storage key.
`escrowAdmin`, `deliveryAdmin`, `timeLimit`, `identityAdmin` and `fleetAdmin` are
`None` exactly before the contract's initialisation.  The addresses that the
payment contracts store on `init` are not variables, since the instances are
wired to each other; `identityContract` is one, because the fleet contract works
without it and its admin may set it to anything at any time.  `balance[t][a]` is
what account `a` owns of token `t`.  A list of evidence hashes is its length.

**Specifications.**  `EscrowSpec`, `DeliverySpec`, `Spec`, `IdentitySpec` and
`FleetSpec` start with contracts that nobody initialised: `init` is an action
like any other, open to whoever comes first, and other handlers may come before
it.  `DeployedDeliverySpec` and
`DeployedSpec` start where a deployer has just initialised all of them.
`SupportedSpec` adds to `DeployedSpec` that administration is not handed over,
and the fairness described in section 3.

**Abstract specifications.**  Three modules say what is promised and not how:
`EscrowPromise` (the money of one contract), `PaymentJourney` (the course of one
delivery through three contracts) and `FleetCharter` (membership of a fleet).
They have no callers, authorisations or initialisation.  In
`PaymentJourney` a delivery is `(parcel, money, verdict)`, and each of these is
read off the record of one contract: a Pending, Active or InTransit delivery is
"underway", a Locked escrow "held", a Paused one "frozen", a Released one
"paid" and a Refunded one "returned" (a split marks it Refunded as well), and a
case is its verdict.  In `FleetCharter` the invited and the members are two
sets, read off the roster, and the head count is read off the profile.

**Abstractions.**

- Sender, recipient, driver and admins are `Users`, and so are the addresses
  allowed to report reputation, which the identity contract only compares; none
  of them is the escrow contract itself.  (An escrow whose driver is the escrow contract would be
  "paid" to itself and keep the money there for ever.)
- Left out: events, getters, time to live, metadata, timestamps that no handler
  reads (`created_at`, `disputed_at`, `transit_started_at`, `registered_at`),
  the unused `token` and `protocol_version` of the configuration, and of the
  driver profile all but `deliveries_completed` (`reputation_score` moves in
  step with it, KYC is never set there).
- A token transfer fails on a negative amount or on insufficient funds and for
  no other reason: the token follows the Stellar token interface and charges no
  fee of its own; `TransferAmounts` lets users pay each other and donate to the
  contract.
- `saturating_mul` stops at `I128Max`, a constant, so that small instances
  saturate; the lower end is out of reach, amounts in escrow not being negative.
  `delivered_at + dispute_limit` fails above `U64Max`, as it does with the
  `overflow-checks` of the release profile.
- `total_active_drivers` has no upper bound in the model: it counts users, and
  the code's `u32` outlasts them.

## 3. What TLC checks

Every passing run explores its whole (constrained) state space.

| run | instance | shows |
|---|---|---|
| `escrow_custody` | not initialised; 2 users, 2 deliveries, amounts -1 and 15, fees 0 / 1000 / 1001, shares 3333 / 10001, saturation at 20000; 147 000 states | `Solvency`: the contract holds at least the sum of its debts. `CustodyMatchesClaims`: every step moves the balance by exactly the change of one delivery's claim. `SettledOnce`. `SettlementNeverBlocked`: no guard and no transfer can stand in the way of the admin's settlement, a split included. `SettlementsAreCovered`: release, refund and every split of an unsettled escrow find the money for all of their transfers, in their order. `DisputeMarks`. `EscrowTypeOK` |
| `escrow_promise` | 3 users, 1 delivery, amounts -1, 0, 10, initial fee 1500, saturation at 50000; 45 000 states | `KeepsPromise`: `Escrow` implements `EscrowPromise` |
| `delivery_two` | not initialised; 2 users, 2 deliveries, clock 0..1, constraint `OrdinaryUse`; 508 000 states | `IdsAreUnique`; `CompletedMatchesDeliveries`: profiles count exactly the confirmed deliveries |
| `system_scratch` | three contracts, none initialised; 2 users, 1 delivery, evidence up to 1; 597 000 states | `StatusAgreement`: what the delivery contract says of a payment is what the escrow did. `DisputeBlocksConfirmation`. `CaseFreezesEscrow`, `CaseOutcomeMatchesEscrow`: a case holds the money, and its verdict is what became of it. `EndsMoveMoney`, `VerdictsMoveMoney`: the step that ends a delivery or decides a case is the step that pays, the right people, to the last unit, and nobody else. `VerdictsAreFinal`. `TypeOK` |
| `system_deployed` | `SupportedSpec`; 3 users, clock 0..2, window 1, `U64Max` 2, no symmetry; 360 000 states | `CasesAreTimely`: the window is respected up to the end of the clock. `SettledDisputesRest`: a disputed delivery whose escrow is settled never changes again. `FollowsJourney`: the three contracts implement `PaymentJourney`. Liveness: `CasesGetClosed`, `PaymentsSettle` |
| `identity` | 2 users, weights 5000 / 5001, penalties 7 / 60, `U32Max` 6, constraint `OneDriverReported`; 47 000 states | `TierIsEarned`: no mixture of reports makes a driver Gold before the third counted delivery. `ScoresNeedReporters`: a contract that was given no reporters, as by `init`, moves no score. `ProfilesPersist`. `IdentityTypeOK` |
| `fleet` | 2 users, 2 fleets, the identity contract linked, not linked, or another contract in its place; constraint `IdentityUnadministered`; 16 000 states | `ActiveDriversCounted`: the count in the profile is the roster's. `FleetIdsAreGapless`. `PayoutsMoveByConsent`: a payout address moves only when the driver joins or leaves, or is a member while the treasury changes. `OwnersGetProfiles`: fleet and profile together or neither. `KeepsCharter`: `Fleet` implements `FleetCharter`. `FleetTypeOK` |

Five more runs each show one disagreement between the code and what the
repository says of it (`PROJECT.json`, "findings"):

| run | what TLC finds |
|---|---|
| `uncapped_fee` | `init` accepts a fee above 100%; a release then pays the fee with other deliveries' money (`Solvency`) |
| `ids_before_init` | a delivery created before `init` is overwritten by one created after it (`IdsAreUnique`) |
| `driver_paid` | the assigned driver and the paid driver differ (`AssignedDriverIsPaid`) |
| `open_case` | a case is open although its escrow holds nothing (`OpenCaseHoldsFunds`) |
| `disputed_stuck` | after the verdict the delivery can never leave Disputed, although its escrow names its own sender and recipient (`DisputedDeliveryCanClose`) |

**Bounds, and why they are enough.**  One delivery is
enough for `FollowsJourney`: no handler of the payment path reads or writes the
record of another delivery than its own, and the theorem covers any number.
Two deliveries are what it takes for one
to be paid with the other's money, and for an id to be given out twice.  Two
users let every pair of roles be one person or two; three, where sender, driver
and admin must be told apart (`escrow_promise`, `system_deployed`).  The amount
15 with a fee of 1000, and 10 with a share of 3333, round down; 15 * 3333 and 10 * 10000
saturate; 10001 and 1001 are the first values that are refused.  The users'
balances allow two escrows at once, or the same money locked again after a
refund.  The clock reaches one tick beyond the window, and `U64Max` lies where
a delivery confirmed at time 2 has no representable end of its window.  In
`identity`, 5000 and 5001 lie on either side of the weight that earns points,
six reports reach the score of 100 from any start, and a penalty of 60 reaches
0 from the first score.  In `fleet`, two fleets let a driver belong to both and
one owner register twice.  A constant set left empty in a cfg (`TransferAmounts`,
`NewFees`, `Weights`, `Penalties`) switches off actions that another run
explores.  Users are symmetric: they start alike and no action names one.

**Constraints.**

- `OrdinaryUse` (`delivery_two`) keeps the escrow's administration with the
  deployer, initialises the delivery contract before it is used, and lets the
  escrow of a delivery name the delivery's parties and driver.  Without the
  second part `IdsAreUnique` fails (run `ids_before_init`); escrows that name
  other people are explored by the runs with one delivery.
- `OneDriverReported` (`identity`): reports concern one driver at a time; the
  other user may have a fresh profile, and may be the reporter or the admin.
- `IdentityUnadministered` (`fleet`): nobody initialises the identity contract.
  A fleet depends on whether a profile exists, and an admin or reporter of the
  identity contract creates and removes none (`ProfilesPersist`).

**Deadlock.**  `CHECK_DEADLOCK FALSE`: contracts only react, and nothing obliges
anyone to call them.

**Fairness.**  A contract never acts on its own, so the code by itself justifies
no fairness; `Progress` states an assumption on the *participants*.  Weak
fairness is assumed of exactly four calls, for each delivery: the arbiter's
verdict, the arbiter's decision on a frozen escrow without a case, the driver's
`mark_in_transit`, and the recipient's `confirm_delivery`.  That somebody
creates the escrow, assigns a driver, disputes or cancels is never assumed, nor
that time passes; all of these may interfere at any moment.  Weak fairness is
enough since none of the four calls, once possible, is made impossible except
by a step that brings the delivery further.  `AdministrationStays` is the other
assumption, and a strong one: a verdict needs a caller who is admin of the
dispute contract *and* of the escrow contract, so after a handover in one of
them only, nobody can give it.  The behaviours of this instance are
finite up to stuttering (every handler it leaves enabled moves a status, the
clock or a counter forward) and the run uses no symmetry, which would be unsound for liveness.

**Mutants.**  Operators marked "Slip" in a comment are plausible mistakes (a
dropped guard, a strict comparison, the wrong payee).  No specification uses
them; `PROJECT.json` names the definition each replaces and the property that
then fails.

## 4. What is proved

For every number of users, tokens, deliveries, fleets, and for all amounts,
fees, shares, weights and clocks.  Assumptions: the named `ASSUME`s of the
modules (`SharedAssumption`, `NoneIsNoEscrow`, `EscrowAssumption`,
`IdentityAssumption`, `FleetAssumption` and their like), which TLC evaluates in
the runs.  The theorems about money (`Custody`, `Solvent`,
`SettlementsCovered` and what follows from them, the three about
`KeepsPromise`, those about `EndsMoveMoney` and `VerdictsMoveMoney`, and
`CasesCanAlwaysBeClosed`) further assume
`FeeWithinWhole`: no deployer passes a fee above 100%.  The run `uncapped_fee`
shows that solvency cannot do without.

| module | theorem | statement |
|---|---|---|
| `EscrowProofs` | `EscrowTypeCorrect` | `EscrowSpec => []EscrowTypeOK` |
| | `Custody` | `EscrowSpec => CustodyMatchesClaims` |
| | `Solvent` | `EscrowSpec => []Solvency` |
| | `SettlementsCovered` | `EscrowSpec => []SettlementsAreCovered` |
| | `RecordsSettleOnce` | `EscrowSpec => SettledOnce` |
| | `MarksAreRight` | `EscrowSpec => []DisputeMarks` |
| `RefinementProofs` | `PromiseIsKept` | `EscrowSpec => KeepsPromise` |
| `SystemProofs` | `SystemCallsEscrow` | `Spec => EscrowSpec` |
| | `SystemSolvent`, `SystemSettlementsCovered`, `SystemCustody`, `SystemSettlesOnce`, `SystemMarksAreRight` | the same of `Spec` |
| `DeliveryProofs` | `DeliveryTypeCorrect` | `DeliverySpec => [](DeliveryTypeOK /\ EscrowTypeOK)` |
| | `StatusesAgree` | `DeliverySpec => []StatusAgreement` |
| | `DisputesBlockConfirmation` | `DeliverySpec => DisputeBlocksConfirmation` |
| | `EndsArePaid` | `DeliverySpec => EndsMoveMoney` |
| | `IdsStayUnique` | `DeployedDeliverySpec => IdsAreUnique` |
| | `ConfirmationsAreCounted` | `DeployedDeliverySpec => []CompletedMatchesDeliveries` |
| `DisputeProofs` | `SystemCallsDelivery` | `Spec => DeliverySpec` |
| | `SystemTypeCorrect`, `SystemStatusesAgree`, `SystemBlocksConfirmation` | `TypeOK`, `StatusAgreement`, `DisputeBlocksConfirmation` of `Spec` |
| | `CasesFreezeEscrows` | `Spec => []CaseFreezesEscrow` |
| | `DecisionsAreFinal` | `Spec => VerdictsAreFinal` |
| | `VerdictsAreCarriedOut` | `Spec => []CaseOutcomeMatchesEscrow` |
| | `CasesAreRaisedInTime` | `DeployedSpec => []CasesAreTimely` |
| | `VerdictsArePaid`, `SystemEndsArePaid` | `Spec => VerdictsMoveMoney`, `EndsMoveMoney` |
| | `DeployedEndsAndVerdictsArePaid` | `DeployedSpec => EndsMoveMoney /\ VerdictsMoveMoney` |
| | `SettledDisputesStay` | `DeployedSpec => SettledDisputesRest` |
| | `CasesCanAlwaysBeClosed` | `Spec \/ DeployedSpec =>` always, the escrow of every case is Paused and covered, or settled |
| | `DeployedFundsAreSafe` | `DeployedSpec => []Solvency /\ []SettlementsAreCovered /\ CustodyMatchesClaims` |
| | `DeployedTellsOneStory` | `DeployedSpec =>` `[]StatusAgreement`, `[]CaseFreezesEscrow`, `[]CaseOutcomeMatchesEscrow`, `[]DisputeMarks`, `SettledOnce`, `VerdictsAreFinal`, `DisputeBlocksConfirmation` |
| `JourneyProofs` | `JourneyIsFollowed` | `DeployedSpec => FollowsJourney` |
| | `JourneyKeepsTogether` | `FollowsJourney => []Together` |
| | `SystemKeepsPromise`, `DeployedKeepsPromise` | `Spec => KeepsPromise`, `DeployedSpec => KeepsPromise` |
| `IdentityProofs` | `IdentityTypeCorrect`, `TiersAreEarned`, `NoScoreWithoutReporters` | `IdentitySpec => []IdentityTypeOK`, `[]TierIsEarned`, `[]ScoresNeedReporters` |
| | `ProfilesAreKept` | `IdentitySpec => ProfilesPersist` |
| `FleetProofs` | `FleetCallsIdentity` | `FleetSpec => IdentitySpec` |
| | `FleetsKeepProfiles` | `FleetSpec => ProfilesPersist` |
| | `FleetsLeaveScoresEarned` | `FleetSpec =>` `[]IdentityTypeOK`, `[]TierIsEarned`, `[]ScoresNeedReporters` |
| | `FleetTypeCorrect`, `IdsHaveNoGaps`, `MembersAreCounted` | `FleetSpec => []FleetTypeOK`, `[]FleetIdsAreGapless`, `[]ActiveDriversCounted` |
| | `PayoutsNeedConsent`, `RegistrationsAreWhole` | `FleetSpec => PayoutsMoveByConsent`, `OwnersGetProfiles` |
| | `CharterIsKept` | `FleetSpec => KeepsCharter` |

The argument.

1. *Types* are inductive by themselves.  The interesting part is that no balance
   becomes negative: the transfers' own checks see to that.
2. *Custody* needs, besides types, that the current fee is at most 100%
   (`FeeStaysBounded`).  Then the driver's part and the fee are natural numbers
   that add up to the amount, whatever is rounded and whether or not the product
   saturates (`ShareWithinAmount`, `DriverAndFeeArePaid`), and so do the two
   parts of a split (`SplitIsPaid`).  Every settlement therefore takes exactly
   the amount from the contract and leaves other records alone
   (`SettlingKeepsCustody`); `CustodyIsKept` goes through the actions.
3. *Solvency* mentions a sum over all deliveries, a recursive function.
   Instead of reasoning about its definition, the proof carries a witness:
   `Covered` says that there is, for every token, a sequence of running sums of
   the claims whose last element is at most the balance.  A step that changes
   one claim shifts the sums from that delivery on by the change
   (`SumFollowsClaim`), and custody says that the balance shifts by the same.
   The inductive invariant, `Funded`, is `EscrowTypeOK`, the bound on the fee, and
   `Covered`.  Running sums are unique (`OnlyOneSum`, by a least
   counterexample), so `Covered` is `Solvency` (`CoverIsSolvency`).
   *Coverage* is a second use of the same witness: running sums of natural
   numbers never fall, so the claim of one delivery is at most the last of them
   (`OneClaimFits`) and the balance is at least that claim; driver's part and
   fee, or the two parts of a split, fit into it one after the other
   (`PartsFit`, `CoverIsEnough`).  Solvency in the sense of a sum alone would
   not say that the second transfer of a settlement goes through.
4. *Records* and *marks* follow action by action from the types.
5. *The promise.*  Every handler maps to one abstract step or to a stutter
   (`StepKeepsPromise`): `create_escrow` to `Fund`, a release or a verdict for
   the driver to `Release`, a refund or a split to `Refund`, a transfer between
   users to `Spend`; disputes and administration are invisible.  Settlements
   skip payments of zero, so the code's transfers are first shown to be the
   same movement of money (`MovedIsPaid`, `PaidOutIsMoved`).  The one invariant
   needed besides types is `FeeCapped`: the current fee is within the cap,
   because both `init` and `update_platform_fee` keep it there.
6. *The system*: every handler of the delivery and of the dispute contract either
   leaves the escrow's variables alone or contains exactly one call that changes
   them, which is a step of `EscrowNext` (`DeliveryStepIsEscrowStep`); in the same way a
   step of `Next` is one of `DeliveryNext` (`StepIsDeliveryStep`), and one of
   `FleetNext` is one of `IdentityNext` (`FleetStepIsIdentityStep`).  So the
   theorems of a contract hold of those above it.  `DeployedSpec` begins in
   another state than `Spec`; what the inductions need at the start is shown for
   that state too (`DeploymentIsFunded`, `DeployedAgrees`), and the lemmas about
   steps serve both.
7. *Deliveries.*  `KindsOfSteps` sorts all handlers, direct calls of the escrow
   included, into six kinds (a creation, an assignment, an advance, a
   confirmation, the initialisation, no delivery moves), each with what it does
   to the record and to its escrow.  `StatusAgreement` is then inductive with
   the types: one of the two statuses moves only with the other or in a
   direction that `SettledOnce` and the transitions allow.  That a disputed
   delivery is not confirmed follows from it, since a release needs a Locked
   escrow.  Uniqueness of ids and the count of confirmations need the deployed
   system and `Numbered`: a record exists exactly for the ids up to the
   counter, a Pending delivery has no driver, and the contract is initialised.
8. *Cases.*  `KindsOfCaseSteps` does the same for cases (raising, documenting,
   deciding).  `CasesAreSound` (types and `CaseFreezesEscrow`) is inductive; the
   outcome follows because a settled escrow never changes.  The window needs
   `Timely`: a confirmation lies in the past, the limit is set and a case has a
   delivery; then the guard of the raising step speaks about the same clock as
   the property.
9. *The journey.*  Every step of `Next` moves at most one entry of each of the
   three maps (`OneParcelMoves`, `OneMoneyMoves`, `OneVerdictMoves`).  That the
   entries of *one* delivery move together is the nested call; that the move
   is one `PaymentJourney` allows is where the invariants are needed.
   `StatusAgreement` says that the escrow of a Disputed delivery is not Locked,
   so that none of them arrives, and that the escrow of a Delivered one is
   Released, so that `freeze_funds` in a late complaint changes nothing;
   `CasesAreSound` says that a case has an escrow which is not Locked, so that
   a split which skips the payment meets settled money; and `Numbered` that
   `create_delivery` finds no record under its id.
   The last one is why the theorem is about `DeployedSpec`: from contracts
   nobody initialised, a parcel can be booked over another one (run
   `ids_before_init`).
   What following the journey means is proved from the abstract specification
   alone (`JourneyKeepsTogether`): each of its steps moves the three words of
   one delivery to words that go together (`OneDeliveryTravels`), so that every
   implementation, this one included, has an arrived parcel paid, a withdrawn
   one refunded, a disputed one frozen or settled, and a verdict where the
   money went.
10. *Ends, verdicts and payments.*  `EndsMoveMoney` and `VerdictsMoveMoney`
   compare the balances before and after a step of the contract that keeps the
   status with what the escrow, in another contract, says is due, person by
   person (sender, driver and admin may be one).  Two transfers in a row are
   first turned into gains (`PayToUser`, `TwoPartsToUsers`), then a release, a
   refund and a split (`DriverAndAdminGain`, `SenderHasItBack`,
   `BothHaveTheirPart`); the kinds of steps of 7 and 8 carry these gains with
   them, so that an advance to Cancelled *is* a refund and a decision *is* its
   payment.  Needed besides types is the bound on the fee (`Funded` holds it):
   with a larger fee a release pays somebody else's money.
11. *After the verdict.*  `SettledDisputesStay` goes through the kinds of steps
   once more: what leaves Disputed needs an escrow that is not settled, and a
   new delivery has a new id (`Numbered`).  `CasesCanAlwaysBeClosed` is the
   guard of a verdict: the escrow of a case exists and is not Locked
   (`CaseFreezesEscrow`), and if it is Paused, the balance covers every
   transfer of every verdict (`CoverIsEnough`).
12. *Scores.*  `ScoreIsEarned` (at most 50 plus ten per counted delivery) is
   inductive; the tier is arithmetic from it.  *Fleets*: `GaplessInv` adds the
   types; `CountInv` compares the counter with the cardinality of the roster's
   active drivers, which one addition or removal changes by one.  *The charter*
   needs both (`CharterInv`): the count is right before and after a step, so the
   head count follows the members whatever the handler wrote
   (`HeadsFollowMembers`), and a fleet that is founded starts with nobody
   because the roster of an unused id is empty (`NobodyBefore`).

Only model-checked: `SettlementNeverBlocked` and `DisputedDeliveryCanClose`
(they use `ENABLED`, which the prover does not support), and `CasesGetClosed` and
`PaymentsSettle` (liveness under fairness).  Of `SettlementNeverBlocked` the
part that could go wrong, the money, is proved as `SettlementsAreCovered`; what
remains is that the other guards of a settlement are the status and the caller.
Of `CasesGetClosed` the safety half is proved as `CasesCanAlwaysBeClosed`, and
`SettledDisputesStay` is the general reason for what the run `disputed_stuck`
finds.

## 5. Not modelled

- `settlement_contract`: its crate root `lib.rs` keeps four independent flags
  that an admin sets and no contract reads; its `src/lib.rs` is not part of the
  crate and holds a `todo!()`.  There is no order of calls that could matter.
- Archival of ledger entries and their time to live: an archived entry makes an
  invocation fail before the contract runs.
- Accounts that cannot receive a token (no trustline, frozen).
- Events, getters (except `get_payout_address` and the tiers), metadata.

Two things a reader of the modules may miss and that are so in the code: no
handler of the identity contract asks for the `authorized` list, and, while the
identity contract is linked, an owner cannot register a second fleet.

## 6. Plan

All contracts that have behaviour are modelled; the invariants (but for
`SettlementNeverBlocked`, which uses `ENABLED`), the action properties and the three refinements of the
runs are proved.  What could still be added: the money and the journey of a delivery in one abstract
specification, `EscrowPromise` with a parcel; liveness under a
handover of the administration in all contracts at once (it needs a joint
handover, which the code does not have); and larger instances of
`delivery_two`, whose two deliveries and two users are at the limit of what TLC
finishes in a few minutes.
