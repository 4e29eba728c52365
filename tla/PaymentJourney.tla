--------------------------- MODULE PaymentJourney ---------------------------
(***************************************************************************)
(* What the three contracts together promise about one delivery, without   *)
(* saying who may call what, or in which contract: a parcel, the money     *)
(* that pays for it and the verdict on a complaint about it go their ways  *)
(* together.  The parcel arrives in the step that pays the driver, and is  *)
(* withdrawn in the step that returns the money; a dispute freezes the     *)
(* money in the step that takes note of it; a verdict is carried out in    *)
(* the step that gives it.  Nothing ever leads from frozen money to an     *)
(* arrival, or from settled money to anything else.                        *)
(***************************************************************************)
CONSTANT Ids

VARIABLES parcel,  \* "none", "underway", "disputed", "arrived", "withdrawn"
          money,   \* "none", "held", "frozen", "paid", "returned"
          verdict  \* "none", "open", "refund", "payout", "split"

journeyVars == <<parcel, money, verdict>>

JourneyInit ==
    /\ parcel = [d \in Ids |-> "none"]
    /\ money = [d \in Ids |-> "none"]
    /\ verdict = [d \in Ids |-> "none"]

Settled == {"paid", "returned"}

-----------------------------------------------------------------------------
(* The parcel and the money come independently of each other.              *)

Book(d) ==
    /\ parcel[d] = "none"
    /\ parcel' = [parcel EXCEPT ![d] = "underway"]
    /\ UNCHANGED <<money, verdict>>

Fund(d) ==
    /\ money[d] = "none"
    /\ money' = [money EXCEPT ![d] = "held"]
    /\ UNCHANGED <<parcel, verdict>>

\* The recipient has it, and in the same step the driver is paid.
Arrive(d) ==
    /\ parcel[d] = "underway" /\ money[d] = "held"
    /\ parcel' = [parcel EXCEPT ![d] = "arrived"]
    /\ money' = [money EXCEPT ![d] = "paid"]
    /\ UNCHANGED verdict

\* The sender calls it off and has the money back, also from a dispute.
Withdraw(d) ==
    /\ parcel[d] \in {"underway", "disputed"}
    /\ money[d] \in {"held", "frozen"}
    /\ parcel' = [parcel EXCEPT ![d] = "withdrawn"]
    /\ money' = [money EXCEPT ![d] = "returned"]
    /\ UNCHANGED verdict

\* A dispute on the way, with a case for the arbiter or without one.
Dispute(d, next) ==
    /\ parcel[d] = "underway" /\ money[d] = "held"
    /\ next # verdict[d] => verdict[d] = "none" /\ next = "open"
    /\ parcel' = [parcel EXCEPT ![d] = "disputed"]
    /\ money' = [money EXCEPT ![d] = "frozen"]
    /\ verdict' = [verdict EXCEPT ![d] = next]

\* A complaint after the arrival: the money is gone already.
Complain(d) ==
    /\ parcel[d] = "arrived" /\ money[d] = "paid"
    /\ verdict[d] = "none"
    /\ verdict' = [verdict EXCEPT ![d] = "open"]
    /\ UNCHANGED <<parcel, money>>

\* The money is frozen, or settled, behind the back of everyone else.
Freeze(d) ==
    /\ money[d] = "held"
    /\ money' = [money EXCEPT ![d] = "frozen"]
    /\ UNCHANGED <<parcel, verdict>>

Settle(d, end) ==
    /\ money[d] \in {"held", "frozen"}
    /\ money' = [money EXCEPT ![d] = end]
    /\ UNCHANGED <<parcel, verdict>>

\* The verdict is what happens to frozen money; only one that splits may
\* come too late for that.
Decide(d, decision, end) ==
    /\ verdict[d] = "open"
    /\ \/ /\ money[d] = "frozen"
          /\ <<decision, end>> \in {<<"refund", "returned">>,
                                    <<"payout", "paid">>,
                                    <<"split", "returned">>}
       \/ money[d] = end /\ decision = "split"
    /\ verdict' = [verdict EXCEPT ![d] = decision]
    /\ money' = [money EXCEPT ![d] = end]
    /\ UNCHANGED parcel

JourneyNext ==
    \E d \in Ids :
        \/ Book(d) \/ Fund(d) \/ Arrive(d) \/ Withdraw(d)
        \/ Complain(d) \/ Freeze(d)
        \/ \E next \in {"open", verdict[d]} : Dispute(d, next)
        \/ \E end \in Settled :
               \/ Settle(d, end)
               \/ \E decision \in {"refund", "payout", "split"} :
                      Decide(d, decision, end)

JourneySpec == JourneyInit /\ [][JourneyNext]_journeyVars
=============================================================================
