---------------------------- MODULE FleetCharter ----------------------------
(***************************************************************************)
(* What the fleet contract promises, without saying who may call what: a   *)
(* fleet is founded empty and never dissolved, people enter it by an       *)
(* invitation and an acceptance and in no other way, and the head count    *)
(* it publishes is at every moment the number of its members.              *)
(***************************************************************************)
EXTENDS Naturals, FiniteSets

CONSTANTS People, Ids, NoTreasury

VARIABLES founded,    \* how many fleets there are
          treasury,   \* where each of them is paid
          invited,    \* who may join it
          members,    \* who belongs to it
          headcount   \* the number it publishes

charterVars == <<founded, treasury, invited, members, headcount>>

CharterInit ==
    /\ founded = 0
    /\ treasury = [f \in Ids |-> NoTreasury]
    /\ invited = [f \in Ids |-> {}]
    /\ members = [f \in Ids |-> {}]
    /\ headcount = [f \in Ids |-> 0]

-----------------------------------------------------------------------------
\* Fleets are numbered as they come, and begin with nobody in them.
Found(f, place) ==
    /\ f = founded + 1
    /\ invited[f] = {} /\ members[f] = {}
    /\ founded' = f
    /\ treasury' = [treasury EXCEPT ![f] = place]
    /\ UNCHANGED <<invited, members, headcount>>

MoveTreasury(f, place) ==
    /\ f <= founded
    /\ treasury' = [treasury EXCEPT ![f] = place]
    /\ UNCHANGED <<founded, invited, members, headcount>>

Invite(f, p) ==
    /\ f <= founded
    /\ p \notin invited[f] \union members[f]
    /\ invited' = [invited EXCEPT ![f] = @ \union {p}]
    /\ UNCHANGED <<founded, treasury, members, headcount>>

Decline(f, p) ==
    /\ p \in invited[f]
    /\ invited' = [invited EXCEPT ![f] = @ \ {p}]
    /\ UNCHANGED <<founded, treasury, members, headcount>>

\* A change of the membership, and the head count that goes with it.
Counted(f, new) ==
    /\ members' = [members EXCEPT ![f] = new]
    /\ headcount' = [headcount EXCEPT ![f] = Cardinality(new)]

Join(f, p) ==
    /\ p \in invited[f]
    /\ invited' = [invited EXCEPT ![f] = @ \ {p}]
    /\ Counted(f, members[f] \union {p})
    /\ UNCHANGED <<founded, treasury>>

Leave(f, p) ==
    /\ p \in members[f]
    /\ Counted(f, members[f] \ {p})
    /\ UNCHANGED <<founded, treasury, invited>>

CharterNext ==
    \E f \in Ids, p \in People :
        \/ Found(f, p) \/ MoveTreasury(f, p)
        \/ Invite(f, p) \/ Decline(f, p)
        \/ Join(f, p) \/ Leave(f, p)

CharterSpec == CharterInit /\ [][CharterNext]_charterVars
=============================================================================
