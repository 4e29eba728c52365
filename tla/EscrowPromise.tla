---------------------------- MODULE EscrowPromise ----------------------------
(***************************************************************************)
(* What an escrow promises to the people who use it, without saying who    *)
(* may act, when, or what a dispute is: the money of a deal stays in the   *)
(* vault until it is paid out, once and completely, either to the driver   *)
(* less a capped fee, or shared by the sender and the driver with no fee.  *)
(* escrow_contract is to implement this (EscrowRefinement).                *)
(***************************************************************************)
EXTENDS Integers

CONSTANTS People, Vault, Coins, DealIds, NoDeal,
          Opening,   \* the balances to begin with
          FeeCapBps  \* the largest fee, in basis points of the amount

VARIABLES deal,  \* the terms agreed on for an id, or NoDeal
          phase, \* "none", "held", "released" or "refunded"
          purse  \* who holds what of each coin

promiseVars == <<deal, phase, purse>>

PromiseInit ==
    /\ deal = [d \in DealIds |-> NoDeal]
    /\ phase = [d \in DealIds |-> "none"]
    /\ purse = Opening

\* Money changes hands; from and to may be the same.
Moved(p, coin, from, to, amount) ==
    LET taken == [p EXCEPT ![coin][from] = @ - amount]
    IN  [taken EXCEPT ![coin][to] = @ + amount]

\* The sender's money enters the vault when the deal is made.
Fund(d, sender, driver, coin, amount) ==
    /\ phase[d] = "none"
    /\ amount \in 0 .. purse[coin][sender]
    /\ deal' = [deal EXCEPT ![d] = [sender |-> sender, driver |-> driver,
                                    coin |-> coin, amount |-> amount]]
    /\ phase' = [phase EXCEPT ![d] = "held"]
    /\ purse' = Moved(purse, coin, sender, Vault, amount)

\* The whole amount leaves the vault: part to one person, the rest to another.
PaidOut(d, one, part, other) ==
    LET coin == deal[d].coin
        first == Moved(purse, coin, Vault, one, part)
    IN  purse' = Moved(first, coin, Vault, other, deal[d].amount - part)

Release(d, payee, fee) ==
    /\ phase[d] = "held"
    /\ fee * 10000 <= deal[d].amount * FeeCapBps
    /\ PaidOut(d, deal[d].driver, deal[d].amount - fee, payee)
    /\ phase' = [phase EXCEPT ![d] = "released"]
    /\ UNCHANGED deal

Refund(d, share) ==
    /\ phase[d] = "held"
    /\ PaidOut(d, deal[d].sender, share, deal[d].driver)
    /\ phase' = [phase EXCEPT ![d] = "refunded"]
    /\ UNCHANGED deal

\* People do with their own money what they like.
Spend(from, to, coin, amount) ==
    /\ amount <= purse[coin][from]
    /\ purse' = Moved(purse, coin, from, to, amount)
    /\ UNCHANGED <<deal, phase>>

PromiseNext ==
    \/ \E d \in DealIds, sender, driver \in People, coin \in Coins :
           \E amount \in 0 .. purse[coin][sender] :
               Fund(d, sender, driver, coin, amount)
    \/ \E d \in {x \in DealIds : phase[x] = "held"} :
           \E part \in 0 .. deal[d].amount :
               \/ Refund(d, part)
               \/ \E payee \in People : Release(d, payee, part)
    \/ \E from \in People, to \in People \union {Vault}, coin \in Coins :
           \E amount \in 0 .. purse[coin][from] : Spend(from, to, coin, amount)

PromiseSpec == PromiseInit /\ [][PromiseNext]_promiseVars
=============================================================================
