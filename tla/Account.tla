------------------------------ MODULE Account ------------------------------
(***************************************************************************)
(* What the class Portfolio promises its callers, told without trade       *)
(* groups, positions or a log: money and shares of symbols, bought and     *)
(* sold in one step each.  A caller that buys pays what a buy costs; one   *)
(* that sells has the shares, loses exactly those, and gets what the sale  *)
(* brings in up to half a won a share, because the proceeds may have been  *)
(* split over lots.                                                        *)
(***************************************************************************)
EXTENDS Execution

CONSTANTS Symbols, InitialCash, Prices, Dates, MaxQty

VARIABLES money, shares
vars == <<money, shares>>

Init == money = InitialCash /\ shares = [s \in Symbols |-> 0]

Buy(s, price, q) ==
    /\ BuyCost(price, q) <= money
    /\ money' = money - BuyCost(price, q)
    /\ shares' = [shares EXCEPT ![s] = @ + q]

Sell(s, price, q, date) ==
    /\ q <= shares[s]
    /\ 2 * (money' - money - SellProceeds(price, q, date)) \in (-q)..q
    /\ shares' = [shares EXCEPT ![s] = @ - q]

Next ==
    \E s \in Symbols, price \in Prices :
        \/ \E q \in 1..MaxQty : Buy(s, price, q)
        \/ \E q \in 1..shares[s], date \in Dates : Sell(s, price, q, date)

Spec == Init /\ [][Next]_vars
=============================================================================
