------------------------------ MODULE Portfolio ------------------------------
(***************************************************************************)
(* portfolio/portfolio.py under any legal sequence of calls: buys with and *)
(* without allow_pyramiding, sales of one trade group, and sales of a      *)
(* symbol first in, first out, whose loop over the trade groups is one     *)
(* action a turn.  Amounts are split over the groups as the code does it.  *)
(***************************************************************************)
EXTENDS Ledger, Execution, FiniteSetsExt

CONSTANTS
    Prices,      \* execution prices callers come with
    Dates,       \* execution dates
    MaxQty,      \* bound: shares of one order
    MaxTrades,   \* bound: entries of trade_logs
    Pyramiding   \* values of allow_pyramiding callers pass

ASSUME CallsAssumption ==
    /\ Prices \subseteq Nat \ {0}
    /\ Dates \subseteq Int
    /\ MaxQty \in Nat /\ MaxTrades \in Nat
    /\ Pyramiding \subseteq BOOLEAN

VARIABLE sale    \* the sell_symbol_fifo call in progress: empty or one record

vars == <<ledgerVars, sale>>

Quantity(s) == SumFunction([g \in GroupsOf(s) |-> groups[g].remaining])

Init == LedgerInit /\ sale = << >>

Idle == sale = << >> /\ Len(log) < MaxTrades

BuyShares(s, price, q, date, pyramid) ==
    /\ Idle
    /\ s \notin Held \/ pyramid
    /\ Buy(s, price, q, BuyCost(price, q), date, date)
    /\ UNCHANGED sale

BuyHeld(s, price, q) ==
    /\ Idle
    /\ s \in Held
    /\ q > 0 /\ BuyCost(price, q) <= cash
    /\ nextId <= MaxTrades
    /\ BuyHeldRefused
    /\ UNCHANGED sale

SellGroup(g, price, q, date) ==
    /\ Idle
    /\ SellTradeGroup(g, price, q, SellProceeds(price, q, date), date, date, "rule")
    /\ UNCHANGED sale

\* sell_symbol_fifo up to its loop: a symbol that is not held or a quantity
\* above the position's is refused without a trace.
SellSymbolFifo(s, price, q, date) ==
    /\ Idle
    /\ s \in Held
    /\ q \in 1..Quantity(s)
    /\ sale' = <<[symbol |-> s, price |-> price, qty |-> q, left |-> q, parts |-> 0,
                  net |-> SellProceeds(price, q, date), date |-> date]>>
    /\ UNCHANGED ledgerVars

\* The key the loop sorts by: (entry_date, trade_group_id).
Older(g, h) ==
    \/ groups[g].entryDate < groups[h].entryDate
    \/ groups[g].entryDate = groups[h].entryDate /\ g < h

\* Mutations: newest lot first; the error of earlier parts moves into the next;
\* the loop forgets what it has taken.
IsNewest(g)            == \A h \in GroupsOf(groups[g].symbol) \ {g} : Older(h, g)
ShareOfRest(order, q)  == RoundKrw(order.net * q, order.left)
LeftAtLeast(order, q)  == IF order.left = 1 THEN 0 ELSE order.left

\* sorted_groups, the proportional part of the proceeds, and remaining.
IsOldest(g)            == \A h \in GroupsOf(groups[g].symbol) \ {g} : Older(g, h)
ShareOf(order, q)      == RoundKrw(order.net * q, order.qty)
LeftToSell(order, q)   == order.left - q

\* One turn of the loop: the oldest group gives what it has, at most what is
\* still to sell, and gets its share of the proceeds by quantity.
SellOldestGroup ==
    /\ sale # << >>
    /\ \E g \in GroupsOf(sale[1].symbol) :
        LET order == sale[1]
            take  == Min({order.left, groups[g].remaining})
            left  == LeftToSell(order, take)
        IN  /\ IsOldest(g)
            /\ SellTradeGroup(g, order.price, take, ShareOf(order, take),
                              order.date, order.date, "fifo")
            /\ sale' = IF left = 0 THEN << >>
                       ELSE <<[order EXCEPT !.left = left, !.parts = @ + 1]>>

UpdateMarketPrice(s, price) ==
    /\ Idle
    /\ quote' = MarketPrice(s, price)
    /\ UNCHANGED <<cash, groups, log, nextId, sale>>

UpdatePeakPrice(s, high) ==
    /\ Idle
    /\ quote' = PeakPrice(s, high)
    /\ UNCHANGED <<cash, groups, log, nextId, sale>>

Next ==
    \/ SellOldestGroup
    \/ \E s \in Symbols, price \in Prices :
        \/ UpdateMarketPrice(s, price)
        \/ UpdatePeakPrice(s, price)
        \/ \E q \in 1..MaxQty, date \in Dates :
            \/ \E pyramid \in Pyramiding : BuyShares(s, price, q, date, pyramid)
            \/ SellSymbolFifo(s, price, q, date)
            \/ \E g \in GroupsOf(s) : SellGroup(g, price, q, date)
        \/ \E q \in 1..MaxQty : FALSE \in Pyramiding /\ BuyHeld(s, price, q)

\* A call that has entered its loop runs it to the end.
Safety == Init /\ [][Next]_vars
Spec   == Safety /\ WF_vars(SellOldestGroup)

-----------------------------------------------------------------------------
LotType ==
    [symbol : Symbols, entryDate : Dates, entryPrice : Prices,
     entryQty : 1..MaxQty, remaining : 1..MaxQty]

OrderType ==
    [symbol : Symbols, price : Prices, qty : Nat \ {0}, left : Nat \ {0},
     parts : Nat, net : Int, date : Dates]

\* The account is never overdrawn, lots never hold more than was bought, a
\* position exists exactly as long as it has a lot, and only ids that were
\* handed out are in use.
TypeOK ==
    /\ cash \in Nat
    /\ nextId \in Nat \ {0}
    /\ Live \subseteq 1..(nextId - 1)
    /\ groups \in [Live -> LotType]
    /\ \A g \in Live : groups[g].remaining <= groups[g].entryQty
    /\ Held = {groups[g].symbol : g \in Live}
    /\ quote \in [Held -> [cur : Prices, peak : Prices]]
    /\ sale \in Seq(OrderType) /\ Len(sale) <= 1
    /\ sale # << >> => sale[1].symbol \in Held

Bought(e) == e.kind = "BUY"
Flow(e)   == IF Bought(e) THEN -e.net ELSE e.net

\* The account balances: the cash is the initial cash less every logged buy
\* plus every logged sale, however a sale was split over trade groups.
CashMatchesLog == cash = InitialCash + SumFunction([i \in DOMAIN log |-> Flow(log[i])])

\* A sale by symbol empties the oldest lots first: when a turn of its loop
\* leaves shares in a lot or moves on, no older lot has shares left.
OldestFirst ==
    [][\A g \in Live :
        sale # << >> /\ (g \in Live' => groups'[g] # groups[g])
          => \A h \in GroupsOf(groups[g].symbol) : Older(h, g) => h \notin Live']_vars

\* Rounding each part on its own loses or makes up at most half a won a part.
SplitWithinRounding ==
    [][sale # << >> /\ sale' = << >> =>
        LET parts == sale[1].parts + 1
            paid  == SumFunction([i \in (Len(log') - parts + 1)..Len(log') |-> log'[i].net])
            error == paid - sale[1].net
        IN  2 * error \in (-parts)..parts]_vars

\* What callers have: while sell_symbol_fifo is in its loop they wait for it, and
\* it has not happened yet.
Funds ==
    cash - (IF sale = << >> THEN 0
            ELSE SumFunction([i \in (Len(log) - sale[1].parts + 1)..Len(log) |-> log[i].net]))

Shares ==
    [s \in Symbols |-> Quantity(s) + (IF sale # << >> /\ sale[1].symbol = s
                                     THEN sale[1].qty - sale[1].left ELSE 0)]

Promise == INSTANCE Account WITH money <- Funds, shares <- Shares

\* A portfolio is an account: whatever lots there are, buys, sales of a trade group
\* and whole sales by symbol each change money and shares in one step as promised.
ImplementsAccount == Promise!Spec

\* The quantity check at the top of sell_symbol_fifo is enough for its loop:
\* it never runs out of lots before the order is filled.
SaleIsFilled == (sale # << >>) ~> (sale = << >>)
=============================================================================
