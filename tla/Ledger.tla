------------------------------- MODULE Ledger -------------------------------
(***************************************************************************)
(* The state of an account and the two operations that trade: the fields   *)
(* of portfolio/portfolio.py and portfolio/position.py with Portfolio.buy  *)
(* and Portfolio.sell_trade_group.  Who calls them, and when, is said by   *)
(* the modules that extend this one.                                       *)
(***************************************************************************)
EXTENDS Integers, FiniteSets, Sequences

CONSTANTS Symbols, InitialCash

ASSUME CashAssumption == InitialCash \in Nat

VARIABLES
    cash,      \* Portfolio.cash
    groups,    \* every live trade group, by trade_group_id
    quote,     \* current_price and peak_price of each position
    log,       \* trade_logs
    nextId     \* _next_trade_group_id

ledgerVars == <<cash, groups, quote, log, nextId>>

\* The keys of Portfolio.positions: a position is what quote has a price for.
Held == DOMAIN quote
Live == DOMAIN groups
GroupsOf(s) == {g \in Live : groups[g].symbol = s}

LedgerInit ==
    /\ cash = InitialCash
    /\ groups = << >>
    /\ quote = << >>
    /\ log = << >>
    /\ nextId = 1

Trade(id, kind, s, price, q, net, date, signal, reason) ==
    [id |-> id, kind |-> kind, symbol |-> s, price |-> price, qty |-> q, net |-> net,
     date |-> date, signal |-> signal, reason |-> reason]

\* Mutation: the cash is not looked at.
Unaffordable(cost) == FALSE

\* The error path of buy.
CashShort(cost) == cost > cash

\* buy, when neither the quantity nor the cash makes it raise.  A first lot
\* opens the position at its own price; a further one leaves the quote alone.
Buy(s, price, q, cost, date, signal) ==
    /\ q \in Nat \ {0}
    /\ ~CashShort(cost)
    /\ cash' = cash - cost
    /\ groups' = [g \in Live \cup {nextId} |->
                    IF g = nextId
                    THEN [symbol |-> s, entryDate |-> date, entryPrice |-> price,
                          entryQty |-> q, remaining |-> q]
                    ELSE groups[g]]
    /\ quote' = [h \in Held \cup {s} |->
                   IF h \in Held THEN quote[h] ELSE [cur |-> price, peak |-> price]]
    /\ log' = Append(log, Trade(nextId, "BUY", s, price, q, cost, date, signal, "entry_signal"))
    /\ nextId' = nextId + 1

\* buy of a held symbol without allow_pyramiding: the id is gone before the
\* error is raised.
BuyHeldRefused == nextId' = nextId + 1 /\ UNCHANGED <<cash, groups, quote, log>>

\* Mutations: an empty trade group stays; the cash gets the gross amount.
KeptEvenEmpty(g, q)     == Live
GrossOf(price, q, net)  == price * q

\* What sell_trade_group leaves of the group, which groups it keeps, and what
\* it pays into the account.
LeftOf(g, q)            == groups[g].remaining - q
KeptAfter(g, q)         == IF LeftOf(g, q) = 0 THEN Live \ {g} ELSE Live
PaidFor(price, q, net)  == net

\* sell_trade_group of exactly q shares.  An empty trade group is removed, and
\* a position without trade groups too.
SellTradeGroup(g, price, q, net, date, signal, reason) ==
    LET lot  == groups[g]
        left == LeftOf(g, q)
        kind == IF q < lot.entryQty \/ left > 0 THEN "PARTIAL_SELL" ELSE "SELL"
    IN  /\ q \in 1..lot.remaining
        /\ cash' = cash + PaidFor(price, q, net)
        /\ groups' = [h \in KeptAfter(g, q) |->
                        IF h = g THEN [lot EXCEPT !.remaining = left] ELSE groups[h]]
        /\ quote' = [s \in {groups[h].symbol : h \in KeptAfter(g, q)} |-> quote[s]]
        /\ log' = Append(log, Trade(g, kind, lot.symbol, price, q, net, date, signal, reason))
        /\ UNCHANGED nextId

\* update_market_price and update_peak_price, which ignore what is not held.
MarketPrice(s, price) ==
    [h \in Held |-> IF h = s THEN [quote[h] EXCEPT !.cur = price] ELSE quote[h]]
PeakPrice(s, high) ==
    [h \in Held |-> IF h = s /\ high > quote[h].peak
                    THEN [quote[h] EXCEPT !.peak = high] ELSE quote[h]]
=============================================================================
