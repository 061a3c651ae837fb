------------------------------- MODULE Results -------------------------------
(***************************************************************************)
(* What is told of a run when it is over, all of it computed from          *)
(* trade_logs: the trades backtest/metrics.py counts, and the rows that    *)
(* services/backtest_service.py stores.  Each of the two puts the log into *)
(* trade groups by itself.  Rates and averages are left out.               *)
(***************************************************************************)
EXTENDS Portfolio

\* _group_by_trade_group: the entries of a group, and the groups with a buy.
Entries(g)  == {i \in DOMAIN log : log[i].id = g}
Sales(g)    == {i \in Entries(g) : ~Bought(log[i])}
TradeIds    == {log[i].id : i \in {j \in DOMAIN log : Bought(log[j])}}
EntryOf(g)  == log[Min(Entries(g) \ Sales(g))]

SoldQty(g)  == SumFunction([i \in Sales(g) |-> log[i].qty])
LastExit(g) == Max({log[i].date : i \in Sales(g)})

\* realized_profit of a sale, as sell_trade_group notes it: what was paid less
\* what its shares had cost without the fee of the buy.
Realized(e) == e.net - EntryOf(e.id).price * e.qty
Profit(g)   == SumFunction([i \in Sales(g) |-> Realized(log[i])])

\* calculate_metrics: closed_trades and the amounts won and lost.
Closed == {g \in TradeIds : Sales(g) # {} /\ SoldQty(g) >= EntryOf(g).qty}

ProfitOf(trades) == SumFunction([g \in trades |-> Profit(g)])

Won  == ProfitOf({g \in Closed : Profit(g) > 0})
Lost == ProfitOf({g \in Closed : Profit(g) < 0})

\* Mutation: a group with a sale is closed.
AnySale(g) == Sales(g) # {}

\* _persist_trade_groups_and_executions; NULL is empty.
FullyClosed(g) == SoldQty(g) >= EntryOf(g).qty

GroupRow(g) ==
    [remaining_quantity |-> EntryOf(g).qty - SoldQty(g),
     fully_closed_at    |-> IF FullyClosed(g) /\ Sales(g) # {} THEN <<LastExit(g)>> ELSE << >>,
     final_profit       |-> IF FullyClosed(g) THEN <<Profit(g)>> ELSE << >>]

-----------------------------------------------------------------------------
\* The stored rows are the account: a group's row has the shares its lot has, and
\* is closed when the lot is gone.  The metrics, which sort the same log on their
\* own, count the same trades and profits; and the profits of all sales, with the
\* fees of the buys, are what happened to the cash.
ResultsMatchAccount ==
    LET row   == [g \in TradeIds |-> GroupRow(g)]
        ended == {g \in TradeIds : row[g].fully_closed_at # << >>}
        open  == [g \in Live |-> groups[g].entryPrice * groups[g].remaining]
        fees  == [i \in DOMAIN log |-> IF Bought(log[i]) THEN log[i].net - log[i].price * log[i].qty ELSE 0]
        gains == [i \in DOMAIN log |-> IF Bought(log[i]) THEN 0 ELSE Realized(log[i])]
    IN  /\ ended = Closed /\ Live = TradeIds \ Closed
        /\ \A g \in Live : row[g].remaining_quantity = groups[g].remaining
        /\ SumFunction([g \in ended |-> row[g].final_profit[1]]) = Won + Lost
        /\ cash + SumFunction(open) = InitialCash + SumFunction(gains) - SumFunction(fees)
=============================================================================
