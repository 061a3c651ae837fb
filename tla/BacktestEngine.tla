--------------------------- MODULE BacktestEngine ---------------------------
(***************************************************************************)
(* The daily loop of backtest/engine.py over its portfolio.  Rows of price *)
(* data are chosen as the loop comes to them, one row ahead because a row  *)
(* carries the open, the volume and the date of the symbol's next row;     *)
(* what the strategy's conditions say about a row is chosen when the loop  *)
(* reads it.                                                               *)
(*                                                                         *)
(* The engine never allows pyramiding, so a position is one trade group    *)
(* (PositionsWithinLimit): its loops over trade groups have one turn.      *)
(***************************************************************************)
EXTENDS CashManager, Execution, SequencesExt

CONSTANTS
    Bars,       \* rows: open, high, low, close, volume, limitUp, limitDown
    Gaps,       \* days from a symbol's row to its next one
    MaxDay,     \* bound: last day of the data
    EndDate,    \* config.end_date; start_date is the first day of the data
    Config,     \* BacktestConfig, limits with 0 for None
    Rules,      \* exit_position: percent (or days) of each rule, 0 when absent,
                \* and on, its trigger: "intraday" or "close"
    Delisted,   \* delisting_dates
    Estimated   \* delisting_estimated_dates

ASSUME BarsAssumption ==
    /\ Symbols \subseteq Nat /\ IsFiniteSet(Symbols)
    /\ \A b \in Bars :
         /\ {b.low, b.high} \subseteq Nat \ {0} /\ b.volume \in Nat
         /\ {b.open, b.close} \subseteq b.low..b.high
    /\ Gaps \subseteq Nat \ {0}
    /\ DOMAIN Delisted \subseteq Symbols /\ DOMAIN Estimated \subseteq Symbols

ASSUME ConfigAssumption ==
    /\ EndDate \in Nat
    /\ {Config.maxPositions, Config.maxDailyEntries, Config.dailyBuyBudget} \subseteq Nat
    /\ {Config.drawdownStop, Config.maxGap} \subseteq 0..100
    /\ Config.sizing \in {"fixed_amount", "fixed_ratio", "equal_weight"}
    /\ Config.sizing = "fixed_amount" => Config.amount \in Int
    /\ Config.sizing = "fixed_ratio"  => Config.ratio \in 1..100
    /\ Config.sizing = "equal_weight" => Config.maxPositions > 0
    /\ {Rules.stop_loss.percent, Rules.trailing_stop.percent} \subseteq 0..100
    /\ {Rules.take_profit.percent, Rules.max_holding_days.days} \subseteq Nat

VARIABLES
    phase,      \* the part of the day the loop is in
    day,        \* today
    row,        \* today's row of every symbol that has one
    next,       \* date and row that come next, of every symbol that has one
    openHeld,   \* held_at_open
    todo,       \* held symbols still to evaluate
    queue,      \* entry_candidates, then those still to buy
    need,       \* required_cash of the shortage loop; -1: no loop
    spent,      \* cumulative_buy_cost
    peakEquity  \* peak_equity

dayVars == <<phase, day, row, next, openHeld, todo, queue, need, spent, peakEquity>>
vars    == <<ledgerVars, dayVars>>

Phases == {"overnight", "delisting", "holdings", "entries", "limits", "buying", "ordering", "over"}

\* The rows a symbol may have next, seen from a day.  Nothing trades after it is
\* delisted; an estimated date may prove wrong.
Upcoming(s, from) ==
    {r \in [date : {from + gap : gap \in Gaps}, bar : Bars] :
        /\ r.date <= MaxDay
        /\ s \in DOMAIN Delisted => r.date <= Delisted[s]}

Init ==
    /\ LedgerInit
    /\ phase = "overnight" /\ day = 0
    /\ row = << >>
    /\ next \in {r \in [Symbols -> UNION {Upcoming(s, 0) : s \in Symbols}] :
                   \A s \in Symbols : r[s] \in Upcoming(s, 0)}
    /\ openHeld = {} /\ todo = {}
    /\ queue = << >> /\ need = -1 /\ spent = 0
    /\ peakEquity = InitialCash

Lot(s)  == CHOOSE g \in Live : groups[g].symbol = s
Equity  == cash + MapThenSumSet(Value, Held)
Halted(bar) == bar.volume = 0

\* _process_sell_at_price and _sell_trade_group_at_price.
Sell(s, q, cent, date, reason) ==
    LET price == SellPrice(cent)
    IN  SellTradeGroup(Lot(s), price, q, SellProceeds(price, q, date), date, day, reason)

SellAll(s, cent, date, reason) == Sell(s, Quantity(s), cent, date, reason)

-----------------------------------------------------------------------------
(* The day begins *)

\* The next date any symbol has a row for.  What comes after it is chosen.
StartDay ==
    /\ phase = "overnight"
    /\ DOMAIN next # {}
    /\ LET today == Min({next[s].date : s \in DOMAIN next})
           trading == {s \in DOMAIN next : next[s].date = today}
       IN  /\ today <= EndDate
           /\ day' = today
           /\ row' = [s \in trading |-> next[s].bar]
           /\ \E more \in SUBSET trading :
                \E r \in [more -> UNION {Upcoming(s, today) : s \in Symbols}] :
                  /\ \A s \in more : r[s] \in Upcoming(s, today)
                  /\ next' = [s \in (DOMAIN next \ trading) \cup more |->
                                IF s \in more THEN r[s] ELSE next[s]]
    /\ phase' = "delisting"
    /\ UNCHANGED <<ledgerVars, openHeld, todo, queue, need, spent, peakEquity>>

Finish ==
    /\ phase = "overnight"
    /\ \A s \in DOMAIN next : next[s].date > EndDate
    /\ phase' = "over"
    /\ UNCHANGED <<ledgerVars, day, row, next, openHeld, todo, queue, need, spent, peakEquity>>

\* Held symbols whose date has come.
Due(dates) == {s \in Held \cap DOMAIN dates : dates[s] = day}
LastPrice(s) == IF s \in DOMAIN row THEN row[s].close ELSE quote[s].cur

ForceSellDelisted ==
    /\ phase = "delisting"
    /\ Due(Delisted) # {}
    /\ LET s == Min(Due(Delisted))
       IN  SellAll(s, 100 * LastPrice(s), day, "force_sell_delisted")
    /\ UNCHANGED dayVars

ForceSellEstimated ==
    /\ phase = "delisting"
    /\ Due(Delisted) = {} /\ Due(Estimated) # {}
    /\ LET s == Min(Due(Estimated))
       IN  SellAll(s, 50 * LastPrice(s), day, "force_sell_delisting_estimated")
    /\ UNCHANGED dayVars

OpenHoldings ==
    /\ phase = "delisting"
    /\ Due(Delisted) \cup Due(Estimated) = {}
    /\ openHeld' = Held /\ todo' = Held
    /\ phase' = "holdings"
    /\ UNCHANGED <<ledgerVars, day, row, next, queue, need, spent, peakEquity>>

-----------------------------------------------------------------------------
(* Holdings: _evaluate_held_symbol *)

\* The lines of the rules, in hundredths of a won.
StopLine(s)   == groups[Lot(s)].entryPrice * (100 - Rules.stop_loss.percent)
TargetLine(s) == groups[Lot(s)].entryPrice * (100 + Rules.take_profit.percent)

\* Mutations: the high is read for the low; a gap is asked about last; today's
\* high already raises the line.
LowestOfHigh(bar, on) == 100 * (IF on = "close" THEN bar.close ELSE bar.high)
GapLast(e, f)         == e.rank >= f.rank
TrailLineOfToday(s)   == Max({quote[s].peak, row[s].high}) * (100 - Rules.trailing_stop.percent)

TrailLine(s)     == quote[s].peak * (100 - Rules.trailing_stop.percent)
Lowest(bar, on)  == 100 * (IF on = "close" THEN bar.close ELSE bar.low)
Highest(bar, on) == 100 * (IF on = "close" THEN bar.close ELSE bar.high)
ComesFirst(e, f) == e.rank <= f.rank

StopSet  == Rules.stop_loss.percent > 0
TakeSet  == Rules.take_profit.percent > 0
TrailSet == Rules.trailing_stop.percent > 0
DaysSet  == Rules.max_holding_days.days > 0

\* What a row makes due for a held lot, in the order the engine asks: gaps
\* before anything inside the day, a stop before a target, the close last.
\* _compute_exit_price_for_tg gives the price.
ExitsDue(s) ==
    LET bar  == row[s]
        exit(rank, due, cent, reason) ==
          IF due THEN {[rank |-> rank, cent |-> cent, reason |-> reason]} ELSE {}
    IN  UNION {
          exit(1, StopSet /\ 100 * bar.open <= StopLine(s), 100 * bar.open, "gap_down_stop_loss"),
          exit(2, TakeSet /\ 100 * bar.open >= TargetLine(s), 100 * bar.open, "gap_up_take_profit"),
          exit(3, StopSet /\ Lowest(bar, Rules.stop_loss.on) <= StopLine(s),
               StopLine(s), "stop_loss"),
          exit(4, TakeSet /\ Highest(bar, Rules.take_profit.on) >= TargetLine(s),
               TargetLine(s), "take_profit"),
          exit(5, TrailSet /\ Lowest(bar, Rules.trailing_stop.on) <= TrailLine(s),
               TrailLine(s), "trailing_stop"),
          exit(6, DaysSet /\ day - groups[Lot(s)].entryDate >= Rules.max_holding_days.days,
               100 * bar.close, "max_holding_days")}

NoTradeToday(s) == s \in DOMAIN row => Config.skipNoVolume /\ Halted(row[s])

\* Mutation: a symbol is kept until it trades.
EvaluatingUntilTraded(s) ==
    /\ phase = "holdings"
    /\ todo # {} /\ s = Min(todo)
    /\ todo' = IF NoTradeToday(s) THEN todo ELSE todo \ {s}
    /\ UNCHANGED <<phase, day, row, next, openHeld, queue, need, spent, peakEquity>>

Evaluating(s) ==
    /\ phase = "holdings"
    /\ todo # {} /\ s = Min(todo)
    /\ todo' = todo \ {s}
    /\ UNCHANGED <<phase, day, row, next, openHeld, queue, need, spent, peakEquity>>

\* Nothing is evaluated, and the last price stays, on a day without a row or
\* without volume.
HoldUntraded(s) == Evaluating(s) /\ NoTradeToday(s) /\ UNCHANGED ledgerVars

SellOnRule(s) ==
    /\ Evaluating(s) /\ ~NoTradeToday(s)
    /\ ExitsDue(s) # {}
    /\ LET exit == CHOOSE e \in ExitsDue(s) : \A f \in ExitsDue(s) : ComesFirst(e, f)
       IN  SellAll(s, exit.cent, day, exit.reason)

\* The strategy's exit signal sells at the open of the symbol's next row,
\* unless today closed limit down.
SignalSells(s) == s \in DOMAIN next /\ (Config.allowSellLimitDown \/ ~row[s].limitDown)

SellOnSignal(s) ==
    /\ Evaluating(s) /\ ~NoTradeToday(s)
    /\ ExitsDue(s) = {}
    /\ SignalSells(s)
    /\ SellAll(s, 100 * next[s].bar.open, next[s].date, "exit_signal")

\* No exit: today's close is the price, and today's high counts from tomorrow.
Hold(s) ==
    /\ Evaluating(s) /\ ~NoTradeToday(s)
    /\ ExitsDue(s) = {}
    /\ quote' = [quote EXCEPT ![s] = [cur  |-> row[s].close,
                                      peak |-> Max({quote[s].peak, row[s].high})]]
    /\ UNCHANGED <<cash, groups, log, nextId>>

CloseHoldings ==
    /\ phase = "holdings"
    /\ todo = {}
    /\ phase' = "entries"
    /\ UNCHANGED <<ledgerVars, day, row, next, openHeld, todo, queue, need, spent, peakEquity>>

-----------------------------------------------------------------------------
(* Entries *)

Drawdown == peakEquity - Equity
DrawdownExceeded ==
    /\ Config.drawdownStop > 0 /\ peakEquity > 0
    /\ Drawdown * 100 >= Config.drawdownStop * peakEquity

\* _collect_entry_candidates and _apply_priority.  The universe and the entry
\* signals make any set of traded symbols candidates, and the scores of a
\* priority method put them in any order; "none" is the order of the symbols.
CollectCandidates ==
    /\ phase = "entries"
    /\ \E chosen \in SUBSET {s \in DOMAIN row : ~NoTradeToday(s)} :
         \E order \in SetToSeqs(chosen) :
           /\ Config.priority = "none" => \A i, j \in DOMAIN order : i < j => order[i] < order[j]
           /\ queue' = IF DrawdownExceeded THEN << >> ELSE order
    /\ phase' = "limits"
    /\ UNCHANGED <<ledgerVars, day, row, next, openHeld, todo, need, spent, peakEquity>>

\* Mutation: the slots are those of an empty account.
AllSlots  == Config.maxPositions
FreeSlots == Max({0, Config.maxPositions - Cardinality(openHeld)})

ApplyPositionLimits ==
    /\ phase = "limits"
    /\ LET cutoff == Min({Len(queue)}
                          \cup (IF Config.maxPositions > 0 THEN {FreeSlots} ELSE {})
                          \cup (IF Config.maxDailyEntries > 0 THEN {Config.maxDailyEntries} ELSE {}))
       IN  queue' = SubSeq(queue, 1, cutoff)
    /\ spent' = 0
    /\ phase' = "buying"
    /\ UNCHANGED <<ledgerVars, day, row, next, openHeld, todo, need, peakEquity>>

\* Mutation: the open holdings are forgotten.
HeldNow(s)  == s \in Held

\* The two continue statements of the loop over the candidates.
AlreadyHeld(s) == s \in openHeld \/ s \in Held

\* The early returns of _maybe_buy.
CannotEnter(s) ==
    s \in DOMAIN next =>
        \/ Config.skipNoVolume /\ Halted(next[s].bar)
        \/ (next[s].bar.open - row[s].close) * 100 > Config.maxGap * row[s].close
        \/ ~Config.allowBuyLimitUp /\ row[s].limitUp

SkipCandidate ==
    /\ phase = "buying"
    /\ queue # << >>
    /\ AlreadyHeld(Head(queue)) \/ CannotEnter(Head(queue))
    /\ queue' = Tail(queue)
    /\ UNCHANGED <<ledgerVars, phase, day, row, next, openHeld, todo, need, spent, peakEquity>>

\* PositionSizer.calculate_quantity
SharesFor(price) ==
    IF price <= 0 THEN 0
    ELSE CASE Config.sizing = "fixed_amount" -> Config.amount \div price
           [] Config.sizing = "fixed_ratio"  -> (Equity * Config.ratio) \div (100 * price)
           [] Config.sizing = "equal_weight" -> Equity \div (Config.maxPositions * price)

EntryPrice(s) == BuyPrice(next[s].bar.open)

\* The estimate that handle_shortage is called with.
StartOrder ==
    /\ phase = "buying"
    /\ queue # << >>
    /\ LET s      == Head(queue)
           shares == SharesFor(Max({EntryPrice(s), 1}))
       IN  /\ ~AlreadyHeld(s) /\ ~CannotEnter(s)
           /\ need' = IF CashRule.enabled /\ shares > 0 THEN BuyCost(EntryPrice(s), shares) ELSE -1
    /\ phase' = "ordering"
    /\ UNCHANGED <<ledgerVars, day, row, next, openHeld, todo, queue, spent, peakEquity>>

\* One turn of the loop of handle_shortage.  The price it is given is the close
\* of the candidate, whatever symbol it sells.
RaiseCash ==
    /\ phase = "ordering"
    /\ need # -1
    /\ CanRaise(need)
    /\ \E s \in Held :
         /\ SelectPosition(s)
         /\ Sell(s, SharesToSell(s), 100 * row[Head(queue)].close, day, "cash_shortage_partial_sell")
    /\ need' = IF CashRule.repeat THEN need ELSE -1
    /\ UNCHANGED <<phase, day, row, next, openHeld, todo, queue, spent, peakEquity>>

\* Mutation: each order has the budget to itself.
OverBudgetAlone(cost) == Config.dailyBuyBudget > 0 /\ cost > Config.dailyBuyBudget

OverBudget(cost) == Config.dailyBuyBudget > 0 /\ spent + cost > Config.dailyBuyBudget

\* The rest of _maybe_buy: the order is sized again, and dropped or executed.
PlaceOrder ==
    /\ phase = "ordering"
    /\ need # -1 => ~CanRaise(need)
    /\ LET s      == Head(queue)
           price  == EntryPrice(s)
           shares == SharesFor(price)
           cost   == BuyCost(price, shares)
       IN  IF shares = 0 \/ cost > cash \/ OverBudget(cost)
           THEN UNCHANGED <<ledgerVars, spent>>
           ELSE /\ Buy(s, price, shares, cost, next[s].date, day)
                /\ spent' = spent + cost
    /\ queue' = Tail(queue)
    /\ need' = -1
    /\ phase' = "buying"
    /\ UNCHANGED <<day, row, next, openHeld, todo, peakEquity>>

\* The day's record: the peak counts the equity after the day's trades.
CloseDay ==
    /\ phase = "buying"
    /\ queue = << >>
    /\ peakEquity' = Max({peakEquity, Equity})
    /\ phase' = "overnight"
    /\ UNCHANGED <<ledgerVars, day, row, next, openHeld, todo, queue, need, spent>>

Next ==
    \/ StartDay \/ Finish
    \/ ForceSellDelisted \/ ForceSellEstimated \/ OpenHoldings
    \/ \E s \in todo : HoldUntraded(s) \/ SellOnRule(s) \/ SellOnSignal(s) \/ Hold(s)
    \/ CloseHoldings \/ CollectCandidates \/ ApplyPositionLimits
    \/ SkipCandidate \/ StartOrder \/ RaiseCash \/ PlaceOrder \/ CloseDay
    \/ phase = "over" /\ UNCHANGED vars

\* One thread runs the loop; it does not stop between two statements.
Safety == Init /\ [][Next]_vars
Spec   == Safety /\ WF_vars(Next)

-----------------------------------------------------------------------------
\* Whatever is sold at which price and in which order, a buy is never paid with
\* cash that is not there, and the day's counters stay amounts.
TypeOK ==
    /\ cash \in Nat /\ nextId \in Nat \ {0}
    /\ Live \subseteq 1..(nextId - 1)
    /\ Held = {groups[g].symbol : g \in Live} /\ Held \subseteq Symbols
    /\ quote \in [Held -> [cur : Nat, peak : Nat]]
    /\ \A g \in Live : groups[g].remaining \in 1..groups[g].entryQty
    /\ phase \in Phases /\ day \in 0..EndDate
    /\ DOMAIN row \subseteq Symbols /\ DOMAIN next \subseteq Symbols
    /\ todo \subseteq openHeld /\ openHeld \subseteq Symbols
    /\ queue \in Seq(Symbols) /\ need \in Int /\ spent \in Nat /\ peakEquity \in Nat

\* However sales and buys of a day follow each other, a position is one trade
\* group, and max_positions holds at every moment of the day, although the slots
\* are counted once, from the holdings at the open.
PositionsWithinLimit ==
    /\ \A s \in Symbols : Cardinality(GroupsOf(s)) <= 1
    /\ Config.maxPositions > 0 => Cardinality(Held) <= Config.maxPositions

BuysOf(d) == {i \in DOMAIN log : log[i].kind = "BUY" /\ log[i].signal = d}

\* The buys of one day stay within max_daily_entries and, costs included,
\* within daily_buy_budget.
DailyLimits ==
    \A d \in 1..day :
        /\ Config.maxDailyEntries > 0 => Cardinality(BuysOf(d)) <= Config.maxDailyEntries
        /\ Config.dailyBuyBudget > 0 =>
             MapThenSumSet(LAMBDA i : log[i].net, BuysOf(d)) <= Config.dailyBuyBudget

\* A symbol that a rule, a signal or the cash manager sold today is not bought
\* today (a forced sale on delisting is made before the day's holdings are
\* counted and does not keep the symbol out).
NoSameDayRotation ==
    \A i, j \in DOMAIN log :
        (i < j /\ log[i].kind # "BUY" /\ log[j].kind = "BUY" /\ log[i].symbol = log[j].symbol
           /\ log[i].signal = log[j].signal)
        => log[i].reason \in {"force_sell_delisted", "force_sell_delisting_estimated"}

\* What a day's evaluation leaves in the account has closed strictly between
\* its stop line and its target line.
LossIsCapped ==
    phase = "entries" =>
        \A s \in Held : ~NoTradeToday(s) =>
            /\ StopSet => 100 * quote[s].cur > StopLine(s)
            /\ TakeSet => 100 * quote[s].cur < TargetLine(s)

LastTrade == log'[Len(log')]
Traded(reasons) == Len(log') > Len(log) /\ LastTrade.reason \in reasons

\* Stop and target sales are filled at prices the day really had: a gap over
\* the line is filled at the open and never at the line.
FillsWithinTheDay ==
    [][Traded({"gap_down_stop_loss", "stop_loss", "gap_up_take_profit", "take_profit"}) =>
         /\ LastTrade.price >= SellPrice(100 * row[LastTrade.symbol].low)
         /\ LastTrade.price <= SellPrice(100 * row[LastTrade.symbol].high)]_vars

\* A trailing stop looks back: its line comes from the peak before today.
TrailingUsesYesterday ==
    [][Traded({"trailing_stop"}) =>
         LastTrade.price = SellPrice(quote[LastTrade.symbol].peak
                                       * (100 - Rules.trailing_stop.percent))]_vars

\* The run gets through all of its data: no loop of a day, and not the one of
\* the cash manager, goes on for ever, and no call to the portfolio raises.
RunEnds == <>(phase = "over")

-----------------------------------------------------------------------------
(* Statements of the documents that the code does not keep. *)

\* 04 design, 11.1: held symbols are dropped before max_daily_entries cuts the
\* candidates off, so none has a place while another, not held, is cut off.
HeldTakeNoSlot ==
    [][LET cutOff == DOMAIN queue \ DOMAIN queue'
           perDay == Config.maxPositions = 0 \/ Len(queue') < FreeSlots
       IN  phase = "limits" /\ phase' = "buying" /\ perDay
             /\ (\E i \in cutOff : queue[i] \notin openHeld) =>
               \A i \in DOMAIN queue' : queue'[i] \notin openHeld]_vars

\* Docstring of handle_shortage: price_provider gives the price of the symbol
\* that is sold.
ShortageSaleAtOwnPrice ==
    [][Traded({"cash_shortage_partial_sell"}) /\ LastTrade.symbol \in DOMAIN row =>
         LastTrade.price = SellPrice(100 * row[LastTrade.symbol].close)]_vars
=============================================================================
