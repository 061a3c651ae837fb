----------------------------- MODULE MCEntries -----------------------------
(***************************************************************************)
(* Three symbols that compete for slots, budget and cash: the limits, the  *)
(* drawdown stop, sales that fund a buy, and delistings.                   *)
(***************************************************************************)
EXTENDS BacktestEngine, TLC

Bar(o, l, c, v, up) ==
    [open |-> o, high |-> Max({o, c}), low |-> l, close |-> c, volume |-> v,
     limitUp |-> up, limitDown |-> FALSE]

AllBars == {
    Bar(1000, 1000, 1000, 9, FALSE),   \* quiet
    Bar(700, 600, 600, 9, FALSE),      \* falls through the stop
    Bar(1400, 1400, 1400, 9, TRUE),    \* gap up, limit up
    Bar(1000, 1000, 1000, 0, FALSE)}   \* halted

TheRules ==
    [stop_loss |-> [percent |-> 30, on |-> "close"],
     take_profit |-> [percent |-> 0, on |-> "close"],
     trailing_stop |-> [percent |-> 0, on |-> "close"],
     max_holding_days |-> [days |-> 0]]

TheConfig ==
    [maxPositions |-> 2, maxDailyEntries |-> 2, dailyBuyBudget |-> 6000, drawdownStop |-> 20,
     maxGap |-> 50, skipNoVolume |-> TRUE, allowBuyLimitUp |-> FALSE,
     allowSellLimitDown |-> FALSE, priority |-> "score", sizing |-> "fixed_amount",
     amount |-> 3000]

\* Room for three positions, and one new one a day: only max_daily_entries cuts.
OneEntryADay == [TheConfig EXCEPT !.maxPositions = 3, !.maxDailyEntries = 1]

TheCashRule ==
    [enabled |-> TRUE, repeat |-> TRUE, trigger |-> "cash_below_daily_buy_budget",
     threshold |-> -1, fraction |-> 50, method |-> "lowest_return"]

TheDelisted  == 1 :> 3
TheEstimated == 2 :> 2
Taxes        == 1 :> 2
=============================================================================
