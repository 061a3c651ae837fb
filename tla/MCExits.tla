------------------------------ MODULE MCExits ------------------------------
(***************************************************************************)
(* One symbol through every rule of exit_position: days that rise, fall,   *)
(* gap over a line, touch two lines, do not trade or close limit down.     *)
(***************************************************************************)
EXTENDS BacktestEngine, TLC

Bar(o, h, l, c, v, down) ==
    [open |-> o, high |-> h, low |-> l, close |-> c, volume |-> v,
     limitUp |-> FALSE, limitDown |-> down]

AllBars == {
    Bar(1000, 1040, 990, 1000, 9, FALSE),     \* quiet
    Bar(1000, 1010, 850, 880, 9, FALSE),      \* slides under the stop
    Bar(1000, 1190, 1000, 1150, 9, FALSE),    \* up to just below the target
    Bar(1000, 1250, 850, 1000, 9, FALSE),     \* touches stop and target
    Bar(1300, 1350, 1250, 1300, 9, FALSE),    \* gap over the target
    Bar(750, 800, 700, 700, 9, TRUE),         \* gap under the stop, limit down
    Bar(1000, 1000, 1000, 1000, 0, FALSE)}    \* halted

TheRules ==
    [stop_loss |-> [percent |-> 10, on |-> "intraday"],
     take_profit |-> [percent |-> 20, on |-> "intraday"],
     trailing_stop |-> [percent |-> 8, on |-> "intraday"],
     max_holding_days |-> [days |-> 3]]

TheConfig ==
    [maxPositions |-> 0, maxDailyEntries |-> 0, dailyBuyBudget |-> 0, drawdownStop |-> 30,
     maxGap |-> 5, skipNoVolume |-> TRUE, allowBuyLimitUp |-> FALSE,
     allowSellLimitDown |-> FALSE, priority |-> "none", sizing |-> "fixed_amount",
     amount |-> 3100]

NoCashRule ==
    [enabled |-> FALSE, repeat |-> FALSE, trigger |-> "cash_below_daily_buy_budget",
     threshold |-> -1, fraction |-> 0, method |-> "lowest_return"]

None == << >>
Taxes == 1 :> 2
=============================================================================
