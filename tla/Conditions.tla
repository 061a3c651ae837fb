----------------------------- MODULE Conditions -----------------------------
(***************************************************************************)
(* From prices to signals: the indicators and time series conditions of    *)
(* strategy/, the registry that routes a condition to its function, and    *)
(* StrategyEngine, which combines conditions into the signals of a         *)
(* strategy.  A frame df is a record of columns; a condition is a record   *)
(* with the keys its author wrote.                                         *)
(***************************************************************************)
EXTENDS Frames

CONSTANT Eok    \* won in the unit avg_trading_value is compared in: 10^8

ASSUME EokAssumption == Eok \in Nat \ {0}

-----------------------------------------------------------------------------
\* Indicators.
MovingAverage(series, period) == RollingMean(series, period)

Ema(series, span) == Ewm(series, Fraction(2, span + 1), span)

\* Wilder's averages of the rises and of the falls; 100 - 100 / (1 + gain / loss).
Rises(series) == [i \in DOMAIN series |->
                    IF Less(Diff(series)[i], Num(0)) THEN Num(0) ELSE Diff(series)[i]]
Falls(series) == [i \in DOMAIN series |->
                    IF Less(Num(0), Diff(series)[i]) THEN Num(0) ELSE Times(Num(-1), Diff(series)[i])]

Strength(gain, loss) ==
    [i \in DOMAIN gain |-> Over(Times(Num(100), gain[i]), Plus(gain[i], loss[i]))]

Rsi(series, period) ==
    LET average(x) == Ewm(x, Fraction(1, period), period)
    IN  Strength(average(Rises(series)), average(Falls(series)))

MacdLine(c, series)   == Difference(Ema(series, c.fast), Ema(series, c.slow))
SignalLine(c, series) == Ewm(MacdLine(c, series), Fraction(2, c.signal + 1), c.signal)

-----------------------------------------------------------------------------
\* compare of strategy/utils.py, on numbers and on columns.
AllowedOperators == {">", ">=", "<", "<=", "=="}

Compare(x, op, y) ==
    \/ op \in {">", ">="}        /\ Less(y, x)
    \/ op \in {"<", "<="}        /\ Less(x, y)
    \/ op \in {">=", "<=", "=="} /\ x = y /\ x # NaN

Compares(x, op, y) == [i \in DOMAIN x |-> Compare(x[i], op, y[i])]
Meets(x, op, n)    == [i \in DOMAIN x |-> Compare(x[i], op, Num(n))]

\* On one side of n yesterday, on the other today.
Crosses(x, was, is, n) ==
    Both(Meets(Shift(x, 1), was, n), Meets(x, is, n))

\* The change from one column to another in percent of the first.
Percent(from, to) ==
    [i \in DOMAIN from |-> Over(Times(Num(100), Minus(to[i], from[i])), from[i])]

\* Mutation: the close of the day after.
FollowingClose(df) == Shift(df.adj_close, -1)

PreviousClose(df) == Shift(df.adj_close, 1)

-----------------------------------------------------------------------------
\* The conditions; c has its defaults filled in.
PriceVsMa(df, c) ==
    Compares(df[c.price_field], c.operator, MovingAverage(df[c.price_field], c.ma_period))

MaCross(df, c) ==
    LET spread == Difference(MovingAverage(df[c.price_field], c.short_period),
                             MovingAverage(df[c.price_field], c.long_period))
    IN  IF c.direction = "golden_cross" THEN Crosses(spread, "<=", ">", 0)
                                        ELSE Crosses(spread, ">=", "<", 0)

MaAlignment(df, c) ==
    LET ma(period) == MovingAverage(df[c.price_field], period)
        op         == IF c.direction = "bullish" THEN ">" ELSE "<"
    IN  Both(Compares(ma(c.short_period), op, ma(c.mid_period)),
             Compares(ma(c.mid_period), op, ma(c.long_period)))

NewHighBreakout(df, c) ==
    Compares(df[c.field], ">", RollingMax(Shift(df[c.field], 1), c.period))

GapPct(df, c) == Meets(Percent(PreviousClose(df), df.adj_open), c.operator, c.value)

Change(series, period) == Percent(Shift(series, period), series)

MomentumReturn(df, c) == Meets(Change(df[c.price_field], c.period), c.operator, c.value)

PriceChangePct(df, c) == Meets(Change(df[c.price_field], 1), c.operator, c.value)

\* A day without a range has no body either.
BullishCandle(df, c) ==
    LET body  == Difference(df.adj_close, df.adj_open)
        range == Difference(df.adj_high, df.adj_low)
        share == [i \in DOMAIN body |-> Over(Times(Num(100), body[i]), range[i])]
    IN  Both(Meets(body, ">", 0), Meets(share, ">=", c.min_body_pct))

VolumeRatio(df, c) ==
    LET volume == df[c.volume_field]
    IN  Meets(Quotient(volume, MovingAverage(volume, c.period)), c.operator, c.value)

\* Trading values are of raw prices: what was paid that day.
AvgTradingValue(df, c) ==
    LET value == [i \in DOMAIN df.close |-> Over(Times(df.close[i], df.volume[i]), Num(Eok))]
    IN  Meets(RollingMean(value, c.period), c.operator, c.value)

\* Without the column the filter is closed.
MarketIndexFilter(df, c) ==
    IF c.index_col \in DOMAIN df THEN Meets(df[c.index_col], c.operator, c.value)
                                 ELSE Constantly(FALSE, DOMAIN df.close)

RsiLevel(df, c) == Meets(Rsi(df[c.price_field], c.period), c.operator, c.value)

RsiCross(df, c) ==
    LET line == Rsi(df[c.price_field], c.period)
    IN  IF c.direction = "cross_above" THEN Crosses(line, "<", ">=", c.threshold)
                                       ELSE Crosses(line, ">", "<=", c.threshold)

Histogram(c, series) == Difference(MacdLine(c, series), SignalLine(c, series))

MacdCross(df, c) ==
    LET histogram == Histogram(c, df[c.price_field])
    IN  IF c.direction = "golden_cross" THEN Crosses(histogram, "<=", ">", 0)
                                        ELSE Crosses(histogram, ">=", "<", 0)

MacdHistogram(df, c) == Meets(Histogram(c, df[c.price_field]), c.operator, c.value)

-----------------------------------------------------------------------------
\* The defaults of condition.get, and the keys read without one.
Defaults ==
    [price_vs_ma         |-> [price_field |-> "adj_close"],
     ma_cross            |-> [price_field |-> "adj_close"],
     ma_alignment        |-> [short_period |-> 5, mid_period |-> 20, long_period |-> 60,
                              direction |-> "bullish", price_field |-> "adj_close"],
     new_high_breakout   |-> [period |-> 20, field |-> "adj_high"],
     gap_pct             |-> [operator |-> ">", value |-> 3],
     momentum_return     |-> [period |-> 20, operator |-> ">", value |-> 10, price_field |-> "adj_close"],
     price_change_pct    |-> [operator |-> ">", value |-> 3, price_field |-> "adj_close"],
     bullish_candle      |-> [min_body_pct |-> 30],
     volume_ratio        |-> [period |-> 20, volume_field |-> "adj_volume"],
     avg_trading_value   |-> [period |-> 20, operator |-> ">=", value |-> 30],
     market_index_filter |-> [index_col |-> "market_index_return", operator |-> ">", value |-> 0],
     rsi_level           |-> [period |-> 14, price_field |-> "adj_close"],
     rsi_cross           |-> [period |-> 14, threshold |-> 30, direction |-> "cross_above",
                              price_field |-> "adj_close"],
     macd_cross          |-> [fast |-> 12, slow |-> 26, signal |-> 9, direction |-> "golden_cross",
                              price_field |-> "adj_close"],
     macd_histogram      |-> [fast |-> 12, slow |-> 26, signal |-> 9, operator |-> ">", value |-> 0,
                              price_field |-> "adj_close"]]

MustHave(type) ==
    CASE type = "price_vs_ma" -> {"ma_period", "operator"}
      [] type = "ma_cross"    -> {"short_period", "long_period", "direction"}
      [] type \in {"volume_ratio", "rsi_level"} -> {"operator", "value"}
      [] OTHER -> {}

\* The keys a condition function looks at; others may stand beside them.
Reads(type) == DOMAIN Defaults[type] \cup MustHave(type)

\* condition_registry: what evaluate serves, and what evaluate_position does.
TimeseriesTypes == DOMAIN Defaults
PositionTypes   == {"take_profit", "stop_loss", "trailing_stop", "max_holding_days"}

Filled(c) ==
    [key \in DOMAIN c \cup DOMAIN Defaults[c.type] |->
       IF key \in DOMAIN c THEN c[key] ELSE Defaults[c.type][key]]

\* The columns PriceLoader hands to a run, and the keys that name one of them.
NextColumns  == {"next_open", "next_close", "next_volume", "adj_next_open", "adj_next_close"}
FrameColumns ==
    {"open", "high", "low", "close", "volume", "market_cap",
     "adj_open", "adj_high", "adj_low", "adj_close", "adj_volume"} \cup NextColumns
ColumnKeys   == {"price_field", "field", "volume_field"}

\* The parameters a condition function refuses to work with; the window of
\* avg_trading_value goes to pandas unchecked, which takes none for an answer.
Refused(c) ==
    LET has(key) == key \in Reads(c.type)
        least(key) == IF c.type = "avg_trading_value" THEN 0 ELSE 1
        crosses  == {"golden_cross", "dead_cross"}
    IN  \/ c.type = "ma_cross" /\ (c.short_period >= c.long_period \/ c.direction \notin crosses)
        \/ c.type = "ma_alignment"
             /\ ~(c.short_period < c.mid_period /\ c.mid_period < c.long_period
                    /\ c.direction \in {"bullish", "bearish"})
        \/ c.type = "new_high_breakout" /\ c.period < 2
        \/ c.type = "rsi_level" /\ c.value \notin 0 .. 100
        \/ c.type = "rsi_cross"
             /\ (c.threshold \notin 0 .. 100 \/ c.direction \notin {"cross_above", "cross_below"})
        \/ c.type \in {"macd_cross", "macd_histogram"} /\ c.fast >= c.slow
        \/ c.type = "macd_cross" /\ c.direction \notin crosses
        \/ \E key \in {"period", "ma_period", "short_period", "fast", "signal"} : has(key) /\ c[key] < least(key)
        \/ \E key \in ColumnKeys : has(key) /\ c[key] \notin FrameColumns

\* evaluate raises: a position condition, a key or a column that is not there,
\* an operator compare does not know, or parameters that make no sense.
Raises(c) ==
    \/ c.type \notin TimeseriesTypes
    \/ ~(MustHave(c.type) \subseteq DOMAIN c)
    \/ "operator" \in Reads(c.type) /\ Filled(c).operator \notin AllowedOperators
    \/ Refused(Filled(c))

Evaluate(df, condition) ==
    LET c == Filled(condition)
    IN  CASE c.type = "price_vs_ma"         -> PriceVsMa(df, c)
          [] c.type = "ma_cross"            -> MaCross(df, c)
          [] c.type = "ma_alignment"        -> MaAlignment(df, c)
          [] c.type = "new_high_breakout"   -> NewHighBreakout(df, c)
          [] c.type = "gap_pct"             -> GapPct(df, c)
          [] c.type = "momentum_return"     -> MomentumReturn(df, c)
          [] c.type = "price_change_pct"    -> PriceChangePct(df, c)
          [] c.type = "bullish_candle"      -> BullishCandle(df, c)
          [] c.type = "volume_ratio"        -> VolumeRatio(df, c)
          [] c.type = "avg_trading_value"   -> AvgTradingValue(df, c)
          [] c.type = "market_index_filter" -> MarketIndexFilter(df, c)
          [] c.type = "rsi_level"           -> RsiLevel(df, c)
          [] c.type = "rsi_cross"           -> RsiCross(df, c)
          [] c.type = "macd_cross"          -> MacdCross(df, c)
          [] c.type = "macd_histogram"      -> MacdHistogram(df, c)
-----------------------------------------------------------------------------
\* StrategyEngine.  A section without conditions does not restrict anything;
\* whether it must have some is the business of StrategyJson.
IsGroup(section) == section.logic = "GROUP"

Combination[logic \in {"AND", "OR"}, truths \in SUBSET BOOLEAN] ==
    IF logic = "AND" THEN FALSE \notin truths ELSE truths = {} \/ TRUE \in truths

Combined(signals, logic, rows) ==
    [i \in rows |-> Combination[logic, {signal[i] : signal \in signals}]]

PlainSignal(df, section) ==
    Combined({Evaluate(df, c) : c \in Range(section.conditions)}, section.logic, DOMAIN df.close)

\* A plain section is a group of its own.
SectionSignal(df, section) ==
    Combined({PlainSignal(df, part) :
                part \in IF IsGroup(section) THEN Range(section.groups) ELSE {section}},
             IF IsGroup(section) THEN section.operator ELSE "AND", DOMAIN df.close)

\* generate_signals: a strategy without exit_signal never exits on one, one
\* without filters is never held back.
GenerateSignals(df, doc) ==
    LET of(section, otherwise) ==
            IF section \in DOMAIN doc THEN SectionSignal(df, doc[section])
                                      ELSE Constantly(otherwise, DOMAIN df.close)
    IN  [final_entry_signal |-> Both(of("entry", TRUE), of("filters", TRUE)),
         exit_signal        |-> of("exit_signal", FALSE)]
=============================================================================
