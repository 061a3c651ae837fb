------------------------------ MODULE Universe ------------------------------
(***************************************************************************)
(* The tables of market data as the readers see them, and two readers:     *)
(* market_data/price_loader.py, which makes the frame a strategy is        *)
(* evaluated on, and market_data/universe.py, which picks the symbols of a *)
(* day.  Nothing here writes; who does is said by Research.                *)
(***************************************************************************)
EXTENDS Conditions, SequencesExt

CONSTANTS
    Symbols,      \* numbered in the order of their codes
    Sessions      \* trading days, numbered as calendar days

ASSUME MarketAssumption ==
    /\ Symbols \subseteq Nat \ {0} /\ IsFiniteSet(Symbols)
    /\ Sessions \subseteq Nat \ {0} /\ IsFiniteSet(Sessions)

VARIABLES
    symbols,     \* symbols: registered symbol -> row
    prices       \* daily_prices: symbol -> day -> row

\* delisting_date NULL, and market_cap NULL.
Never == 0
NoCap == 0

Kinds == {"is_etf", "is_etn", "is_spac", "is_preferred", "is_managed", "is_halted"}

\* get_price_range
PriceRange(table, s, from, to) == {d \in DOMAIN table[s] : from <= d /\ d <= to}

-----------------------------------------------------------------------------
\* PriceLoader.load: a row a day, in the order of the days, the adjusted columns
\* as raw ones times the row's factor, and what follows a row beside it.
AdjustedPrice(row, column)  == Times(Num(row[column]), row.factor)
AdjustedVolume(row)         == Over(Num(row.volume), row.factor)

Nth(days, i)  == CHOOSE d \in days : Cardinality({e \in days : e < d}) = i - 1
InOrder(rows) == [i \in 1 .. Cardinality(DOMAIN rows) |-> rows[Nth(DOMAIN rows, i)]]

Frame(rows) ==
    LET row       == InOrder(rows)
        raw(name) == [i \in DOMAIN row |-> Num(row[i][name])]
        adj(name) == [i \in DOMAIN row |-> AdjustedPrice(row[i], name)]
        volume    == [i \in DOMAIN row |-> AdjustedVolume(row[i])]
        cap       == [i \in DOMAIN row |-> IF row[i].cap = NoCap THEN NaN ELSE Num(row[i].cap)]
    IN  [open |-> raw("open"), high |-> raw("high"), low |-> raw("low"),
         close |-> raw("close"), volume |-> raw("volume"), market_cap |-> cap,
         adj_open |-> adj("open"), adj_high |-> adj("high"), adj_low |-> adj("low"),
         adj_close |-> adj("close"), adj_volume |-> volume,
         next_open |-> Shift(adj("open"), -1), adj_next_open |-> Shift(adj("open"), -1),
         next_close |-> Shift(adj("close"), -1), adj_next_close |-> Shift(adj("close"), -1),
         next_volume |-> Shift(volume, -1)]

-----------------------------------------------------------------------------
\* get_universe_at_date: listed by then, and not yet delisted.
Active(market, day) ==
    {s \in DOMAIN symbols :
        /\ symbols[s].market = market
        /\ symbols[s].listing <= day
        /\ symbols[s].delisting = Never \/ symbols[s].delisting > day}

\* _apply_flag_filters: a kind the configuration does not mention is excluded.
Excludes(config, kind) == kind \in DOMAIN config.exclude => config.exclude[kind]

Unflagged(config, picked) ==
    {s \in picked : \A kind \in symbols[s].kinds : ~Excludes(config, kind)}

\* Mutation: the market caps that are there, whatever their day.
CapDaysEver(table, s, day) == {d \in DOMAIN table[s] : table[s][d].cap # NoCap}

CapDays(table, s, day) == {d \in DOMAIN table[s] : d <= day /\ table[s][d].cap # NoCap}

LatestCap(table, s, day) ==
    IF CapDays(table, s, day) = {} THEN NaN ELSE Num(table[s][Max(CapDays(table, s, day))].cap)

\* The days of the average: those before the day itself that lie within the
\* lookback, and of these the last few.
Lookback(window) == Max({2 * window, window + 14})

AverageDays(table, s, day, window) ==
    LET rows == PriceRange(table, s, day - Lookback(window), day - 1)
    IN  {d \in rows : Cardinality({x \in rows : x > d}) < window}

AverageTraded(table, s, day, window) ==
    LET days     == AverageDays(table, s, day, window)
        traded(d) == Num(table[s][d].close * table[s][d].volume)
    IN  Mean([k \in 1 .. Cardinality(days) |-> traded(Nth(days, k))])

\* A minimum leaves out what has no value at all.
AtLeast(value, minimum) == value # NaN /\ ~Less(value, Num(minimum))

BigEnough(table, config, day, picked) ==
    IF "min_market_cap" \notin DOMAIN config THEN picked
    ELSE {s \in picked : AtLeast(LatestCap(table, s, day), config.min_market_cap)}

LiquidEnough(table, config, day, picked) ==
    IF "min_avg_trading_value" \notin DOMAIN config THEN picked
    ELSE {s \in picked : AtLeast(AverageTraded(table, s, day, config.window), config.min_avg_trading_value)}

\* The first n by a score, the lower code first among equals; no score, no place.
Top(n, score) ==
    LET scored == {s \in DOMAIN score : score[s] # NaN}
    IN  {s \in scored :
            Cardinality({r \in scored : \/ Less(score[s], score[r])
                                        \/ score[r] = score[s] /\ r < s}) < n}

Score(table, config, day, s) ==
    IF config.method = "MARKET_CAP_TOP_N" THEN LatestCap(table, s, day)
                                          ELSE AverageTraded(table, s, day, config.window)

Chosen(table, config, day, picked) ==
    IF config.method = "ALL" THEN picked
    ELSE Top(config.top_n, [s \in picked |-> Score(table, config, day, s)])

\* The configurations the selector raises on.
UsesTraded(config) ==
    "min_avg_trading_value" \in DOMAIN config \/ config.method = "LIQUIDITY_TOP_N"

Misconfigured(config) ==
    \/ "market" \notin DOMAIN config
    \/ config.method \notin {"ALL", "MARKET_CAP_TOP_N", "LIQUIDITY_TOP_N"}
    \/ UsesTraded(config) /\ config.window < 1
    \/ config.method # "ALL" /\ ("top_n" \notin DOMAIN config \/ config.top_n < 1)

\* UniverseSelector.select_with_details.
Select(table, config, day) ==
    Chosen(table, config, day,
           LiquidEnough(table, config, day,
                        BigEnough(table, config, day, Unflagged(config, Active(config.market, day)))))
=============================================================================
