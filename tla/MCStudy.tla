------------------------------- MODULE MCStudy -------------------------------
(***************************************************************************)
(* The parts around a backtest, each in a scenario of its own that is      *)
(* chosen at the start: what signals and universes are computed of, the    *)
(* jobs that keep universes and indices, and the requests of users.        *)
(***************************************************************************)
EXTENDS Research, StrategyStore, Watchlists

VARIABLE scenario

scenarioVars == <<researchVars, storeVars, watchVars>>

Scenarios == {"signals", "universe", "snapshots", "indices", "documents", "users", "watchlists"}

-----------------------------------------------------------------------------
\* Days of a share, and the price of two old shares that one becomes.
Bar(open, high, low, close, volume, cap) ==
    [open |-> open, high |-> high, low |-> low, close |-> close, volume |-> volume, cap |-> cap]

Rising  == Bar(10, 15, 10, 14, 6, 3)
Falling == Bar(12, 12, 8, 8, 2, NoCap)
Flat    == Bar(10, 10, 10, 10, 3, 2)

Split == Fraction(1, 2)

\* Conditions with periods that five days can fill.
Cond(type, keys)  == [type |-> type] @@ keys
Plain(logic, conditions) == [logic |-> logic, conditions |-> conditions]
Group(operator, groups)  == [logic |-> "GROUP", operator |-> operator, groups |-> groups]

Macd    == [fast |-> 1, slow |-> 3, signal |-> 2]
Golden  == Cond("ma_cross", [short_period |-> 1, long_period |-> 2, direction |-> "golden_cross"])
OverMa  == Cond("price_vs_ma", [ma_period |-> 2, operator |-> ">="])
Surging == Cond("volume_ratio", [period |-> 2, operator |-> ">", value |-> 1])
GapUp   == Cond("gap_pct", << >>)

TheConditions ==
    {Golden, OverMa, Surging, GapUp,
     Cond("ma_cross", [short_period |-> 1, long_period |-> 3, direction |-> "dead_cross"]),
     Cond("ma_alignment", [short_period |-> 1, mid_period |-> 2, long_period |-> 3]),
     Cond("new_high_breakout", [period |-> 2]),
     Cond("momentum_return", [period |-> 2]),
     Cond("price_change_pct", [operator |-> "<", value |-> 0]),
     Cond("bullish_candle", << >>),
     Cond("avg_trading_value", [period |-> 2, value |-> 4]),
     Cond("market_index_filter", << >>),
     Cond("rsi_level", [period |-> 2, operator |-> ">=", value |-> 60]),
     Cond("rsi_cross", [period |-> 2, threshold |-> 50]),
     Cond("macd_cross", Macd),
     Cond("macd_histogram", Macd)}

TheStrategy ==
    [entry       |-> Group("OR", <<Plain("AND", <<Golden, OverMa>>), Plain("OR", <<Surging>>)>>),
     filters     |-> Plain("OR", <<GapUp, OverMa>>),
     exit_signal |-> Plain("AND", <<Cond("price_change_pct", [operator |-> "<"])>>)]

TheStrategies == {TheStrategy}

-----------------------------------------------------------------------------
\* Configurations of a universe; window and exclude have defaults.
Config(method, keys) ==
    keys @@ [market |-> "KOSPI", method |-> method, exclude |-> << >>, window |-> 2]

Everything == Config("ALL", << >>)
Large      == Config("MARKET_CAP_TOP_N", [top_n |-> 1])

TheUniverses ==
    {Large,
     Config("LIQUIDITY_TOP_N", [top_n |-> 1]),
     Config("ALL", [min_avg_trading_value |-> 30, exclude |-> [is_etf |-> FALSE]]),
     Config("ALL", [min_market_cap |-> 3])}

Listed(from, until, kinds) ==
    [market |-> "KOSPI", listing |-> from, delisting |-> until, kinds |-> kinds]

Registered == 1 :> Listed(1, 18, {}) @@ 2 :> Listed(2, Never, {"is_etf"})

-----------------------------------------------------------------------------
\* Documents: good and bad parts, one part varied at a time.
TakeProfit == Cond("take_profit", [value |-> 5])
Exit       == Plain("OR", <<TakeProfit>>)
Enter      == Plain("AND", <<GapUp>>)

Parts ==
    {Plain(logic, conditions) : logic \in {"AND", "XOR"},
        conditions \in {<< >>, <<GapUp>>, <<TakeProfit>>, <<GapUp, TakeProfit>>, <<<< >>>>,
                        <<Cond("astrology", << >>)>>, <<Cond("gap_pct", [operator |-> "~"])>>,
                        <<Cond("price_vs_ma", << >>)>>}}

Grouped ==
    {Group(operator, groups) : operator \in {"OR", "NOT"},
        groups \in {<< >>, <<Enter>>, <<Exit>>, <<Enter, Exit>>, <<Group("OR", <<Enter>>)>>}}

\* Conditions beside the groups, where nothing looks for them.
Stray == {part @@ [conditions |-> <<GapUp>>] : part \in Grouped}

Options ==
    [position_sizing |->
        {<< >>} \cup [method : {"fixed_amount"}, amount : {0, 5}]
        \cup [method : {"fixed_ratio"}, ratio : {Num(0), Fraction(1, 2), Num(1), Num(2)}]
        \cup [method : {"equal_weight"}, max_positions : {0, 1}]
        \cup [method : {"daily_budget"}, max_daily_entries : {-1, 0}, daily_buy_budget : {-1, 0}],
     execution |->
        [entry_price : {"open", "next_open", "yesterday"}, fee_rate : {-1, 0}]
        \cup [tick_rounding : {"nearest", "down"}]
        \cup [tax_rate : [flat : {-1, 0}]
                \cup [dated : {<< >>, <<[from |-> 2, rate |-> 3]>>,
                               <<[from |-> 2, rate |-> 3], [from |-> 1, rate |-> 3]>>,
                               <<[from |-> 1, rate |-> 3], [from |-> 2, rate |-> -1]>>}]],
     priority |-> [method : {"random", "best"}] \cup [tie_breaker : {"symbol_desc", "none"}]]

Basic == [entry |-> Enter, exit_position |-> Exit]

Changes ==
    UNION {{section :> part : part \in Parts \cup Grouped \cup Stray} : section \in Sections}
      \cup UNION {{key :> value : value \in Options[key]} : key \in DOMAIN Options}

AllDocuments ==
    {change @@ base : change \in Changes, base \in {<< >>, [entry |-> Enter], Basic}}

\* TLC keeps the value of AllDocuments, and would compute one named in the
\* configuration anew at every use.
TheDocuments == AllDocuments

\* One that runs, and one that is accepted and raises when it does.
Broken   == [entry |-> Plain("AND", <<Cond("price_vs_ma", << >>)>>), exit_position |-> Exit]
OfUsers == {Basic, Broken}

-----------------------------------------------------------------------------
Init ==
    /\ scenario \in Scenarios
    /\ ResearchInit(IF scenario \in {"universe", "snapshots"} THEN Registered ELSE << >>)
    /\ StoreInit
    /\ WatchInit

Signals ==
    \/ CollectDay({1}, {Rising, Falling, Flat})
    \/ Rescale(Split)

Choosing ==
    \/ today < 18 /\ CollectDay(Symbols, {Rising, Falling})
    \/ FillRow(Symbols, {Rising, Falling})

Snapshots ==
    \/ today < 2 /\ CollectDay({1}, {Rising})
    \/ FillRow({1}, {Rising})
    \/ CollectSymbols("KOSPI")
    \/ \E j \in Jobs :
        \/ \E config \in {Everything, Config("ALL", [min_avg_trading_value |-> 1, window |-> 0])} :
            SnapshotReads(j, config)
        \/ SnapshotLooks(j)
        \/ SnapshotWrites(j)
    \/ Restart

Indices ==
    \/ today < 2 /\ CollectDay({}, {})
    \/ IndexBegins
    \/ IndexFetchFails
    \/ \E answered \in SUBSET (1 .. 2) : \E bad \in SUBSET answered : IndexUpserts(answered, bad)
    \/ IndexEnds
    \/ IndexAborts
    \/ Restart

Next ==
    /\ UNCHANGED scenario
    /\ \/ /\ \/ scenario = "signals"   /\ Signals
             \/ scenario = "universe"  /\ Choosing
             \/ scenario = "snapshots" /\ Snapshots
             \/ scenario = "indices"   /\ Indices
          /\ UNCHANGED <<storeVars, watchVars>>
       \/ /\ \/ scenario = "users"     /\ StoreNext(OfUsers)
             \/ scenario = "documents" /\ strategies = << >> /\ \E doc \in AllDocuments : CreateStrategy(doc)
          /\ UNCHANGED <<researchVars, watchVars>>
       \/ /\ scenario = "watchlists" /\ WatchNext
          /\ UNCHANGED <<researchVars, storeVars>>

Spec == Init /\ [][Next]_<<scenario, scenarioVars>>
=============================================================================
