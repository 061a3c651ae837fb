---------------------------- MODULE PriceHistory ----------------------------
(***************************************************************************)
(* The market data tables and what the jobs do to them: the upserts and    *)
(* queries of market_data/repositories.py, the rows a collector returns,   *)
(* and the recalculation of processors/adjusted_price.py.                  *)
(*                                                                         *)
(* A row of daily_prices is kept as the powers of its adj_* columns: how   *)
(* often the factor of each corporate action has been multiplied into them.*)
(* The raw columns never change and are left out.                          *)
(***************************************************************************)
EXTENDS Naturals, FiniteSets

CONSTANTS
    Symbols,        \* numbered in the order of their codes
    LastDay,
    Listing,        \* Listing[d]: what collect_symbols(d) returns
    Sessions,       \* the days the market is open
    Traded,         \* Traded[s]: the days s has a row at the source
    Events,         \* the corporate actions that will ever be registered
    VendorAdjusts   \* the source's adjusted series differs from the raw one

Days == 1 .. LastDay

\* "factor" covers split, reverse_split, bonus_issue and cash_dividend, "skipped"
\* those without effect, "invalid" a ratio or an amount that is a hard failure.
Event == [symbol : Symbols, day : Days, kind : {"factor", "skipped", "invalid"}]

ASSUME HistoryAssumption ==
    /\ Symbols \subseteq Nat \ {0} /\ IsFiniteSet(Symbols)
    /\ LastDay \in Nat \ {0}
    /\ Listing \in [Days -> SUBSET Symbols]
    /\ Sessions \subseteq Days
    /\ Traded \in [Symbols -> SUBSET Sessions]
    /\ Events \subseteq Event
    /\ VendorAdjusts \in BOOLEAN

VARIABLES
    rows,       \* daily_prices: symbol -> day -> powers
    listed,     \* symbols.listing_date, 0 for no row
    calendar,   \* trading_calendar rows with is_trading_day
    actions     \* corporate_actions

historyVars == <<rows, listed, calendar, actions>>

Powers == [Events -> Nat]

\* A table has a row on some of the days.
IsTable(table) == DOMAIN table \subseteq Days /\ table \in [DOMAIN table -> Powers]
IsHistory(tables) ==
    DOMAIN tables = Symbols /\ \A s \in Symbols : IsTable(tables[s])

HistoryTypeOK ==
    /\ IsHistory(rows)
    /\ listed \in [Symbols -> 0 .. LastDay]
    /\ calendar \subseteq Days
    /\ actions \subseteq Events

HistoryInit ==
    /\ rows = [s \in Symbols |-> << >>]
    /\ listed = [s \in Symbols |-> 0]
    /\ calendar = {}
    /\ actions = {}

Known == {s \in Symbols : listed[s] # 0}

\* Mutation: the day of the event is taken to be unadjusted too.
AppliesThatDay(e, s, d, asOf) ==
    e.kind = "factor" /\ e.symbol = s /\ e.day <= asOf /\ d <= e.day

\* Whether the factor of event e belongs into s's row of day d, as of a day.
Applies(e, s, d, asOf) ==
    /\ e.kind = "factor"
    /\ e.symbol = s
    /\ e.day <= asOf
    /\ d < e.day

\* The adj_* columns a collector fills in: those of the source's adjusted series.
Fetched(s, from, to, asOf) ==
    [d \in {x \in Traded[s] : from <= x /\ x <= to} |->
       [e \in Events |->
          IF VendorAdjusts /\ Applies(e, s, d, asOf) THEN 1 ELSE 0]]

\* get_price_range.
Between(table, from, to) == [d \in {x \in DOMAIN table : from <= x /\ x <= to} |-> table[d]]

\* Mutation: the columns adj_* as they are stored.
AsStored(table) == table

\* What corporate_action_apply starts from: adj_* as copies of the raw columns.
Raw(table) == [d \in DOMAIN table |-> [e \in Events |-> 0]]

\* process: every event multiplies its factor into the rows before its day.
Processed(s, table, events, asOf) ==
    [d \in DOMAIN table |->
       [e \in Events |->
          table[d][e] + (IF e \in events /\ Applies(e, s, d, asOf) THEN 1 ELSE 0)]]

\* The events that make process raise DataValidationError.
Poisoned(events) == \E e \in events : e.kind = "invalid"

\* get_corporate_actions of several symbols, up to a day.
EventsOf(symbols, asOf) == {e \in actions : e.symbol \in symbols /\ e.day <= asOf}

\* Mutation: listing_date is the day after.
UpsertSymbolsLate(asOf) ==
    listed' = [s \in Symbols |-> IF s \in Listing[asOf] THEN asOf + 1 ELSE listed[s]]

\* upsert_symbol writes every key it is given, listing_date included, and
\* collect_symbols fills listing_date with the day it was asked for.
UpsertSymbols(asOf) ==
    listed' = [s \in Symbols |-> IF s \in Listing[asOf] THEN asOf ELSE listed[s]]

\* bulk_upsert_daily_prices: new rows replace old ones, column for column.
Upserted(table, new) ==
    [d \in DOMAIN table \cup DOMAIN new |-> IF d \in DOMAIN new THEN new[d] ELSE table[d]]

\* MissingDataCheckJob looks at active symbols only.  delisting_date is never
\* filled in, so active means listed by the last day of the range.
Active(asOf) == {s \in Known : listed[s] <= asOf}

\* Mutation: the last day of the range is left out.
MissingBefore(from, to) ==
    {hole \in Active(to) \X calendar :
        from <= hole[2] /\ hole[2] < to /\ hole[2] \notin DOMAIN rows[hole[1]]}

\* The days of the calendar on which an active symbol has no row.
Missing(from, to) ==
    {hole \in Active(to) \X calendar :
        from <= hole[2] /\ hole[2] <= to /\ hole[2] \notin DOMAIN rows[hole[1]]}

\* upsert_corporate_action, called by whoever maintains the table.
RegisterAction(e) ==
    /\ e \notin actions
    /\ actions' = actions \cup {e}
    /\ UNCHANGED <<rows, listed, calendar>>
=============================================================================
