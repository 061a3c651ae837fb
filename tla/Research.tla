------------------------------ MODULE Research ------------------------------
(***************************************************************************)
(* Market data as it grows, and the jobs that keep results of reading it:  *)
(* jobs/universe_snapshot.py and jobs/market_index_update.py.  Days are    *)
(* collected, late rows are filled in, corporate actions rescale the past  *)
(* and the collector renews the table of symbols, while two snapshot jobs  *)
(* and the index job take their steps; a restart loses what they had not   *)
(* committed.                                                              *)
(***************************************************************************)
EXTENDS Universe

CONSTANTS
    Jobs,           \* snapshot jobs that may run at the same time
    Universes,      \* configurations universes are asked for by
    IndexCodes,     \* the codes the index job is configured with
    KnownCodes,     \* MARKET_INDEX_CODES
    Studied,        \* conditions that are evaluated on the prices of a symbol
    Followed        \* strategies whose signals are

VARIABLES
    today,        \* the last collected day, 0 before the first
    snapshots,    \* universe_history: rows by id
    snapshotJob,  \* what a snapshot job has in hand: empty or one record
    indices,      \* market_indices: the (index_code, date) there is a row for
    indexJob,     \* the index job in progress: empty or one record
    report        \* the last JobResult of the index job: empty or one record

marketVars   == <<symbols, prices, today>>
snapshotVars == <<snapshots, snapshotJob>>
indexVars    == <<indices, indexJob, report>>
researchVars == <<marketVars, snapshotVars, indexVars>>

ResearchInit(registered) ==
    /\ symbols = registered
    /\ prices = [s \in Symbols |-> << >>]
    /\ today = 0
    /\ snapshots = << >>
    /\ snapshotJob = [j \in Jobs |-> << >>]
    /\ indices = {}
    /\ indexJob = << >>
    /\ report = << >>

-----------------------------------------------------------------------------
\* The rows of daily_prices.  A collected row is not adjusted yet.
Row(bar) ==
    [open |-> bar.open, high |-> bar.high, low |-> bar.low, close |-> bar.close,
     volume |-> bar.volume, cap |-> bar.cap, factor |-> Num(1)]

With(s, day, bar) ==
    [d \in DOMAIN prices[s] \cup {day} |-> IF d = day THEN Row(bar) ELSE prices[s][d]]

ComingSessions == {d \in Sessions : d > today}

\* daily_update: the rows of the next day, one or none a symbol.
CollectDay(listed, bars) ==
    /\ ComingSessions # {}
    /\ today' = Min(ComingSessions)
    /\ \E traded \in SUBSET listed : \E bar \in [traded -> bars] :
        prices' = [s \in Symbols |->
                     IF s \in traded THEN With(s, today', bar[s]) ELSE prices[s]]
    /\ UNCHANGED <<symbols, snapshotVars, indexVars>>

\* A backfill finds a row that was missing.
FillRow(listed, bars) ==
    /\ \E s \in listed, bar \in bars : \E day \in {d \in Sessions : d < today} \ DOMAIN prices[s] :
        prices' = [prices EXCEPT ![s] = With(s, day, bar)]
    /\ UNCHANGED <<symbols, today, snapshotVars, indexVars>>

Rescaled(row, factor) == [row EXCEPT !.factor = Times(row.factor, factor)]

\* A corporate action of today: its factor goes into the rows before today.
Rescale(factor) ==
    /\ \E s \in Symbols :
        /\ \A d \in DOMAIN prices[s] : prices[s][d].factor = Num(1)
        /\ \E d \in DOMAIN prices[s] : d < today
        /\ prices' = [prices EXCEPT ![s] = [d \in DOMAIN prices[s] |->
                        IF d < today THEN Rescaled(prices[s][d], factor) ELSE prices[s][d]]]
    /\ UNCHANGED <<symbols, today, snapshotVars, indexVars>>

\* collect_symbols and upsert_symbol: the row is written over with what the
\* collector knows, which is neither the listing date nor the flags.
CollectSymbols(market) ==
    /\ today # 0
    /\ \E s \in Symbols :
        symbols' = [r \in DOMAIN symbols \cup {s} |->
                      IF r = s THEN [market |-> market, listing |-> today,
                                     delisting |-> Never, kinds |-> {}]
                               ELSE symbols[r]]
    /\ UNCHANGED <<prices, today, snapshotVars, indexVars>>

-----------------------------------------------------------------------------
\* UniverseSnapshotJob.run: the selection, then the upsert of its row.  On a
\* configuration the selector raises on, the job ends before it has done anything.
SnapshotReads(j, config) ==
    /\ snapshotJob[j] = << >>
    /\ today # 0
    /\ ~Misconfigured(config)
    /\ snapshotJob' = [snapshotJob EXCEPT ![j] =
                         [day |-> today, config |-> config, picked |-> Select(prices, config, today),
                          found |-> {}, step |-> "selected"]]
    /\ UNCHANGED <<marketVars, snapshots, indexVars>>

SameKey(row, other) == row.day = other.day /\ row.config = other.config

\* The first half of upsert_universe_snapshot: is there a row already?
SnapshotLooks(j) ==
    /\ snapshotJob[j] # << >>
    /\ snapshotJob[j].step = "selected"
    /\ snapshotJob' = [snapshotJob EXCEPT
            ![j].found = {id \in DOMAIN snapshots : SameKey(snapshots[id], snapshotJob[j])},
            ![j].step = "looked"]
    /\ UNCHANGED <<marketVars, snapshots, indexVars>>

\* Mutation: the table has no unique constraint.
Unconstrained(job) == FALSE

\* The unique constraint refuses the row: the other job was faster.
KeyTaken(job) == \E id \in DOMAIN snapshots : SameKey(snapshots[id], job)

\* The second half, and the commit.  An insert that is refused ends the job
\* with an error and without a trace.
SnapshotWrites(j) ==
    LET job == snapshotJob[j]
        row == [day |-> job.day, config |-> job.config, picked |-> job.picked]
    IN  /\ job # << >>
        /\ job.step = "looked"
        /\ \/ /\ job.found # {}
              /\ snapshots' = [id \in DOMAIN snapshots |->
                                  IF id \in job.found THEN row ELSE snapshots[id]]
           \/ /\ job.found = {} /\ ~KeyTaken(job)
              /\ snapshots' = Append(snapshots, row)
           \/ /\ job.found = {} /\ KeyTaken(job)
              /\ snapshots' = snapshots
        /\ snapshotJob' = [snapshotJob EXCEPT ![j] = << >>]
        /\ UNCHANGED <<marketVars, indexVars>>

-----------------------------------------------------------------------------
\* MarketIndexJob.run for the days up to today.
IndexBegins ==
    /\ indexJob = << >>
    /\ today # 0
    /\ indexJob' = [left |-> IndexCodes, days |-> {d \in Sessions : d <= today},
                    processed |-> {}, failed |-> {}, answered |-> {}, refused |-> {}]
    /\ UNCHANGED <<marketVars, snapshotVars, indices, report>>

\* Mutation: a fetch that raises is passed over.
Overlooked(job, code) == job.failed

Failures(job, code) == job.failed \cup {code}

\* The codes are taken in order, and the fetch of one raises: the loop goes on.
IndexFetchFails ==
    /\ indexJob # << >>
    /\ indexJob.left # {}
    /\ LET code == Min(indexJob.left)
       IN  indexJob' = [indexJob EXCEPT !.left = @ \ {code}, !.failed = Failures(indexJob, code)]
    /\ UNCHANGED <<marketVars, snapshotVars, indices, report>>

\* upsert_market_index raises KeyError or ValueError: a row without a close, or
\* with one that is no number, and every row of a code it does not know.
Refusals(code, answered, bad) == IF code \in KnownCodes THEN bad ELSE answered

\* The fetcher answers with rows of any of the days, or with none, and all count as
\* processed.  A refused row is warned of and not an error.  What a row holds is
\* left out, and so is that a refused one of a day that has a row has already
\* replaced what it brought before its close.
IndexUpserts(answered, bad) ==
    /\ indexJob # << >>
    /\ indexJob.left # {}
    /\ answered \subseteq indexJob.days
    /\ LET code == Min(indexJob.left)
       IN  indexJob' = [indexJob EXCEPT
             !.left = @ \ {code},
             !.processed = @ \cup {code},
             !.answered = @ \cup ({code} \X answered),
             !.refused = @ \cup ({code} \X Refusals(code, answered, bad))]
    /\ UNCHANGED <<marketVars, snapshotVars, indices, report>>

Reported(success, committed) ==
    [success |-> success, committed |-> committed, processed |-> indexJob.processed,
     answered |-> indexJob.answered, refused |-> indexJob.refused]

\* The commit and the JobResult.
IndexEnds ==
    /\ indexJob # << >>
    /\ indexJob.left = {}
    /\ indices' = indices \cup (indexJob.answered \ indexJob.refused)
    /\ report' = Reported(indexJob.failed = {}, TRUE)
    /\ indexJob' = << >>
    /\ UNCHANGED <<marketVars, snapshotVars>>

\* Another exception, of a row with None for its close or of the database, at any
\* row or at the commit: the outer except clause ends the job, nothing is stored,
\* and the statistics keep what was counted of the codes before.
IndexAborts ==
    /\ indexJob # << >>
    /\ report' = Reported(FALSE, FALSE)
    /\ indexJob' = << >>
    /\ UNCHANGED <<marketVars, snapshotVars, indices>>

\* A restart: what was not committed is lost.
Restart ==
    /\ indexJob # << >> \/ \E j \in Jobs : snapshotJob[j] # << >>
    /\ indexJob' = << >>
    /\ snapshotJob' = [j \in Jobs |-> << >>]
    /\ UNCHANGED <<marketVars, snapshots, indices, report>>

-----------------------------------------------------------------------------
ResearchNext(bars, factors, markets, configs) ==
    \/ CollectDay(Symbols, bars)
    \/ FillRow(Symbols, bars)
    \/ \E factor \in factors : Rescale(factor)
    \/ \E market \in markets : CollectSymbols(market)
    \/ \E j \in Jobs :
        \/ \E config \in configs : SnapshotReads(j, config)
        \/ SnapshotLooks(j)
        \/ SnapshotWrites(j)
    \/ IndexBegins
    \/ IndexFetchFails
    \/ \E answered \in SUBSET Sessions : \E bad \in SUBSET answered : IndexUpserts(answered, bad)
    \/ IndexEnds
    \/ IndexAborts
    \/ Restart

ResearchSpec(registered, bars, factors, markets, configs) ==
    ResearchInit(registered) /\ [][ResearchNext(bars, factors, markets, configs)]_researchVars
-----------------------------------------------------------------------------
SymbolType ==
    [market : STRING, listing : Sessions, delisting : Sessions \cup {Never}, kinds : SUBSET Kinds]

ResearchTypeOK ==
    /\ symbols \in [DOMAIN symbols -> SymbolType]
    /\ DOMAIN symbols \subseteq Symbols
    /\ today \in Sessions \cup {0}
    /\ \A s \in Symbols : DOMAIN prices[s] \subseteq {d \in Sessions : d <= today}
    /\ indices \subseteq KnownCodes \X Sessions
    /\ \A id \in DOMAIN snapshots : snapshots[id].picked \subseteq DOMAIN symbols

\* However the steps of two snapshot jobs interleave, there is one universe for a
\* day and a configuration.
OneSnapshotPerKey ==
    \A i, j \in DOMAIN snapshots : SameKey(snapshots[i], snapshots[j]) => i = j

\* A job reports success only if every code was processed, and whatever it reports,
\* short of an abort, each row it was given is in the table or was warned of: that
\* one code cannot be fetched costs no row of another, and a restart in between
\* leaves no report.  Days the fetcher did not answer are in no report.
IndexReportIsTrue ==
    report # << >> =>
      /\ report.success => report.committed /\ IndexCodes \subseteq report.processed
      /\ report.committed => report.answered \ report.refused \subseteq indices

\* The universe of a day depends on the rows before that day, and on those of the
\* day itself only where it asks for market caps: rows of later days, whenever
\* they came in, do not matter.
LastRead(config, day) ==
    IF "min_market_cap" \in DOMAIN config \/ config.method = "MARKET_CAP_TOP_N" THEN day ELSE day - 1

Until(day) == [s \in Symbols |-> [d \in {x \in DOMAIN prices[s] : x <= day} |-> prices[s][d]]]

UniverseAsSeenThen ==
    \A config \in Universes, day \in {d \in Sessions : d <= today} :
        Select(prices, config, day) = Select(Until(LastRead(config, day)), config, day)

\* What the rows of a symbol looked like on a day: no later row, and none of the
\* factors of later corporate actions, which went into the row of the day too.
SeenOn(s, day) ==
    [d \in DOMAIN Until(day)[s] |-> [prices[s][d] EXCEPT !.factor = Over(@, prices[s][day].factor)]]

\* The one verdict that rows give.
Verdicts(rows) ==
    {[conditions |-> [c \in Studied |-> Evaluate(df, c)],
      signals    |-> [doc \in Followed |-> GenerateSignals(df, doc)]] : df \in {Frame(rows)}}

\* No look-ahead: what a backtest of today takes for the signal of a day is what
\* the rows of that day gave, before any row was collected later and before any
\* later corporate action rescaled them.
SignalsAsSeenThen ==
    \A s \in Symbols : \A now \in Verdicts(prices[s]) : \A day \in DOMAIN prices[s] :
      \A then \in Verdicts(SeenOn(s, day)) :
        LET n == Cardinality(DOMAIN SeenOn(s, day))
        IN  /\ \A c \in Studied : now.conditions[c][n] = then.conditions[c][n]
            /\ \A doc \in Followed :
                 /\ now.signals[doc].final_entry_signal[n] = then.signals[doc].final_entry_signal[n]
                 /\ now.signals[doc].exit_signal[n] = then.signals[doc].exit_signal[n]
=============================================================================
