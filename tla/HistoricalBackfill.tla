------------------------- MODULE HistoricalBackfill -------------------------
(***************************************************************************)
(* data_pipeline/jobs/historical_backfill.py: seven stages over the market *)
(* data tables and a checkpoint file that lets the next run skip what is   *)
(* done.  The tables and the file are written one after the other, and the *)
(* process may end between the two.  The target symbols are those of       *)
(* config.symbols = None; pauses of the rate limiter take no step.         *)
(***************************************************************************)
EXTENDS PriceHistory, Scheduler, FiniteSetsExt

CONSTANT MaxFaults

VARIABLES
    since,      \* start_date of the registered backfill
    file,       \* the checkpoint file
    memo,       \* the checkpoint each thread holds
    at,         \* the number of the stage it is in
    left,       \* symbols it has still to collect
    fresh,      \* whether symbols_data was collected by this run
    seen,       \* tables as this thread has read them
    skipped,    \* history: <<symbol, day>> passed over by a run for that day
    alerted,    \* history: <<symbol, day>> reported missing
    unchecked,  \* history: <<symbol, day>> a check for that day did not look at
    faults

backfillVars ==
    <<file, memo, at, left, fresh, seen, skipped, alerted, unchecked, faults>>

Stages == <<"symbols", "calendar", "corporate_actions", "daily_prices",
            "adjusted_prices", "market_cap", "validate">>
FirstStages(k) == {Stages[i] : i \in 1 .. k}
AllStages == FirstStages(7)

\* as_of_date, completed_stages and last_symbol; the day 0 stands for a file
\* that is not there or does not parse, the symbol 0 for None.
Checkpoint == [asOf : 0 .. LastDay, done : SUBSET AllStages, last : Symbols \cup {0}]
Unreadable == [asOf |-> 0, done |-> {}, last |-> 0]

NothingSeen == [rows |-> [s \in Symbols |-> << >>], actions |-> {}]

BackfillTypeOK ==
    /\ file \in Checkpoint
    /\ memo \in [Threads -> Checkpoint]
    /\ at \in [Threads -> 1 .. 8]
    /\ left \in [Threads -> SUBSET Symbols]
    /\ fresh \in [Threads -> BOOLEAN]
    /\ DOMAIN seen = Threads
    /\ \A t \in Threads : DOMAIN seen[t] = {"rows", "actions"}
    /\ \A t \in Threads : IsHistory(seen[t].rows) /\ seen[t].actions \subseteq Events
    /\ skipped \subseteq Symbols \X Days
    /\ alerted \subseteq Symbols \X Days
    /\ unchecked \subseteq Symbols \X Days
    /\ faults \in 0 .. MaxFaults

BackfillInit ==
    /\ file = Unreadable
    /\ memo = [t \in Threads |-> Unreadable]
    /\ at = [t \in Threads |-> 1]
    /\ left = [t \in Threads |-> {}]
    /\ fresh = [t \in Threads |-> FALSE]
    /\ seen = [t \in Threads |-> NothingSeen]
    /\ skipped = {}
    /\ alerted = {}
    /\ unchecked = {}
    /\ faults = 0

\* What a run holds in memory ends with the process.
ForgetAll ==
    /\ memo' = [t \in Threads |-> Unreadable]
    /\ at' = [t \in Threads |-> 1]
    /\ left' = [t \in Threads |-> {}]
    /\ fresh' = [t \in Threads |-> FALSE]
    /\ seen' = [t \in Threads |-> NothingSeen]

\* An exception raised by a collector, a session or the file system.
Fault ==
    /\ faults < MaxFaults
    /\ faults' = faults + 1

Backfilling(t, step) == job[t] = "historical_backfill" /\ pc[t] = step
InStage(t, k) == Backfilling(t, "stage") /\ at[t] = k /\ Stages[k] \notin memo[t].done

\* _load_or_create_checkpoint: a file of another end_date is ignored, one of another
\* start_date is not.
LoadCheckpoint(t) ==
    /\ Backfilling(t, "begin")
    /\ memo' = [memo EXCEPT ![t] =
                  IF file.asOf = Today(t) THEN file ELSE [Unreadable EXCEPT !.asOf = Today(t)]]
    /\ at' = [at EXCEPT ![t] = 1]
    /\ fresh' = [fresh EXCEPT ![t] = FALSE]
    /\ GoTo(t, "stage")
    /\ UNCHANGED <<file, left, seen, skipped, alerted, unchecked, faults, historyVars>>

SkipStage(t) ==
    /\ Backfilling(t, "stage")
    /\ at[t] <= 7
    /\ Stages[at[t]] \in memo[t].done
    /\ at' = [at EXCEPT ![t] = @ + 1]
    /\ UNCHANGED <<file, memo, left, fresh, seen, skipped, alerted, unchecked, faults,
                   historyVars, schedulerVars>>

LastStageOver(t) ==
    /\ Backfilling(t, "stage")
    /\ at[t] = 8
    /\ GoTo(t, "end")
    /\ UNCHANGED <<backfillVars, historyVars>>

CollectSymbols(t) ==
    /\ InStage(t, 1)
    /\ UpsertSymbols(Today(t))
    /\ fresh' = [fresh EXCEPT ![t] = TRUE]
    /\ GoTo(t, "mark")
    /\ UNCHANGED <<file, memo, at, left, seen, skipped, alerted, unchecked, faults,
                   rows, calendar, actions>>

\* Every market's calendar in one transaction.
CollectCalendar(t) ==
    /\ InStage(t, 2)
    /\ calendar' = calendar \cup {d \in Sessions : since <= d /\ d <= Today(t)}
    /\ GoTo(t, "mark")
    /\ UNCHANGED <<backfillVars, rows, listed, actions>>

\* corporate_actions and market_cap only leave a warning.
PassStage(t) ==
    /\ InStage(t, 3) \/ InStage(t, 6)
    /\ GoTo(t, "mark")
    /\ UNCHANGED <<backfillVars, historyVars>>

\* The symbols after last_symbol, or all of them if it is not a target.
Resumed(targets, last) ==
    IF last \in targets THEN {s \in targets : s > last} ELSE targets

BeginPrices(t) ==
    /\ InStage(t, 4)
    /\ LET targets == IF fresh[t] THEN Listing[Today(t)] ELSE Known
       IN  left' = [left EXCEPT ![t] = Resumed(targets, memo[t].last)]
    /\ GoTo(t, "symbol")
    /\ UNCHANGED <<file, memo, at, fresh, seen, skipped, alerted, unchecked, faults,
                   historyVars>>

\* Mutation: the symbols are not sorted.
SomeSymbol(t) == Max(left[t])

\* The symbol whose turn it is.
Turn(t) == Min(left[t])

StoreSymbol(t) ==
    /\ Backfilling(t, "symbol")
    /\ left[t] # {}
    /\ LET s == Turn(t)
       IN  rows' = [rows EXCEPT ![s] = Upserted(@, Fetched(s, since, Today(t), Today(t)))]
    /\ GoTo(t, "passed")
    /\ UNCHANGED <<backfillVars, listed, calendar, actions>>

\* Collecting or storing raises: a warning, and the loop goes on.
SymbolFails(t) ==
    /\ Backfilling(t, "symbol")
    /\ left[t] # {}
    /\ Fault
    /\ skipped' = skipped \cup {<<Turn(t), Today(t)>>}
    /\ GoTo(t, "passed")
    /\ UNCHANGED <<file, memo, at, left, fresh, seen, alerted, unchecked, historyVars>>

\* A KeyboardInterrupt is no Exception, but it passes through the finally
\* clause, which saves the symbol it interrupts as the last one.
SymbolInterrupted(t) ==
    /\ Backfilling(t, "symbol")
    /\ left[t] # {}
    /\ Fault
    /\ skipped' = skipped \cup {<<Turn(t), Today(t)>>}
    /\ memo' = [memo EXCEPT ![t].last = Turn(t)]
    /\ file' = memo'[t]
    /\ GoTo(t, "end")
    /\ UNCHANGED <<at, left, fresh, seen, alerted, unchecked, historyVars>>

\* update_last_symbol, in the finally clause.
SaveLastSymbol(t) ==
    /\ Backfilling(t, "passed")
    /\ memo' = [memo EXCEPT ![t].last = Turn(t)]
    /\ file' = memo'[t]
    /\ left' = [left EXCEPT ![t] = @ \ {Turn(t)}]
    /\ GoTo(t, "symbol")
    /\ UNCHANGED <<at, fresh, seen, skipped, alerted, unchecked, faults, historyVars>>

\* Mutation: last_symbol is not reset before the stage is marked.
EndPricesKeepingLast(t) ==
    /\ Backfilling(t, "symbol")
    /\ left[t] = {}
    /\ GoTo(t, "mark")
    /\ UNCHANGED <<backfillVars, historyVars>>

EndPrices(t) ==
    /\ Backfilling(t, "symbol")
    /\ left[t] = {}
    /\ memo' = [memo EXCEPT ![t].last = 0]
    /\ GoTo(t, "mark")
    /\ UNCHANGED <<file, at, left, fresh, seen, skipped, alerted, unchecked, faults,
                   historyVars>>

\* Stage 5 reads the events and then, if there are any, the rows.
ReadEvents(t) ==
    /\ InStage(t, 5)
    /\ LET events == EventsOf(Known, Today(t))
       IN  /\ seen' = [seen EXCEPT ![t].actions = events]
           /\ GoTo(t, IF events = {} THEN "mark" ELSE "rows")
    /\ UNCHANGED <<file, memo, at, left, fresh, skipped, alerted, unchecked, faults,
                   historyVars>>

\* The events are processed before anything is written: an invalid one raises.
ReadRows(t) ==
    /\ Backfilling(t, "rows")
    /\ seen' = [seen EXCEPT ![t].rows =
                  [s \in Symbols |->
                     IF s \in Known THEN Between(rows[s], since, Today(t)) ELSE << >>]]
    /\ GoTo(t, IF Poisoned(seen[t].actions) THEN "end" ELSE "adjust")
    /\ UNCHANGED <<file, memo, at, left, fresh, skipped, alerted, unchecked, faults,
                   historyVars>>

\* Every row read is written back, processed, whatever it has become meanwhile.
WriteAdjusted(t) ==
    /\ Backfilling(t, "adjust")
    /\ rows' = [s \in Symbols |->
                  Upserted(rows[s], Processed(s, seen[t].rows[s], seen[t].actions, Today(t)))]
    /\ GoTo(t, "mark")
    /\ UNCHANGED <<backfillVars, listed, calendar, actions>>

\* A check that raises returns success = False, which nobody reads.
Validate(t) ==
    /\ InStage(t, 7)
    /\ GoTo(t, "mark")
    /\ \/ /\ alerted' = alerted \cup Missing(since, Today(t))
          /\ unchecked' = unchecked \cup ((Listing[Today(t)] \ Active(Today(t))) \X {Today(t)})
          /\ UNCHANGED faults
       \/ /\ Fault
          /\ unchecked' = unchecked \cup (Listing[Today(t)] \X {Today(t)})
          /\ UNCHANGED alerted
    /\ UNCHANGED <<file, memo, at, left, fresh, seen, skipped, historyVars>>

\* mark_stage_done.
MarkStage(t) ==
    /\ Backfilling(t, "mark")
    /\ memo' = [memo EXCEPT ![t].done = @ \cup {Stages[at[t]]}]
    /\ file' = memo'[t]
    /\ at' = [at EXCEPT ![t] = @ + 1]
    /\ GoTo(t, "stage")
    /\ UNCHANGED <<left, fresh, seen, skipped, alerted, unchecked, faults, historyVars>>

\* Opening the file truncates it; writing it may fail.
SaveFails(t) ==
    /\ Backfilling(t, "mark") \/ Backfilling(t, "passed")
    /\ Fault
    /\ file' \in {file, Unreadable}
    /\ GoTo(t, "end")
    /\ UNCHANGED <<memo, at, left, fresh, seen, skipped, alerted, unchecked, historyVars>>

\* An exception outside the loop over symbols ends the run.
StageFails(t) ==
    /\ InStage(t, 1) \/ InStage(t, 2) \/ InStage(t, 4) \/ InStage(t, 5)
       \/ Backfilling(t, "rows") \/ Backfilling(t, "adjust")
    /\ Fault
    /\ GoTo(t, "end")
    /\ UNCHANGED <<file, memo, at, left, fresh, seen, skipped, alerted, unchecked,
                   historyVars>>

BackfillStep(t) ==
    \/ LoadCheckpoint(t) \/ SkipStage(t) \/ LastStageOver(t)
    \/ CollectSymbols(t) \/ CollectCalendar(t) \/ PassStage(t)
    \/ BeginPrices(t) \/ StoreSymbol(t) \/ SymbolFails(t) \/ SymbolInterrupted(t)
    \/ SaveLastSymbol(t) \/ EndPrices(t)
    \/ ReadEvents(t) \/ ReadRows(t) \/ WriteAdjusted(t) \/ Validate(t)
    \/ MarkStage(t) \/ SaveFails(t) \/ StageFails(t)
=============================================================================
