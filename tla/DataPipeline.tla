---------------------------- MODULE DataPipeline ----------------------------
(***************************************************************************)
(* The jobs that keep the market data, run by the threads of one process   *)
(* through the scheduler: historical_backfill, daily_update and            *)
(* corporate_action_apply.  Jobs of different names run side by side, and  *)
(* the process may end at any point; tables and checkpoint file survive.   *)
(***************************************************************************)
EXTENDS HistoricalBackfill

CONSTANTS StartDays, MaxRuns, MaxRestarts

ASSUME PipelineAssumption ==
    /\ Jobs \subseteq {"historical_backfill", "daily_update", "corporate_action_apply"}
    /\ JobDays \subseteq Days /\ StartDays \subseteq Days /\ 1 \in StartDays
    /\ {MaxFaults, MaxRuns, MaxRestarts} \subseteq Nat

VARIABLES
    horizon,    \* history: the latest day any process worked for
    narrowest,  \* history: by end_date, the latest start_date of a backfill
    runs, restarts

vars == <<historyVars, schedulerVars, backfillVars, since, horizon, narrowest, runs, restarts>>
countVars == <<since, horizon, narrowest, runs, restarts>>

Init ==
    /\ HistoryInit
    /\ SchedulerInit
    /\ BackfillInit
    /\ since = 0
    /\ horizon = 0
    /\ narrowest = [day \in Days |-> 1]
    /\ runs = 0
    /\ restarts = 0

-----------------------------------------------------------------------------
(* jobs/daily_update.py, a transaction around one day *)

Updating(t, step) == job[t] = "daily_update" /\ pc[t] = step

\* check_trading_calendar: a day the calendar does not know is no trading day.
DailySkips(t) ==
    /\ Updating(t, "begin")
    /\ Today(t) \notin calendar
    /\ GoTo(t, "end")
    /\ UNCHANGED <<historyVars, backfillVars, countVars>>

\* get_latest_price_date(s) is before the day, or None.
Behind(t, s) == \A d \in DOMAIN rows[s] : d < Today(t)

\* Collected and not yet committed: symbols, calendar, and the rows of the
\* symbols that are behind.
DailyCollects(t) ==
    /\ Updating(t, "begin")
    /\ left' = [left EXCEPT ![t] = {s \in Listing[Today(t)] : Behind(t, s)}]
    /\ GoTo(t, "collected")
    /\ UNCHANGED <<file, memo, at, fresh, seen, skipped, alerted, unchecked, faults,
                   historyVars, countVars>>

\* What is asked of the collector for a symbol that is behind.
DailyRows(t, s) == Fetched(s, Today(t), Today(t), Today(t))

DailyCommits(t) ==
    /\ Updating(t, "collected")
    /\ LET events == EventsOf(left[t], Today(t))
       IN  /\ ~Poisoned(events)
           /\ rows' = [s \in Symbols |->
                         IF s \in left[t]
                         THEN Upserted(rows[s], Processed(s, DailyRows(t, s), events, Today(t)))
                         ELSE rows[s]]
    /\ UpsertSymbols(Today(t))
    /\ calendar' = calendar \cup (Sessions \cap {Today(t)})
    /\ \E step \in {"check", "end"} : GoTo(t, step)
    /\ UNCHANGED <<actions, backfillVars, countVars>>

\* Mutation: the job tries again, for ever.
DailyRetries(t) ==
    /\ Updating(t, "collected")
    /\ Poisoned(EventsOf(left[t], Today(t)))
    /\ GoTo(t, "begin")
    /\ UNCHANGED <<historyVars, backfillVars, countVars>>

\* One invalid event rolls the day back for every symbol.
DailyRejects(t) ==
    /\ Updating(t, "collected")
    /\ Poisoned(EventsOf(left[t], Today(t)))
    /\ GoTo(t, "end")
    /\ UNCHANGED <<historyVars, backfillVars, countVars>>

DailyFails(t) ==
    /\ Updating(t, "begin") \/ Updating(t, "collected")
    /\ Fault
    /\ GoTo(t, "end")
    /\ UNCHANGED <<historyVars, file, memo, at, left, fresh, seen, skipped, alerted,
                   unchecked, countVars>>

\* run_missing_data_check looks at that day alone; an error is a warning.
DailyChecks(t) ==
    /\ Updating(t, "check")
    /\ GoTo(t, "end")
    /\ \/ alerted' = alerted \cup Missing(Today(t), Today(t)) /\ UNCHANGED faults
       \/ Fault /\ UNCHANGED alerted
    /\ UNCHANGED <<historyVars, file, memo, at, left, fresh, seen, skipped, unchecked,
                   countVars>>

DailyStep(t) ==
    \/ DailySkips(t) \/ DailyCollects(t) \/ DailyCommits(t)
    \/ DailyRejects(t) \/ DailyFails(t) \/ DailyChecks(t)

-----------------------------------------------------------------------------
(* jobs/corporate_action_apply.py, one transaction over all its symbols *)

Applying(t, step) == job[t] = "corporate_action_apply" /\ pc[t] = step

\* The rows of its range, which starts somewhere, and all the events up to its end.
Look(t, from) ==
    seen' = [seen EXCEPT ![t] =
               [rows |-> [s \in Symbols |-> Between(rows[s], from, Today(t))],
                actions |-> EventsOf(Symbols, Today(t))]]

\* Mutation: the job waits until it is alone.
ApplyWaits(t) ==
    /\ Applying(t, "begin")
    /\ \A u \in Threads \ {t} : job[u] = NoJob
    /\ \E from \in StartDays : from <= Today(t) /\ Look(t, from)
    /\ GoTo(t, "applied")
    /\ UNCHANGED <<file, memo, at, left, fresh, skipped, alerted, unchecked, faults,
                   historyVars, countVars>>

ApplyReads(t) ==
    /\ Applying(t, "begin")
    /\ \E from \in StartDays : from <= Today(t) /\ Look(t, from)
    /\ GoTo(t, "applied")
    /\ UNCHANGED <<file, memo, at, left, fresh, skipped, alerted, unchecked, faults,
                   historyVars, countVars>>

\* Events of symbols that have rows; the others are passed over before.
EventsSeen(t) == {e \in seen[t].actions : DOMAIN seen[t].rows[e.symbol] # {}}

Recalculated(t, s) == Processed(s, Raw(seen[t].rows[s]), EventsSeen(t), Today(t))

\* The session has the rows it read in its identity map, so that only the
\* columns whose value differs from the one it read are written.
Rewritten(t, s) ==
    [d \in DOMAIN rows[s] |->
       IF /\ d \in DOMAIN seen[t].rows[s]
          /\ Recalculated(t, s)[d] # seen[t].rows[s][d]
       THEN Recalculated(t, s)[d]
       ELSE rows[s][d]]

ApplyCommits(t) ==
    /\ Applying(t, "applied")
    /\ ~Poisoned(EventsSeen(t))
    /\ rows' = [s \in Symbols |->
                  IF \E e \in EventsSeen(t) : e.symbol = s THEN Rewritten(t, s) ELSE rows[s]]
    /\ GoTo(t, "end")
    /\ UNCHANGED <<listed, calendar, actions, backfillVars, countVars>>

ApplyRejects(t) ==
    /\ Applying(t, "applied")
    /\ Poisoned(EventsSeen(t))
    /\ GoTo(t, "end")
    /\ UNCHANGED <<historyVars, backfillVars, countVars>>

ApplyFails(t) ==
    /\ Applying(t, "begin") \/ Applying(t, "applied")
    /\ Fault
    /\ GoTo(t, "end")
    /\ UNCHANGED <<historyVars, file, memo, at, left, fresh, seen, skipped, alerted,
                   unchecked, countVars>>

ApplyStep(t) == ApplyReads(t) \/ ApplyCommits(t) \/ ApplyRejects(t) \/ ApplyFails(t)

-----------------------------------------------------------------------------
\* HistoricalBackfillConfig: the range of a backfill, which may start later or
\* sooner than that of an earlier process for the same end_date.
BuildFor(from, day) ==
    /\ since' = from
    /\ narrowest' =
          [narrowest EXCEPT ![day] = IF from > narrowest[day] THEN from ELSE narrowest[day]]

RegisterJob(j, day) ==
    /\ Register(j, day)
    /\ \/ /\ j = "historical_backfill"
          /\ \E from \in StartDays : from <= day /\ BuildFor(from, day)
       \/ j # "historical_backfill" /\ UNCHANGED <<since, narrowest>>
    /\ horizon' = IF day > horizon THEN day ELSE horizon
    /\ UNCHANGED <<historyVars, backfillVars, runs, restarts>>

RunJob(t, j) ==
    /\ runs < MaxRuns
    /\ Acquire(t, j)
    /\ runs' = runs + 1
    /\ UNCHANGED <<historyVars, backfillVars, since, horizon, narrowest, restarts>>

ReturnFrom(t) == Release(t) /\ UNCHANGED <<historyVars, backfillVars, countVars>>

NewAction == \E e \in Events : RegisterAction(e) /\ UNCHANGED <<schedulerVars, backfillVars, countVars>>

Saving(t) == Backfilling(t, "mark") \/ Backfilling(t, "passed")

\* The process ends, a file that was being written is cut off, and a new
\* process starts, for the same days or others.
Restart ==
    /\ restarts < MaxRestarts
    /\ restarts' = restarts + 1
    /\ NewProcess
    /\ ForgetAll
    /\ since' = 0
    /\ file' \in IF \E t \in Threads : Saving(t) THEN {file, Unreadable} ELSE {file}
    /\ UNCHANGED <<historyVars, skipped, alerted, unchecked, faults, horizon, narrowest, runs>>

Step(t) ==
    \/ BackfillStep(t) /\ UNCHANGED countVars
    \/ DailyStep(t)
    \/ ApplyStep(t)
    \/ ReturnFrom(t)

Next ==
    \/ \E j \in Jobs, day \in JobDays : RegisterJob(j, day)
    \/ \E t \in Threads, j \in Jobs : RunJob(t, j)
    \/ \E t \in Threads : Step(t)
    \/ NewAction
    \/ Restart

\* A thread inside a job goes on; nobody has to call a job or register one.
Spec == Init /\ [][Next]_vars /\ \A t \in Threads : WF_vars(Step(t))

-----------------------------------------------------------------------------
TypeOK ==
    /\ HistoryTypeOK
    /\ SchedulerTypeOK
    /\ BackfillTypeOK
    /\ since \in Days \cup {0}
    /\ horizon \in Days \cup {0}
    /\ narrowest \in [Days -> Days]
    /\ runs \in 0 .. MaxRuns
    /\ restarts \in 0 .. MaxRestarts

(* No job runs in two threads at once, and the busy set is exactly the jobs
   that run: none is locked out for ever by a run that is over, however it
   ended (scheduler.py run_job, _acquire_lock). *)
AtMostOneRun ==
    /\ \A t, u \in Threads : job[t] = job[u] /\ job[t] # NoJob => t = u
    /\ busy = {job[t] : t \in Threads} \ {NoJob}

(* The checkpoint on disk always describes a moment of the seven stages: the
   completed ones come first, and a last symbol is only named in the fourth,
   whatever was interrupted, cut off or resumed (BackfillCheckpoint). *)
InOrder(c) ==
    \E k \in 0 .. 7 : c.done = FirstStages(k) /\ (c.last # 0 => k = 3)

CheckpointInOrder == InOrder(file)

\* The days all backfills up to the given one have had in their range.
InRange(d, day) == narrowest[day] <= d /\ d <= day

(* What a checkpoint says is behind it, is: for each symbol listed on its day
   that the price stage has passed, the rows of the source are stored, or a run
   for that day has given the symbol up (historical_backfill.py, stage 4).  That is
   as far as all backfills for that end_date have reached back: the file does not say
   from which start_date it was written (_load_or_create_checkpoint). *)
PassedBy(s) ==
    \/ "daily_prices" \in file.done
    \/ file.last # 0 /\ s <= file.last

NothingPassedOver ==
    file.asOf # 0 =>
        \A s \in Listing[file.asOf] :
            PassedBy(s) =>
                \/ {d \in Traded[s] : InRange(d, file.asOf)} \subseteq DOMAIN rows[s]
                \/ <<s, file.asOf>> \in skipped

(* After validation, a session without a row of a listed symbol is one somebody
   was told of, or one the check could not see: it failed, or another update had
   moved the symbol's listing date past the day (missing_data_check.py). *)
HolesAreAlerted ==
    "validate" \in file.done =>
        \A s \in Listing[file.asOf], d \in {x \in Sessions : InRange(x, file.asOf)} :
            \/ d \in DOMAIN rows[s]
            \/ <<s, d>> \in alerted
            \/ <<s, file.asOf>> \in unchecked

(* A row carries the factor of an event only if the event is of its symbol, is
   later than the row and was in the past of some process (14.15: no
   look-ahead).  All three writers of adjusted prices obey it. *)
NoLookAhead ==
    \A s \in Symbols : \A d \in DOMAIN rows[s] : \A e \in Events :
        rows[s][d][e] > 0 =>
            e.kind = "factor" /\ e.symbol = s /\ e.day <= horizon /\ d < e.day

\* Nobody wrote the rows a thread read since it read them.
Unwritten(t) ==
    \A s \in Symbols : \A d \in DOMAIN seen[t].rows[s] :
        d \in DOMAIN rows[s] /\ rows[s][d] = seen[t].rows[s][d]

(* corporate_action_apply repairs: if nobody wrote the rows it read meanwhile,
   its commit leaves each of them with every factor of the events of its symbol
   exactly once, however often they had been multiplied in before. *)
RepairIsExact ==
    [][\A t \in Threads :
         ApplyCommits(t) /\ Unwritten(t) =>
            \A e \in EventsSeen(t) : \A d \in DOMAIN seen[t].rows[e.symbol] :
                rows'[e.symbol][d][e] = IF Applies(e, e.symbol, d, Today(t)) THEN 1 ELSE 0]_vars

\* An upper bound on the steps a job has left: in a backfill, those of the stage
\* it is in and of the stages after it.
StepsOfAStage == 2 * Cardinality(Symbols) + 4
StepsInStage(t) ==
    CASE pc[t] = "stage"  -> StepsOfAStage - 1
      [] pc[t] = "symbol" -> 2 * Cardinality(left[t]) + 2
      [] pc[t] = "passed" -> 2 * Cardinality(left[t]) + 1
      [] pc[t] = "rows"   -> 3
      [] pc[t] = "adjust" -> 2
      [] OTHER            -> 1
StepsLeft(t) ==
    CASE pc[t] = "idle" -> 0
      [] pc[t] = "end"  -> 1
      [] pc[t] = "begin" /\ job[t] # "historical_backfill" -> 4
      [] pc[t] = "begin" /\ job[t] = "historical_backfill" -> 8 * StepsOfAStage + 1
      [] pc[t] \in {"collected", "applied"} -> 3
      [] pc[t] = "check" -> 2
      [] OTHER -> (8 - at[t]) * StepsOfAStage + StepsInStage(t) + 1

(* No job runs for ever: whatever the checkpoint lets it skip, whatever fails and
   whatever other jobs do meanwhile, each of its steps brings its end nearer
   (historical_backfill.py run; daily_update.py run; corporate_action_apply.py run). *)
EveryStepIsProgress ==
    [][\A t \in Threads : Step(t) => StepsLeft(t)' < StepsLeft(t)]_vars

(* No job waits for another one: a thread inside a job can always take a step, so
   that with the above every call of run_job returns (scheduler.py run_job). *)
NobodyStuck == \A t \in Threads : job[t] # NoJob => ENABLED Step(t)

(* No factor is multiplied into a row twice (adjusted_price.py: the whole history
   is recalculated, and adjustments do not accumulate). *)
NothingAccumulates ==
    \A s \in Symbols : \A d \in DOMAIN rows[s] : \A e \in Events : rows[s][d][e] <= 1

\* The days after get_latest_price_date(s), for a symbol that has rows.
SinceLatest(s) == {d \in Days : \A x \in DOMAIN rows[s] : x < d}

(* A daily update collects from the day after a symbol's last stored one: when it
   commits, no session since then is left without its row (daily_update.py:9 and
   :164; get_latest_price_date). *)
DailyCatchesUp ==
    [][\A t \in Threads : DailyCommits(t) =>
         \A s \in left[t] : DOMAIN rows[s] # {} =>
            {d \in Traded[s] \cap SinceLatest(s) : d <= Today(t)} \subseteq DOMAIN rows'[s]]_vars
=============================================================================
