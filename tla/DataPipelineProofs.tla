-------------------------- MODULE DataPipelineProofs --------------------------
(***************************************************************************)
(* Types of the pipeline, the exclusion of jobs, the rows of daily_prices, *)
(* the progress of jobs and the checkpoint file, for all values of the     *)
(* constants.  Typed is inductive: the types, the link between a thread's  *)
(* job and where it is (Working), and the stages a backfill can be in for  *)
(* what it does (InPlace).                                                 *)
(***************************************************************************)
EXTENDS DataPipeline, TLAPS, FiniteSetTheorems, WellFoundedInduction

\* The least member of a nonempty set of numbers.
LEMMA LeastNatural ==
    ASSUME NEW T \in SUBSET Nat, T # {}
    PROVE  Min(T) \in T /\ \A y \in T : Min(T) <= y
<1> DEFINE less == {pair \in Nat \X Nat : pair[1] < pair[2]}
<1>1. IsWellFoundedOn(less, Nat)
  BY NatLessThanWellFounded DEF OpToRel
<1> HIDE DEF less
<1>2. \E x \in T : \A y \in T : ~ (<<y, x>> \in less)
  BY <1>1, WFMin
<1>3. PICK x \in T : \A y \in T : ~ (<<y, x>> \in less)
  BY <1>2
<1>4. ASSUME NEW y \in T PROVE x <= y
  <2>1. ~ (<<y, x>> \in less) /\ x \in Nat /\ y \in Nat
    BY <1>3
  <2>2. ~ (y < x)
    BY <2>1 DEF less
  <2>3. QED
    BY <2>1, <2>2
<1>5. QED
  BY <1>4 DEF Min

\* An upsert keeps a table a table and adds the days of the new rows.
LEMMA UpsertedTable ==
    ASSUME NEW a, NEW b, IsTable(a), IsTable(b)
    PROVE  /\ IsTable(Upserted(a, b))
           /\ DOMAIN Upserted(a, b) = DOMAIN a \cup DOMAIN b
  BY DEF IsTable, Upserted

\* The i-th stage is among the first k stages just if i <= k.
LEMMA StageOrder ==
    ASSUME NEW k \in 0 .. 7, NEW i \in 1 .. 7
    PROVE  Stages[i] \in FirstStages(k) <=> i <= k
<1>1. ASSUME NEW j \in 1 .. 7, Stages[i] = Stages[j] PROVE i = j
  BY <1>1 DEF Stages
<1>2. QED
  BY <1>1 DEF FirstStages

\* A collector returns a row for each day of the range the symbol was traded on.
LEMMA FetchedTable ==
    ASSUME NEW s \in Symbols, NEW from \in Nat, NEW to \in Nat, NEW day \in Nat
    PROVE  /\ IsTable(Fetched(s, from, to, day))
           /\ DOMAIN Fetched(s, from, to, day) = {x \in Traded[s] : from <= x /\ x <= to}
  BY HistoryAssumption DEF Fetched, IsTable, Powers

\* Processing changes no day of a table.
LEMMA ProcessedTable ==
    ASSUME NEW s, NEW table, IsTable(table), NEW events, NEW day
    PROVE  /\ IsTable(Processed(s, table, events, day))
           /\ DOMAIN Processed(s, table, events, day) = DOMAIN table
<1>1. ASSUME NEW d \in DOMAIN table PROVE Processed(s, table, events, day)[d] \in Powers
  <2>1. table[d] \in [Events -> Nat]
    BY DEF IsTable, Powers
  <2>2. \A e \in Events :
           table[d][e] + (IF e \in events /\ Applies(e, s, d, day) THEN 1 ELSE 0) \in Nat
    BY <2>1
  <2>3. QED
    BY <2>2 DEF Processed, Powers
<1>2. QED
  BY <1>1 DEF Processed, IsTable

\* Neither does a range query leave anything but a table.
LEMMA BetweenTable ==
    ASSUME NEW table, IsTable(table), NEW from, NEW to
    PROVE  /\ IsTable(Between(table, from, to))
           /\ DOMAIN Between(table, from, to) = {x \in DOMAIN table : from <= x /\ x <= to}
  BY DEF Between, IsTable

\* No rows are a table.
LEMMA EmptyTable == IsTable(<< >>) /\ DOMAIN << >> = {}
  BY DEF IsTable

\* The initial state has its types.
LEMMA InitTyped == Init => TypeOK
<1> SUFFICES ASSUME Init PROVE TypeOK
  OBVIOUS
<1> USE HistoryAssumption, SchedulerAssumption, PipelineAssumption, EmptyTable
       DEF Init, HistoryInit, SchedulerInit, BackfillInit
<1>1. HistoryTypeOK
  BY DEF HistoryTypeOK, IsHistory
<1>2. SchedulerTypeOK
  BY DEF SchedulerTypeOK, Steps
<1>3. BackfillTypeOK
  BY DEF BackfillTypeOK, Unreadable, Checkpoint, NothingSeen, IsHistory
<1>4. QED
  BY <1>1, <1>2, <1>3 DEF TypeOK

\* A thread has a job exactly while it is somewhere in one, and the job a day.
Working ==
    \A t \in Threads :
        /\ pc[t] = "idle" <=> job[t] = NoJob
        /\ job[t] # NoJob => Today(t) \in Days

\* The stage a backfill is in, where its program has only one.
InPlace ==
    \A t \in Threads :
        /\ pc[t] \in {"symbol", "passed"} => at[t] = 4
        /\ pc[t] \in {"rows", "adjust"} => at[t] = 5
        /\ pc[t] = "mark" => at[t] <= 7
        /\ pc[t] = "passed" => left[t] # {}

Typed == TypeOK /\ Working /\ InPlace

\* What the steps of a job do to the scheduler's state.
Moves(t) ==
    \/ UNCHANGED schedulerVars
    \/ \E step \in Steps \ {"idle"} : GoTo(t, step)

\* A step of a backfill moves the thread that takes it, and nothing else of the scheduler.
LEMMA BackfillMoves ==
    ASSUME NEW t \in Threads, BackfillStep(t)
    PROVE  Moves(t) /\ job[t] = "historical_backfill" /\ pc[t] # "idle"
  BY DEF BackfillStep, Moves, Steps, Backfilling, InStage, LoadCheckpoint, SkipStage,
         LastStageOver, CollectSymbols, CollectCalendar, PassStage, BeginPrices, StoreSymbol,
         SymbolFails, SymbolInterrupted, SaveLastSymbol, EndPrices, ReadEvents, ReadRows,
         WriteAdjusted, Validate, MarkStage, SaveFails, StageFails

\* Moving inside of a job keeps the scheduler's state in order.
LEMMA MovesTyped ==
    ASSUME SchedulerTypeOK, Working, NEW t \in Threads, Moves(t), pc[t] # "idle"
    PROVE  /\ SchedulerTypeOK' /\ Working'
           /\ job' = job /\ dayOf' = dayOf /\ busy' = busy
           /\ \A u \in Threads \ {t} : pc'[u] = pc[u]
  BY DEF SchedulerTypeOK, Working, Today, Moves, GoTo, schedulerVars

\* A thread inside a job has a day.
LEMMA TodayIsADay ==
    ASSUME Typed, NEW t \in Threads, pc[t] # "idle"
    PROVE  Today(t) \in Days /\ Today(t) \in Nat \ {0} /\ Today(t) <= LastDay
  BY HistoryAssumption DEF Typed, Working, Days

\* The symbol whose turn it is is one of those left, and the first of them.
LEMMA TurnIsLeft ==
    ASSUME TypeOK, NEW t \in Threads, left[t] # {}
    PROVE  /\ Turn(t) \in left[t] /\ Turn(t) \in Symbols
           /\ \A s \in left[t] : Turn(t) <= s
<1>1. left[t] \in SUBSET Nat /\ left[t] \subseteq Symbols
  BY HistoryAssumption DEF TypeOK, BackfillTypeOK
<1>2. QED
  BY <1>1, LeastNatural DEF Turn

\* The tables under a step of a backfill.
LEMMA BackfillKeepsHistoryTyped ==
    ASSUME Typed, NEW t \in Threads, BackfillStep(t)
    PROVE  HistoryTypeOK'
<1> USE DEF Typed, TypeOK, HistoryTypeOK
<1>1. Today(t) \in Days
  BY BackfillMoves, TodayIsADay
<1>2. CASE CollectSymbols(t)
  <2>1. listed' \in [Symbols -> 0 .. LastDay]
    BY <1>1, <1>2, HistoryAssumption DEF CollectSymbols, UpsertSymbols, Days
  <2>2. QED
    BY <1>2, <2>1 DEF CollectSymbols
<1>3. CASE CollectCalendar(t)
  BY <1>3, HistoryAssumption DEF CollectCalendar
<1>4. CASE StoreSymbol(t)
  <2>1. Turn(t) \in Symbols
    BY <1>4, TurnIsLeft DEF StoreSymbol
  <2>2. IsTable(Fetched(Turn(t), since, Today(t), Today(t)))
    <3>1. since \in Nat /\ Today(t) \in Nat
      BY <1>1, HistoryAssumption DEF Days
    <3>2. QED
      BY <2>1, <3>1, FetchedTable
  <2>3. IsTable(Upserted(rows[Turn(t)], Fetched(Turn(t), since, Today(t), Today(t))))
    BY <2>1, <2>2, UpsertedTable DEF IsHistory
  <2>4. IsHistory(rows')
    BY <1>4, <2>3 DEF StoreSymbol, IsHistory
  <2>5. QED
    BY <1>4, <2>4 DEF StoreSymbol
<1>5. CASE WriteAdjusted(t)
  <2>1. ASSUME NEW s \in Symbols PROVE IsTable(rows'[s])
    BY <1>5, ProcessedTable, UpsertedTable DEF WriteAdjusted, IsHistory, BackfillTypeOK
  <2>2. QED
    BY <1>5, <2>1 DEF WriteAdjusted, IsHistory
<1>6. CASE UNCHANGED historyVars
  BY <1>6 DEF historyVars
<1>7. QED
  BY <1>2, <1>3, <1>4, <1>5, <1>6
     DEF BackfillStep, LoadCheckpoint, SkipStage, LastStageOver, PassStage, BeginPrices,
         SymbolFails, SymbolInterrupted, SaveLastSymbol, EndPrices, ReadEvents, ReadRows,
         Validate, MarkStage, SaveFails, StageFails

\* Stages are stages.
LEMMA StagesTyped ==
    /\ \A i \in 1 .. 7 : Stages[i] \in AllStages
    /\ \A k \in 0 .. 7 : FirstStages(k) \subseteq AllStages
  BY DEF FirstStages, AllStages

\* A file that cannot be read stands for a checkpoint.
LEMMA UnreadableTyped == Unreadable \in Checkpoint
  BY HistoryAssumption DEF Unreadable, Checkpoint

\* A step that leaves the stage alone is where it was or in a step that has no place.
LEMMA PlaceKept ==
    ASSUME Typed, NEW t \in Threads, UNCHANGED <<at, left>>,
           \A u \in Threads \ {t} : pc'[u] = pc[u],
           pc'[t] \in {pc[t], "stage", "end"} \/ (pc'[t] = "mark" /\ at[t] <= 7)
    PROVE  InPlace'
  BY DEF Typed, InPlace

\* The backfill's own state under its steps.
LEMMA BackfillKeepsRunTyped ==
    ASSUME Typed, NEW t \in Threads, BackfillStep(t)
    PROVE  BackfillTypeOK' /\ InPlace'
<1> DEFINE Day == Today(t)
<1>a. Day \in Days /\ Day \in 0 .. LastDay /\ 1 \in Days
  BY BackfillMoves, TodayIsADay, HistoryAssumption DEF Days
<1>b. /\ SchedulerTypeOK' /\ \A u \in Threads \ {t} : pc'[u] = pc[u]
      /\ \A step \in Steps : GoTo(t, step) => pc'[t] = step
  <2>1. SchedulerTypeOK' /\ \A u \in Threads \ {t} : pc'[u] = pc[u]
    BY BackfillMoves, MovesTyped DEF Typed, TypeOK
  <2>2. \A step \in Steps : GoTo(t, step) => pc'[t] = step
    BY DEF Typed, TypeOK, GoTo, SchedulerTypeOK
  <2>3. QED
    BY <2>1, <2>2
<1>c. BackfillTypeOK
  BY DEF Typed, TypeOK
<1>d. Fault => faults' \in 0 .. MaxFaults
  BY <1>c, PipelineAssumption DEF Fault, BackfillTypeOK
<1> HIDE DEF Day
<1> USE DEF Steps
<1>1. CASE LoadCheckpoint(t)
  <2>1. memo' \in [Threads -> Checkpoint]
    BY <1>a, <1>c, <1>1, UnreadableTyped DEF LoadCheckpoint, BackfillTypeOK, Checkpoint, Day
  <2>2. at' \in [Threads -> 1 .. 8] /\ fresh' \in [Threads -> BOOLEAN]
    BY <1>c, <1>1 DEF LoadCheckpoint, BackfillTypeOK
  <2>3. BackfillTypeOK'
    BY <1>c, <1>1, <2>1, <2>2 DEF LoadCheckpoint, BackfillTypeOK
  <2>4. InPlace'
    BY <1>b, <1>c, <1>1 DEF LoadCheckpoint, BackfillTypeOK, Typed, InPlace
  <2>5. QED
    BY <2>3, <2>4
<1>2. CASE SkipStage(t)
  BY <1>b, <1>c, <1>2 DEF SkipStage, Backfilling, BackfillTypeOK, Typed, InPlace, schedulerVars
<1>3. CASE LastStageOver(t) \/ PassStage(t) \/ CollectCalendar(t)
  <2>1. UNCHANGED backfillVars
    BY <1>3 DEF LastStageOver, PassStage, CollectCalendar
  <2>2. pc'[t] \in {"end", "mark"} /\ (pc'[t] = "mark" => at[t] <= 7)
    BY <1>b, <1>3 DEF LastStageOver, PassStage, CollectCalendar, InStage
  <2>3. QED
    BY <1>b, <1>c, <2>1, <2>2, PlaceKept DEF backfillVars, BackfillTypeOK
<1>4. CASE CollectSymbols(t)
  <2>1. BackfillTypeOK'
    BY <1>c, <1>4 DEF CollectSymbols, BackfillTypeOK
  <2>2. pc'[t] = "mark" /\ at[t] = 1 /\ UNCHANGED <<at, left>>
    BY <1>b, <1>4 DEF CollectSymbols, InStage
  <2>3. QED
    BY <1>b, <2>1, <2>2, PlaceKept
<1>5. CASE BeginPrices(t)
  <2>1. left' \in [Threads -> SUBSET Symbols]
    BY <1>a, <1>c, <1>5, HistoryAssumption DEF BeginPrices, BackfillTypeOK, Resumed, Known, Day
  <2>2. pc'[t] = "symbol" /\ at[t] = 4
    BY <1>b, <1>5 DEF BeginPrices, InStage
  <2>3. BackfillTypeOK'
    BY <1>c, <1>5, <2>1 DEF BeginPrices, BackfillTypeOK
  <2>4. \A u \in Threads \ {t} : left'[u] = left[u] /\ at'[u] = at[u]
    BY <1>c, <1>5 DEF BeginPrices, BackfillTypeOK
  <2>5. QED
    BY <1>b, <1>5, <2>2, <2>3, <2>4 DEF BeginPrices, Typed, InPlace
<1>6. CASE StoreSymbol(t) \/ SymbolFails(t) \/ SymbolInterrupted(t)
  <2>1. Turn(t) \in Symbols /\ left[t] # {} /\ at[t] = 4 /\ pc[t] = "symbol"
    BY <1>6, TurnIsLeft
       DEF StoreSymbol, SymbolFails, SymbolInterrupted, Backfilling, Typed, InPlace
  <2>2. skipped' \in SUBSET (Symbols \X Days)
    BY <1>a, <1>c, <1>6, <2>1
       DEF StoreSymbol, SymbolFails, SymbolInterrupted, backfillVars, BackfillTypeOK, Day
  <2>3. memo' \in [Threads -> Checkpoint] /\ file' \in Checkpoint
    <3>1. CASE StoreSymbol(t)
      BY <1>c, <2>1, <3>1 DEF StoreSymbol, backfillVars, BackfillTypeOK, Checkpoint
    <3>2. CASE SymbolFails(t)
      BY <1>c, <2>1, <3>2 DEF SymbolFails, backfillVars, BackfillTypeOK, Checkpoint
    <3>3. CASE SymbolInterrupted(t)
      BY <1>c, <2>1, <3>3 DEF SymbolInterrupted, backfillVars, BackfillTypeOK, Checkpoint
    <3>4. QED
      BY <1>6, <3>1, <3>2, <3>3
  <2>4. faults' \in 0 .. MaxFaults
    BY <1>c, <1>d, <1>6
       DEF StoreSymbol, SymbolFails, SymbolInterrupted, backfillVars, BackfillTypeOK
  <2>5. UNCHANGED <<at, left, fresh, seen, alerted, unchecked>>
    BY <1>6 DEF StoreSymbol, SymbolFails, SymbolInterrupted, backfillVars
  <2>6. BackfillTypeOK'
    BY <1>c, <2>2, <2>3, <2>4, <2>5 DEF BackfillTypeOK
  <2>7. pc'[t] \in {"passed", "end"}
    BY <1>b, <1>6 DEF StoreSymbol, SymbolFails, SymbolInterrupted
  <2>8. QED
    BY <1>b, <2>1, <2>5, <2>6, <2>7 DEF Typed, InPlace
<1>7. CASE SaveLastSymbol(t)
  <2>1. Turn(t) \in Symbols /\ at[t] = 4
    BY <1>7, TurnIsLeft DEF SaveLastSymbol, Backfilling, Typed, InPlace
  <2>2. memo' \in [Threads -> Checkpoint] /\ file' \in Checkpoint
    BY <1>c, <1>7, <2>1 DEF SaveLastSymbol, BackfillTypeOK, Checkpoint
  <2>3. left' \in [Threads -> SUBSET Symbols] /\ \A u \in Threads \ {t} : left'[u] = left[u]
    BY <1>c, <1>7 DEF SaveLastSymbol, BackfillTypeOK
  <2>4. BackfillTypeOK'
    BY <1>c, <1>7, <2>2, <2>3 DEF SaveLastSymbol, BackfillTypeOK
  <2>5. pc'[t] = "symbol" /\ UNCHANGED at
    BY <1>b, <1>7 DEF SaveLastSymbol
  <2>6. QED
    BY <1>b, <2>1, <2>3, <2>4, <2>5 DEF Typed, InPlace
<1>8. CASE EndPrices(t)
  <2>1. memo' \in [Threads -> Checkpoint]
    BY <1>c, <1>8 DEF EndPrices, BackfillTypeOK, Checkpoint
  <2>2. BackfillTypeOK'
    BY <1>c, <1>8, <2>1 DEF EndPrices, BackfillTypeOK
  <2>3. pc'[t] = "mark" /\ at[t] = 4 /\ UNCHANGED <<at, left>>
    BY <1>b, <1>8 DEF EndPrices, Backfilling, Typed, InPlace
  <2>4. QED
    BY <1>b, <2>2, <2>3, PlaceKept
<1>9. CASE ReadEvents(t)
  <2>1. EventsOf(Known, Today(t)) \subseteq Events
    BY DEF EventsOf, Typed, TypeOK, HistoryTypeOK
  <2>2. BackfillTypeOK'
    BY <1>c, <1>9, <2>1 DEF ReadEvents, BackfillTypeOK
  <2>3. pc'[t] \in {"mark", "rows"} /\ at[t] = 5 /\ UNCHANGED <<at, left>>
    BY <1>b, <1>9 DEF ReadEvents, InStage
  <2>4. QED
    BY <1>b, <2>2, <2>3 DEF Typed, InPlace
<1>10. CASE ReadRows(t)
  <2>1. IsHistory([s \in Symbols |->
                     IF s \in Known THEN Between(rows[s], since, Today(t)) ELSE << >>])
    BY BetweenTable, EmptyTable DEF IsHistory, Typed, TypeOK, HistoryTypeOK
  <2>2. BackfillTypeOK'
    BY <1>c, <1>10, <2>1 DEF ReadRows, BackfillTypeOK
  <2>3. pc'[t] \in {"end", "adjust"} /\ at[t] = 5 /\ UNCHANGED <<at, left>>
    BY <1>b, <1>10 DEF ReadRows, Backfilling, Typed, InPlace
  <2>4. QED
    BY <1>b, <2>2, <2>3 DEF Typed, InPlace
<1>11. CASE WriteAdjusted(t)
  <2>1. BackfillTypeOK'
    BY <1>c, <1>11 DEF WriteAdjusted, backfillVars, BackfillTypeOK
  <2>2. pc'[t] = "mark" /\ at[t] = 5 /\ UNCHANGED <<at, left>>
    BY <1>b, <1>11 DEF WriteAdjusted, backfillVars, Backfilling, Typed, InPlace
  <2>3. QED
    BY <1>b, <2>1, <2>2, PlaceKept
<1>12. CASE Validate(t)
  <2>1. alerted' \in SUBSET (Symbols \X Days)
    BY <1>c, <1>12 DEF Validate, Missing, Active, Known, BackfillTypeOK, Typed, TypeOK,
                            HistoryTypeOK
  <2>2. unchecked' \in SUBSET (Symbols \X Days)
    BY <1>a, <1>c, <1>12, HistoryAssumption DEF Validate, BackfillTypeOK, Day
  <2>3. faults' \in 0 .. MaxFaults
    BY <1>c, <1>d, <1>12 DEF Validate, BackfillTypeOK
  <2>4. BackfillTypeOK'
    BY <1>c, <1>12, <2>1, <2>2, <2>3 DEF Validate, BackfillTypeOK
  <2>5. pc'[t] = "mark" /\ at[t] = 7 /\ UNCHANGED <<at, left>>
    BY <1>b, <1>12 DEF Validate, InStage
  <2>6. QED
    BY <1>b, <2>4, <2>5, PlaceKept
<1>13. CASE MarkStage(t)
  <2>1. at[t] \in 1 .. 7
    BY <1>c, <1>13 DEF MarkStage, Backfilling, Typed, InPlace, BackfillTypeOK
  <2>2. Stages[at[t]] \in AllStages
    BY <2>1, StagesTyped
  <2>3. memo' \in [Threads -> Checkpoint] /\ file' \in Checkpoint
    BY <1>c, <1>13, <2>2 DEF MarkStage, BackfillTypeOK, Checkpoint
  <2>4. at' \in [Threads -> 1 .. 8] /\ \A u \in Threads \ {t} : at'[u] = at[u]
    BY <1>c, <1>13, <2>1 DEF MarkStage, BackfillTypeOK
  <2>5. BackfillTypeOK'
    BY <1>c, <1>13, <2>3, <2>4 DEF MarkStage, BackfillTypeOK
  <2>6. pc'[t] = "stage" /\ UNCHANGED left
    BY <1>b, <1>13 DEF MarkStage
  <2>7. QED
    BY <1>b, <2>4, <2>5, <2>6 DEF Typed, InPlace
<1>14. CASE SaveFails(t) \/ StageFails(t)
  <2>1. file' \in Checkpoint /\ faults' \in 0 .. MaxFaults
    BY <1>c, <1>d, <1>14, UnreadableTyped DEF SaveFails, StageFails, BackfillTypeOK
  <2>2. BackfillTypeOK'
    BY <1>c, <1>14, <2>1 DEF SaveFails, StageFails, BackfillTypeOK
  <2>3. pc'[t] = "end" /\ UNCHANGED <<at, left>>
    BY <1>b, <1>14 DEF SaveFails, StageFails
  <2>4. QED
    BY <1>b, <2>2, <2>3, PlaceKept
<1>15. QED
  BY <1>1, <1>2, <1>3, <1>4, <1>5, <1>6, <1>7, <1>8, <1>9, <1>10, <1>11, <1>12, <1>13, <1>14
     DEF BackfillStep

\* The other two jobs: steps that leave the places of the backfill alone.
JobStep(t) == DailyStep(t) \/ ApplyStep(t)

\* A step of another job: what it moves and what it leaves alone.
LEMMA JobMoves ==
    ASSUME NEW t \in Threads, JobStep(t)
    PROVE  /\ Moves(t) /\ pc[t] # "idle"
           /\ job[t] \in {"daily_update", "corporate_action_apply"}
           /\ UNCHANGED <<file, memo, at, fresh, skipped, unchecked, countVars>>
           /\ UNCHANGED left \/ DailyCollects(t)
           /\ \E step \in {"collected", "check", "applied", "end"} : GoTo(t, step)
  BY DEF JobStep, DailyStep, ApplyStep, Moves, GoTo, Steps, Updating, Applying, DailySkips,
         DailyCollects,
         DailyCommits, DailyRejects, DailyFails, DailyChecks, ApplyReads, ApplyCommits,
         ApplyRejects, ApplyFails, backfillVars

\* The tables under a step of another job.
LEMMA JobKeepsHistoryTyped ==
    ASSUME Typed, NEW t \in Threads, JobStep(t)
    PROVE  HistoryTypeOK'
<1> USE DEF Typed, TypeOK, HistoryTypeOK
<1>1. Today(t) \in Days
  BY JobMoves, TodayIsADay
<1>2. CASE DailyCommits(t)
  <2>1. listed' \in [Symbols -> 0 .. LastDay]
    BY <1>1, <1>2, HistoryAssumption DEF DailyCommits, UpsertSymbols, Days
  <2>2. calendar' \subseteq Days
    BY <1>2, HistoryAssumption DEF DailyCommits
  <2>3. ASSUME NEW s \in Symbols PROVE IsTable(rows'[s])
    <3>1. IsTable(DailyRows(t, s))
      <4>1. Today(t) \in Nat
        BY <1>1, HistoryAssumption DEF Days
      <4>2. QED
        BY <4>1, FetchedTable DEF DailyRows
    <3>2. IsTable(Processed(s, DailyRows(t, s), EventsOf(left[t], Today(t)), Today(t)))
      BY <3>1, ProcessedTable
    <3>3. IsTable(Upserted(rows[s],
                  Processed(s, DailyRows(t, s), EventsOf(left[t], Today(t)), Today(t))))
      BY <3>2, UpsertedTable DEF IsHistory
    <3>4. QED
      BY <1>2, <3>3 DEF DailyCommits, IsHistory
  <2>4. QED
    BY <1>2, <2>1, <2>2, <2>3 DEF DailyCommits, IsHistory
<1>3. CASE ApplyCommits(t)
  <2>1. ASSUME NEW s \in Symbols PROVE IsTable(Rewritten(t, s))
    <3>1. IsTable(rows[s]) /\ IsTable(seen[t].rows[s])
      BY DEF IsHistory, BackfillTypeOK
    <3>2. IsTable(Raw(seen[t].rows[s])) /\ DOMAIN Raw(seen[t].rows[s]) = DOMAIN seen[t].rows[s]
      BY <3>1 DEF Raw, IsTable, Powers
    <3>3. /\ IsTable(Recalculated(t, s))
          /\ DOMAIN Recalculated(t, s) = DOMAIN seen[t].rows[s]
      BY <3>2, ProcessedTable DEF Recalculated
    <3>4. QED
      BY <3>1, <3>3 DEF Rewritten, IsTable
  <2>2. QED
    BY <1>3, <2>1 DEF ApplyCommits, IsHistory
<1>4. CASE UNCHANGED historyVars
  BY <1>4 DEF historyVars
<1>5. QED
  BY <1>2, <1>3, <1>4
     DEF JobStep, DailyStep, ApplyStep, DailySkips, DailyCollects, DailyRejects, DailyFails,
         DailyChecks, ApplyReads, ApplyRejects, ApplyFails

\* The backfill's state under a step of another job, which borrows left and seen.
LEMMA JobKeepsRunTyped ==
    ASSUME Typed, NEW t \in Threads, JobStep(t)
    PROVE  BackfillTypeOK' /\ InPlace'
<1>1. Today(t) \in Days
  BY JobMoves, TodayIsADay
<1>2. BackfillTypeOK /\ HistoryTypeOK /\ (Fault => faults' \in 0 .. MaxFaults)
  BY PipelineAssumption DEF Typed, TypeOK, Fault, BackfillTypeOK
<1>3. left' \in [Threads -> SUBSET Symbols] /\ \A u \in Threads \ {t} : left'[u] = left[u]
  BY <1>1, <1>2, JobMoves, HistoryAssumption DEF DailyCollects, BackfillTypeOK
<1>4. alerted' \in SUBSET (Symbols \X Days)
  BY <1>2 DEF JobStep, DailyStep, ApplyStep, DailySkips, DailyCollects, DailyCommits, DailyRejects,
         DailyFails, DailyChecks, ApplyReads, ApplyCommits, ApplyRejects, ApplyFails,
         backfillVars, Missing, Active, Known, BackfillTypeOK, HistoryTypeOK
<1>5. faults' \in 0 .. MaxFaults
  BY <1>2 DEF JobStep, DailyStep, ApplyStep, DailySkips, DailyCollects, DailyCommits, DailyRejects,
         DailyFails, DailyChecks, ApplyReads, ApplyCommits, ApplyRejects, ApplyFails,
         backfillVars, BackfillTypeOK
<1>6. ASSUME ApplyReads(t) PROVE BackfillTypeOK'
  <2>1. /\ \A from : IsHistory([s \in Symbols |-> Between(rows[s], from, Today(t))])
        /\ EventsOf(Symbols, Today(t)) \subseteq Events
    BY <1>2, BetweenTable DEF IsHistory, EventsOf, HistoryTypeOK
  <2>2. \A u \in Threads : IsHistory(seen'[u].rows) /\ seen'[u].actions \subseteq Events
    BY <1>2, <1>6, <2>1 DEF ApplyReads, Look, BackfillTypeOK
  <2>3. DOMAIN seen' = Threads /\ \A u \in Threads : DOMAIN seen'[u] = {"rows", "actions"}
    BY <1>2, <1>6 DEF ApplyReads, Look, BackfillTypeOK
  <2>4. UNCHANGED <<file, memo, at, left, fresh, skipped, alerted, unchecked, faults>>
    BY <1>6 DEF ApplyReads
  <2>5. BackfillTypeOK
    BY <1>2
  <2>6. QED
    BY <2>2, <2>3, <2>4, <2>5 DEF BackfillTypeOK
<1>7. ASSUME UNCHANGED seen PROVE BackfillTypeOK'
  <2>1. UNCHANGED <<file, memo, at, fresh, skipped, unchecked, seen>>
    BY <1>7, JobMoves
  <2>2. BackfillTypeOK
    BY <1>2
  <2>3. QED
    BY <1>3, <1>4, <1>5, <2>1, <2>2 DEF BackfillTypeOK
<1>8. BackfillTypeOK'
  BY <1>6, <1>7
     DEF JobStep, DailyStep, ApplyStep, DailySkips, DailyCollects, DailyCommits, DailyRejects,
         DailyFails,
         DailyChecks, ApplyReads, ApplyCommits, ApplyRejects, ApplyFails, backfillVars
<1>9. InPlace'
  <2>1. pc'[t] \in {"collected", "check", "applied", "end"}
    BY JobMoves DEF Typed, TypeOK, SchedulerTypeOK, GoTo
  <2>2. /\ UNCHANGED at
        /\ \A u \in Threads \ {t} : pc'[u] = pc[u]
    BY JobMoves, MovesTyped DEF Typed, TypeOK
  <2>3. QED
    BY <1>3, <2>1, <2>2 DEF Typed, InPlace
<1>10. QED
  BY <1>8, <1>9

-----------------------------------------------------------------------------
\* The counters under any step.
LEMMA CountsTyped ==
    ASSUME Typed, Next
    PROVE  /\ since' \in Days \cup {0} /\ horizon' \in Days \cup {0}
           /\ narrowest' \in [Days -> Days]
           /\ runs' \in 0 .. MaxRuns /\ restarts' \in 0 .. MaxRestarts
<1> USE DEF Typed, TypeOK, countVars
<1>1. CASE \E j \in Jobs, day \in JobDays : RegisterJob(j, day)
  <2>1. PICK j \in Jobs, day \in JobDays : RegisterJob(j, day)
    BY <1>1
  <2>2. day \in Days
    BY PipelineAssumption
  <2>3. ASSUME NEW from \in StartDays, BuildFor(from, day)
        PROVE  since' \in Days \cup {0} /\ narrowest' \in [Days -> Days]
    BY <2>2, <2>3, PipelineAssumption DEF BuildFor
  <2>4. since' \in Days \cup {0} /\ narrowest' \in [Days -> Days]
    BY <2>1, <2>3 DEF RegisterJob
  <2>5. QED
    BY <2>1, <2>2, <2>4 DEF RegisterJob
<1>2. CASE \E t \in Threads, j \in Jobs : RunJob(t, j)
  BY <1>2, PipelineAssumption DEF RunJob
<1>3. ASSUME NEW t \in Threads, Step(t) PROVE UNCHANGED countVars
  BY <1>3, JobMoves DEF Step, JobStep, ReturnFrom
<1>4. CASE NewAction
  BY <1>4 DEF NewAction
<1>5. CASE Restart
  BY <1>5, PipelineAssumption DEF Restart
<1>6. QED
  BY <1>1, <1>2, <1>3, <1>4, <1>5 DEF Next

\* Types under a step of a thread that has a job.
LEMMA StepKeepsTyped ==
    ASSUME Typed, NEW t \in Threads, Step(t), Next
    PROVE  Typed'
<1> USE DEF Typed, TypeOK
<1>1. CASE BackfillStep(t)
  <2>1. SchedulerTypeOK' /\ Working'
    BY <1>1, BackfillMoves, MovesTyped
  <2>2. QED
    BY <1>1, <2>1, BackfillKeepsHistoryTyped, BackfillKeepsRunTyped, CountsTyped
<1>2. CASE JobStep(t)
  <2>1. SchedulerTypeOK' /\ Working'
    BY <1>2, JobMoves, MovesTyped
  <2>2. QED
    BY <1>2, <2>1, JobKeepsHistoryTyped, JobKeepsRunTyped, CountsTyped
<1>3. CASE ReturnFrom(t)
  <2>1. SchedulerTypeOK'
    BY <1>3 DEF ReturnFrom, Release, SchedulerTypeOK, Steps
  <2>2. Working'
    BY <1>3 DEF ReturnFrom, Release, SchedulerTypeOK, Working, Today
  <2>3. InPlace'
    BY <1>3 DEF ReturnFrom, Release, SchedulerTypeOK, InPlace, backfillVars
  <2>4. HistoryTypeOK' /\ BackfillTypeOK'
    BY <1>3 DEF ReturnFrom, historyVars, backfillVars, HistoryTypeOK, BackfillTypeOK
  <2>5. QED
    BY <2>1, <2>2, <2>3, <2>4, CountsTyped
<1>4. QED
  BY <1>1, <1>2, <1>3 DEF Step, JobStep

\* Types under any step.
LEMMA NextKeepsTyped ==
    ASSUME Typed, Next
    PROVE  Typed'
<1> USE DEF Typed, TypeOK
<1>1. ASSUME NEW j \in Jobs, NEW day \in JobDays, RegisterJob(j, day)
      PROVE  Typed'
  <2>1. SchedulerTypeOK'
    BY <1>1 DEF RegisterJob, Register, SchedulerTypeOK
  <2>2. ASSUME NEW t \in Threads, job[t] # NoJob PROVE dayOf'[job[t]] \in Days
    <3>1. job[t] # j
      BY <1>1, <2>2, HistoryAssumption DEF RegisterJob, Register, Working, Today, Days
    <3>2. QED
      BY <1>1, <2>2, <3>1 DEF RegisterJob, Register, Working, Today, SchedulerTypeOK
  <2>3. Working'
    BY <1>1, <2>2 DEF RegisterJob, Register, Working, Today
  <2>4. InPlace' /\ HistoryTypeOK' /\ BackfillTypeOK'
    BY <1>1 DEF RegisterJob, Register, historyVars, backfillVars, InPlace, HistoryTypeOK,
                BackfillTypeOK
  <2>5. QED
    BY <2>1, <2>3, <2>4, CountsTyped
<1>2. ASSUME NEW t \in Threads, NEW j \in Jobs, RunJob(t, j)
      PROVE  Typed'
  <2>1. SchedulerTypeOK'
    BY <1>2 DEF RunJob, Acquire, SchedulerTypeOK, Steps
  <2>2. dayOf[j] \in Days
    BY <1>2, PipelineAssumption DEF RunJob, Acquire, SchedulerTypeOK
  <2>3. Working'
    BY <1>2, <2>2, SchedulerAssumption DEF RunJob, Acquire, SchedulerTypeOK, Working, Today
  <2>4. InPlace'
    BY <1>2 DEF RunJob, Acquire, backfillVars, SchedulerTypeOK, InPlace
  <2>5. HistoryTypeOK' /\ BackfillTypeOK'
    BY <1>2 DEF RunJob, historyVars, backfillVars, HistoryTypeOK, BackfillTypeOK
  <2>6. QED
    BY <2>1, <2>3, <2>4, <2>5, CountsTyped
<1>3. CASE NewAction
  <2>1. HistoryTypeOK'
    BY <1>3 DEF NewAction, RegisterAction, HistoryTypeOK
  <2>2. SchedulerTypeOK' /\ Working' /\ InPlace' /\ BackfillTypeOK'
    BY <1>3 DEF NewAction, schedulerVars, backfillVars, SchedulerTypeOK, Working, Today, InPlace,
                BackfillTypeOK
  <2>3. QED
    BY <2>1, <2>2, CountsTyped
<1>4. CASE Restart
  <2>1. SchedulerTypeOK' /\ Working'
    BY <1>4 DEF Restart, NewProcess, SchedulerTypeOK, Working, Steps
  <2>2. InPlace'
    BY <1>4 DEF Restart, NewProcess, InPlace
  <2>3. memo' \in [Threads -> Checkpoint] /\ file' \in Checkpoint
    BY <1>4, UnreadableTyped DEF Restart, ForgetAll, BackfillTypeOK
  <2>4. /\ DOMAIN seen' = Threads
        /\ \A t \in Threads : DOMAIN seen'[t] = {"rows", "actions"}
        /\ \A t \in Threads : IsHistory(seen'[t].rows) /\ seen'[t].actions \subseteq Events
    BY <1>4, EmptyTable DEF Restart, ForgetAll, NothingSeen, IsHistory
  <2>5. /\ at' \in [Threads -> 1 .. 8] /\ left' \in [Threads -> SUBSET Symbols]
        /\ fresh' \in [Threads -> BOOLEAN]
    BY <1>4 DEF Restart, ForgetAll
  <2>6. BackfillTypeOK'
    BY <1>4, <2>3, <2>4, <2>5 DEF Restart, BackfillTypeOK
  <2>7. HistoryTypeOK'
    BY <1>4 DEF Restart, historyVars, HistoryTypeOK
  <2>8. QED
    BY <2>1, <2>2, <2>6, <2>7, CountsTyped
<1>5. QED
  BY <1>1, <1>2, <1>3, <1>4, StepKeepsTyped DEF Next

\* The inductive invariant behind type correctness.
LEMMA TypedAlways == Spec => []Typed
<1>1. Init => Typed
  <2> SUFFICES ASSUME Init PROVE Typed
    OBVIOUS
  <2>1. Working
    BY DEF Init, SchedulerInit, Working
  <2>2. InPlace
    BY DEF Init, SchedulerInit, InPlace
  <2>3. QED
    BY <2>1, <2>2, InitTyped DEF Typed
<1>2. Typed /\ [Next]_vars => Typed'
  <2> SUFFICES ASSUME Typed, [Next]_vars PROVE Typed'
    OBVIOUS
  <2>1. CASE UNCHANGED vars
    BY <2>1 DEF vars, historyVars, schedulerVars, backfillVars, Typed, TypeOK, HistoryTypeOK,
                SchedulerTypeOK, BackfillTypeOK, Working, Today, InPlace
  <2>2. QED
    BY <2>1, NextKeepsTyped
<1>3. QED
  BY <1>1, <1>2, PTL DEF Spec

(* Whatever the jobs, threads, days, events and bounds are, every variable of the
   pipeline keeps its type, a thread has a job exactly while it is inside of one,
   and a backfill is in a stage its program has for what it does. *)
THEOREM TypeCorrect == Spec => []TypeOK
<1>1. Typed => TypeOK
  BY DEF Typed
<1>2. QED
  BY <1>1, TypedAlways, PTL

\* Inside of its job no thread takes or releases a lock.
LEMMA OnlyTheSchedulerLocks ==
    ASSUME NEW t \in Threads, BackfillStep(t) \/ JobStep(t)
    PROVE  UNCHANGED <<busy, job>>
  BY BackfillMoves, JobMoves DEF Moves, GoTo, schedulerVars

(* For any number of threads, jobs and restarts: a job never runs twice at once,
   and the busy set holds the jobs that run and no other (AtMostOneRun).  The
   release of a job takes nothing else out of the set because the job is no other
   thread's: the two halves need each other. *)
THEOREM JobsExcludeThemselves == Spec => []AtMostOneRun
<1>1. Init => AtMostOneRun
  BY DEF Init, SchedulerInit, AtMostOneRun
<1>2. Typed /\ AtMostOneRun /\ [Next]_vars => AtMostOneRun'
  <2> SUFFICES ASSUME Typed, AtMostOneRun, [Next]_vars PROVE AtMostOneRun'
    OBVIOUS
  <2>1. CASE UNCHANGED <<busy, job>>
    BY <2>1 DEF AtMostOneRun
  <2>2. ASSUME NEW t \in Threads, NEW j \in Jobs, RunJob(t, j) PROVE AtMostOneRun'
    <3>1. j \notin busy /\ j # NoJob /\ job \in [Threads -> Jobs \cup {NoJob}] /\ job[t] = NoJob
      BY <2>2, SchedulerAssumption DEF RunJob, Acquire, Locked, Typed, TypeOK, SchedulerTypeOK
    <3>2. job' = [job EXCEPT ![t] = j] /\ busy' = busy \cup {j}
      BY <2>2 DEF RunJob, Acquire
    <3>3. QED
      BY <3>1, <3>2 DEF AtMostOneRun
  <2>3. ASSUME NEW t \in Threads, ReturnFrom(t) PROVE AtMostOneRun'
    <3>1. job[t] # NoJob /\ job \in [Threads -> Jobs \cup {NoJob}]
      BY <2>3 DEF ReturnFrom, Release, Typed, TypeOK, SchedulerTypeOK, Working
    <3>2. job' = [job EXCEPT ![t] = NoJob] /\ busy' = busy \ {job[t]}
      BY <2>3 DEF ReturnFrom, Release
    <3>3. QED
      BY <3>1, <3>2 DEF AtMostOneRun
  <2>4. CASE Restart
    BY <2>4 DEF Restart, NewProcess, AtMostOneRun
  <2>5. CASE NewAction \/ \E j \in Jobs, day \in JobDays : RegisterJob(j, day)
    BY <2>1, <2>5 DEF NewAction, RegisterJob, Register, schedulerVars
  <2>6. CASE UNCHANGED vars
    BY <2>1, <2>6 DEF vars, schedulerVars
  <2>7. QED
    BY <2>1, <2>2, <2>3, <2>4, <2>5, <2>6, OnlyTheSchedulerLocks DEF Next, Step, JobStep
<1>3. QED
  BY <1>1, <1>2, TypedAlways, PTL DEF Spec

\* What a thread holds is changed by no other thread.
LEMMA OnlyOneMemo ==
    ASSUME Typed, NEW t \in Threads, BackfillStep(t) \/ JobStep(t), NEW u \in Threads \ {t}
    PROVE  memo'[u] = memo[u] /\ at'[u] = at[u] /\ pc'[u] = pc[u] /\ job'[u] = job[u]
<1>1. CASE BackfillStep(t)
  <2>1. pc'[u] = pc[u] /\ job' = job
    BY <1>1, BackfillMoves, MovesTyped DEF Typed, TypeOK
  <2>2. memo'[u] = memo[u] /\ at'[u] = at[u]
    BY <1>1 DEF BackfillStep, LoadCheckpoint, SkipStage,
         LastStageOver, CollectSymbols, CollectCalendar, PassStage, BeginPrices, StoreSymbol,
         SymbolFails, SymbolInterrupted, SaveLastSymbol, EndPrices, ReadEvents, ReadRows,
         WriteAdjusted, Validate, MarkStage, SaveFails, StageFails, backfillVars,
         Typed, TypeOK, BackfillTypeOK
  <2>3. QED
    BY <2>1, <2>2
<1>2. CASE JobStep(t)
  BY <1>2, JobMoves, MovesTyped DEF Typed, TypeOK
<1>3. QED
  BY <1>1, <1>2

\* What the rest of Next leaves of a thread that has a job.
LEMMA OutsideOfJobs ==
    ASSUME Typed, Next, \A t \in Threads : ~ BackfillStep(t) /\ ~ JobStep(t),
           NEW u \in Threads, job'[u] # NoJob
    PROVE  \/ UNCHANGED <<file, memo, at, left, fresh>> /\ pc'[u] = pc[u] /\ job'[u] = job[u]
           \/ UNCHANGED <<file, memo, at, left, fresh>> /\ pc'[u] = "begin"
<1> USE DEF Typed, TypeOK, SchedulerTypeOK
<1>1. ASSUME NEW t \in Threads, ReturnFrom(t)
      PROVE  UNCHANGED <<file, memo, at, left, fresh>> /\ pc'[u] = pc[u] /\ job'[u] = job[u]
  BY <1>1 DEF ReturnFrom, Release, backfillVars
<1>2. ASSUME NEW t \in Threads, NEW j \in Jobs, RunJob(t, j)
      PROVE  /\ UNCHANGED <<file, memo, at, left, fresh>>
             /\ (pc'[u] = pc[u] /\ job'[u] = job[u]) \/ pc'[u] = "begin"
  BY <1>2 DEF RunJob, Acquire, backfillVars
<1>3. CASE Restart
  BY <1>3 DEF Restart, NewProcess
<1>4. CASE NewAction \/ \E j \in Jobs, day \in JobDays : RegisterJob(j, day)
  BY <1>4 DEF NewAction, RegisterJob, Register, schedulerVars, backfillVars
<1>5. QED
  BY <1>1, <1>2, <1>3, <1>4 DEF Next, Step, JobStep

-----------------------------------------------------------------------------
\* The rows of daily_prices: no look-ahead, a daily update that stays in its day, a
\* repair that is exact.

\* A table whose rows carry only the factors that apply to them as of a day.
Clean(s, table, day) ==
    \A d \in DOMAIN table : \A e \in Events : table[d][e] > 0 => Applies(e, s, d, day)

\* A factor that applies as of a day applies as of any later one.
LEMMA AppliesLater ==
    ASSUME NEW e \in Events, NEW s, NEW d, NEW day \in Nat, NEW later \in Nat, day <= later,
           Applies(e, s, d, day)
    PROVE  Applies(e, s, d, later)
<1>1. e.day \in Nat
  BY HistoryAssumption DEF Event, Days
<1>2. QED
  BY <1>1 DEF Applies

\* So does a clean table stay clean.
LEMMA CleanLater ==
    ASSUME NEW s, NEW table, NEW day \in Nat, NEW later \in Nat, day <= later,
           Clean(s, table, day)
    PROVE  Clean(s, table, later)
  BY AppliesLater DEF Clean

\* Upserts and range queries keep tables clean.
LEMMA CleanTables ==
    ASSUME NEW s, NEW a, NEW b, NEW day, Clean(s, a, day), Clean(s, b, day)
    PROVE  /\ Clean(s, Upserted(a, b), day)
           /\ \A from, to : Clean(s, Between(a, from, to), day)
  BY DEF Clean, Upserted, Between

\* Raw columns, no rows and a collector's rows are clean.
LEMMA CleanSources ==
    ASSUME NEW s, NEW table, NEW day
    PROVE  /\ Clean(s, Raw(table), day) /\ Clean(s, << >>, day)
           /\ \A from, to : Clean(s, Fetched(s, from, to, day), day)
<1>1. Clean(s, Raw(table), day)
  BY DEF Clean, Raw
<1>2. Clean(s, << >>, day)
  BY DEF Clean
<1>3. ASSUME NEW from, NEW to PROVE Clean(s, Fetched(s, from, to, day), day)
  BY DEF Clean, Fetched
<1>4. QED
  BY <1>1, <1>2, <1>3

\* Rows, stored or held by a thread, look no further than the last day a process
\* has worked for.
LooksBack ==
    /\ \A j \in Jobs : dayOf[j] <= horizon
    /\ \A s \in Symbols : Clean(s, rows[s], horizon)
    /\ \A t \in Threads, s \in Symbols : Clean(s, seen[t].rows[s], horizon)

\* No job runs for a day past the horizon.
LEMMA HorizonTyped ==
    ASSUME Typed
    PROVE  /\ horizon \in Nat
           /\ \A j \in Jobs : dayOf[j] \in Nat
           /\ \A t \in Threads : pc[t] # "idle" /\ LooksBack => Today(t) <= horizon
<1>1. horizon \in Nat /\ \A j \in Jobs : dayOf[j] \in Nat
  <2>1. horizon \in Nat
    BY HistoryAssumption DEF Typed, TypeOK, Days
  <2>2. dayOf \in [Jobs -> JobDays \cup {0}] /\ JobDays \cup {0} \subseteq Nat
    BY SchedulerAssumption DEF Typed, TypeOK, SchedulerTypeOK
  <2>3. QED
    BY <2>1, <2>2
<1>2. ASSUME NEW t \in Threads, pc[t] # "idle", LooksBack PROVE Today(t) <= horizon
  <2>1. job[t] \in Jobs
    BY <1>2 DEF Typed, TypeOK, SchedulerTypeOK, Working
  <2>2. QED
    BY <1>2, <2>1 DEF LooksBack, Today
<1>3. QED
  BY <1>1, <1>2

\* The horizon only advances, and registered days stay behind it.
LEMMA HorizonAdvances ==
    ASSUME Typed, LooksBack, [Next]_vars
    PROVE  /\ horizon <= horizon' /\ horizon' \in Nat
           /\ \A j \in Jobs : dayOf'[j] <= horizon'
<1>1. horizon \in Nat /\ \A j \in Jobs : dayOf[j] \in Nat /\ dayOf[j] <= horizon
  BY HorizonTyped DEF LooksBack
<1>2. ASSUME NEW j \in Jobs, NEW day \in JobDays, RegisterJob(j, day)
      PROVE  /\ horizon <= horizon' /\ horizon' \in Nat
             /\ \A i \in Jobs : dayOf'[i] <= horizon'
  <2>1. day \in Nat /\ dayOf \in [Jobs -> JobDays \cup {0}]
    BY SchedulerAssumption DEF Typed, TypeOK, SchedulerTypeOK
  <2>2. horizon' = (IF day > horizon THEN day ELSE horizon) /\ dayOf' = [dayOf EXCEPT ![j] = day]
    BY <1>2 DEF RegisterJob, Register
  <2>3. QED
    BY <1>1, <2>1, <2>2
<1>3. CASE Restart
  BY <1>1, <1>3 DEF Restart, NewProcess
<1>4. CASE UNCHANGED <<horizon, dayOf>>
  BY <1>1, <1>4
<1>5. ASSUME NEW t \in Threads, BackfillStep(t) \/ JobStep(t) PROVE UNCHANGED dayOf
  BY <1>5, BackfillMoves, JobMoves, MovesTyped DEF Typed, TypeOK
<1>6. QED
  BY <1>2, <1>3, <1>4, <1>5, JobMoves
     DEF Next, Step, JobStep, RunJob, Acquire, ReturnFrom, Release, NewAction,
         schedulerVars, countVars, vars

\* Rows that a job writes are clean.
LEMMA WrittenRowsLookBack ==
    ASSUME Typed, LooksBack, NEW t \in Threads, BackfillStep(t) \/ JobStep(t), NEW s \in Symbols
    PROVE  Clean(s, rows'[s], horizon)
<1> DEFINE day == Today(t)
<1>1. /\ day \in Nat /\ horizon \in Nat /\ day <= horizon
      /\ Clean(s, rows[s], horizon) /\ Clean(s, seen[t].rows[s], horizon)
  BY BackfillMoves, JobMoves, TodayIsADay, HorizonTyped DEF LooksBack
<1>2. IsTable(rows[s]) /\ IsTable(seen[t].rows[s]) /\ s \in DOMAIN rows
  BY DEF Typed, TypeOK, HistoryTypeOK, BackfillTypeOK, IsHistory
<1>3. \A from, to : Clean(s, Fetched(s, from, to, day), horizon)
  BY <1>1, CleanSources, CleanLater
<1>4. ASSUME NEW table, IsTable(table), Clean(s, table, horizon), NEW events
      PROVE  Clean(s, Processed(s, table, events, day), horizon)
  <2>1. SUFFICES ASSUME NEW d \in DOMAIN table, NEW e \in Events,
                        Processed(s, table, events, day)[d][e] > 0
                 PROVE  Applies(e, s, d, horizon)
    BY DEF Clean, Processed
  <2>2. table[d][e] \in Nat
    BY <1>4 DEF IsTable, Powers
  <2>3. Processed(s, table, events, day)[d][e]
           = table[d][e] + (IF e \in events /\ Applies(e, s, d, day) THEN 1 ELSE 0)
    BY DEF Processed
  <2>4. table[d][e] > 0 \/ Applies(e, s, d, day)
    BY <2>1, <2>2, <2>3
  <2>5. QED
    BY <1>1, <1>4, <2>4, AppliesLater DEF Clean
<1>5. CASE StoreSymbol(t)
  BY <1>1, <1>2, <1>3, <1>5, CleanTables DEF StoreSymbol
<1>6. CASE WriteAdjusted(t)
  BY <1>1, <1>2, <1>4, <1>6, CleanTables DEF WriteAdjusted
<1>7. CASE DailyCommits(t)
  <2>1. IsTable(DailyRows(t, s)) /\ Clean(s, DailyRows(t, s), horizon)
    <3>1. day \in Nat
      BY <1>1
    <3>2. QED
      BY <1>3, <3>1, FetchedTable DEF DailyRows
  <2>2. Clean(s, Processed(s, DailyRows(t, s), EventsOf(left[t], day), day), horizon)
    BY <1>4, <2>1
  <2>3. QED
    BY <1>1, <1>7, <2>2, CleanTables DEF DailyCommits
<1>8. CASE ApplyCommits(t)
  <2>1. IsTable(Raw(seen[t].rows[s])) /\ Clean(s, Raw(seen[t].rows[s]), horizon)
    BY <1>2, CleanSources DEF Raw, IsTable, Powers
  <2>2. Clean(s, Recalculated(t, s), horizon)
    BY <1>4, <2>1 DEF Recalculated
  <2>3. DOMAIN Recalculated(t, s) = DOMAIN seen[t].rows[s]
    BY DEF Recalculated, Processed, Raw
  <2>4. Clean(s, Rewritten(t, s), horizon)
    BY <1>1, <2>2, <2>3 DEF Clean, Rewritten
  <2>5. QED
    BY <1>1, <1>8, <2>4 DEF ApplyCommits
<1>9. CASE UNCHANGED rows
  BY <1>1, <1>9
<1>10. QED
  BY <1>5, <1>6, <1>7, <1>8, <1>9
     DEF BackfillStep, JobStep, DailyStep, ApplyStep, LoadCheckpoint, SkipStage, LastStageOver,
         CollectSymbols, CollectCalendar, PassStage, BeginPrices, SymbolFails, SymbolInterrupted,
         SaveLastSymbol, EndPrices, ReadEvents, ReadRows, Validate, MarkStage, SaveFails,
         StageFails, DailySkips, DailyCollects, DailyRejects, DailyFails, DailyChecks,
         ApplyReads, ApplyRejects, ApplyFails, historyVars

\* Rows that a job reads and holds are clean.
LEMMA ReadRowsLookBack ==
    ASSUME Typed, LooksBack, NEW t \in Threads, BackfillStep(t) \/ JobStep(t),
           NEW u \in Threads, NEW s \in Symbols
    PROVE  Clean(s, seen'[u].rows[s], horizon)
<1>1. Clean(s, rows[s], horizon) /\ Clean(s, seen[u].rows[s], horizon)
  BY DEF LooksBack
<1>2. t \in DOMAIN seen /\ "rows" \in DOMAIN seen[t] /\ DOMAIN seen = Threads
  BY DEF Typed, TypeOK, BackfillTypeOK
<1>3. CASE ReadRows(t)
  <2>1. seen'[t].rows[s] =
           IF s \in Known THEN Between(rows[s], since, Today(t)) ELSE << >>
    BY <1>2, <1>3 DEF ReadRows
  <2>2. QED
    BY <1>1, <1>2, <1>3, <2>1, CleanTables, CleanSources DEF ReadRows
<1>4. CASE ApplyReads(t)
  <2>1. PICK from \in StartDays : Look(t, from)
    BY <1>4 DEF ApplyReads
  <2>2. seen'[t].rows[s] = Between(rows[s], from, Today(t))
    BY <1>2, <2>1 DEF Look
  <2>3. QED
    BY <1>1, <1>2, <2>1, <2>2, CleanTables DEF Look
<1>5. CASE ReadEvents(t)
  BY <1>1, <1>2, <1>5 DEF ReadEvents
<1>6. CASE UNCHANGED seen
  BY <1>1, <1>6
<1>7. QED
  BY <1>3, <1>4, <1>5, <1>6
     DEF BackfillStep, JobStep, DailyStep, ApplyStep, LoadCheckpoint, SkipStage, LastStageOver,
         CollectSymbols, CollectCalendar, PassStage, BeginPrices, StoreSymbol, SymbolFails,
         SymbolInterrupted, SaveLastSymbol, EndPrices, WriteAdjusted, Validate, MarkStage,
         SaveFails, StageFails, DailySkips, DailyCollects, DailyCommits, DailyRejects, DailyFails,
         DailyChecks, ApplyCommits, ApplyRejects, ApplyFails, backfillVars

\* That rows and copies look back is an invariant.
LEMMA LooksBackAlways == Spec => [](Typed /\ LooksBack)
<1>1. Init => LooksBack
  <2>1. ASSUME Init, NEW s \in Symbols
        PROVE  /\ Clean(s, rows[s], horizon)
               /\ \A t \in Threads : Clean(s, seen[t].rows[s], horizon)
    <3>1. rows[s] = << >> /\ \A t \in Threads : seen[t].rows[s] = << >>
      BY <2>1 DEF Init, HistoryInit, BackfillInit, NothingSeen
    <3>2. QED
      BY <3>1 DEF Clean
  <2>2. Init => \A j \in Jobs : dayOf[j] <= horizon
    BY DEF Init, SchedulerInit
  <2>3. QED
    BY <2>1, <2>2 DEF LooksBack
<1>2. Typed /\ LooksBack /\ [Next]_vars => LooksBack'
  <2> SUFFICES ASSUME Typed, LooksBack, [Next]_vars PROVE LooksBack'
    OBVIOUS
  <2>1. /\ horizon <= horizon' /\ horizon \in Nat /\ horizon' \in Nat
        /\ \A j \in Jobs : dayOf'[j] <= horizon'
    BY HorizonTyped, HorizonAdvances
  <2>2. ASSUME NEW s \in Symbols PROVE Clean(s, rows'[s], horizon')
    <3>1. CASE UNCHANGED rows
      BY <2>1, <3>1, CleanLater DEF LooksBack
    <3>2. ASSUME NEW t \in Threads, BackfillStep(t) \/ JobStep(t)
          PROVE  Clean(s, rows'[s], horizon')
      BY <2>1, <3>2, WrittenRowsLookBack, CleanLater
    <3>3. QED
      BY <3>1, <3>2 DEF Next, Step, JobStep, RegisterJob, RunJob, ReturnFrom, NewAction,
                        RegisterAction, Restart, historyVars, vars
  <2>3. ASSUME NEW u \in Threads, NEW s \in Symbols
        PROVE  Clean(s, seen'[u].rows[s], horizon')
    <3>1. CASE UNCHANGED seen
      BY <2>1, <3>1, CleanLater DEF LooksBack
    <3>2. ASSUME NEW t \in Threads, BackfillStep(t) \/ JobStep(t)
          PROVE  Clean(s, seen'[u].rows[s], horizon')
      BY <2>1, <3>2, ReadRowsLookBack, CleanLater
    <3>3. CASE Restart
      BY <3>3, CleanSources DEF Restart, ForgetAll, NothingSeen
    <3>4. QED
      BY <3>1, <3>2, <3>3 DEF Next, Step, JobStep, RegisterJob, RunJob, ReturnFrom, NewAction,
                        backfillVars, vars
  <2>4. QED
    BY <2>1, <2>2, <2>3 DEF LooksBack
<1>3. QED
  BY <1>1, <1>2, TypedAlways, PTL DEF Spec

(* For any events, sources and interleavings of jobs built for any days: a row
   carries the factor of an event only if the event is of its symbol, later than
   the row and not after the last day a process worked for (NoLookAhead), and so
   does every copy of it that a job still holds and may write back. *)
THEOREM NoFactorLooksAhead == Spec => []NoLookAhead
<1>1. Typed /\ LooksBack => NoLookAhead
  BY DEF LooksBack, Clean, Applies, NoLookAhead
<1>2. QED
  BY <1>1, LooksBackAlways, PTL

\* The commit of corporate_action_apply, row by row.
LEMMA RepairedRow ==
    ASSUME Typed, NEW t \in Threads, ApplyCommits(t), Unwritten(t),
           NEW e \in EventsSeen(t), NEW d \in DOMAIN seen[t].rows[e.symbol]
    PROVE  rows'[e.symbol][d][e] = IF Applies(e, e.symbol, d, Today(t)) THEN 1 ELSE 0
<1> DEFINE s == e.symbol
           was == seen[t].rows[s]
<1>1. e \in Events /\ s \in Symbols
  BY HistoryAssumption DEF EventsSeen, Event, Typed, TypeOK, BackfillTypeOK
<1>2. d \in DOMAIN was /\ d \in DOMAIN rows[s] /\ was[d] = rows[s][d]
  BY <1>1 DEF Unwritten
<1>3. Recalculated(t, s)[d][e] = IF Applies(e, s, d, Today(t)) THEN 1 ELSE 0
  BY <1>1, <1>2 DEF Recalculated, Processed, Raw
<1>4. Rewritten(t, s)[d] = Recalculated(t, s)[d]
  BY <1>2 DEF Rewritten
<1>5. rows'[s] = Rewritten(t, s)
  BY <1>1 DEF ApplyCommits
<1>6. QED
  BY <1>3, <1>4, <1>5

(* For any events and rows: corporate_action_apply, when nobody wrote between its
   read and its commit, leaves each row it read with each factor that applies
   exactly once (RepairIsExact): it starts from the raw columns, and a column it
   does not write has the recalculated value already. *)
THEOREM ApplyRepairsExactly == Spec => RepairIsExact
<1>1. Typed /\ [Next]_vars =>
        \A t \in Threads :
          ApplyCommits(t) /\ Unwritten(t) =>
            \A e \in EventsSeen(t) : \A d \in DOMAIN seen[t].rows[e.symbol] :
                rows'[e.symbol][d][e] = IF Applies(e, e.symbol, d, Today(t)) THEN 1 ELSE 0
  BY RepairedRow
<1>2. QED
  BY <1>1, TypedAlways, PTL DEF Spec, RepairIsExact

-----------------------------------------------------------------------------
\* Each step of a job leaves fewer steps: the bound of EveryStepIsProgress, (8 - at)
\* stages of at most 2 * |Symbols| + 4 steps, is compared step by step.

\* StepsLeft by the step, whether the job is a backfill, its stage and the number
\* of symbols left, with the steps of the stages to come given.
StepsFrom(step, backfill, later, n) ==
    CASE step = "idle" -> 0
      [] step = "end"  -> 1
      [] step = "begin" /\ ~ backfill -> 4
      [] step = "begin" /\ backfill -> 8 * StepsOfAStage + 1
      [] step \in {"collected", "applied"} -> 3
      [] step = "check"  -> 2
      [] step = "stage"  -> later + StepsOfAStage
      [] step = "symbol" -> later + 2 * n + 3
      [] step = "passed" -> later + 2 * n + 2
      [] step = "rows"   -> later + 4
      [] step = "adjust" -> later + 3
      [] step = "mark"   -> later + 2

LaterSteps(stage) == (8 - stage) * StepsOfAStage

\* A stage has a natural number of steps, and one more stage as many more.
LEMMA StageSteps ==
    /\ StepsOfAStage \in Nat /\ StepsOfAStage = 2 * Cardinality(Symbols) + 4
    /\ Cardinality(Symbols) \in Nat
    /\ \A T \in SUBSET Symbols :
          IsFiniteSet(T) /\ Cardinality(T) \in Nat /\ Cardinality(T) <= Cardinality(Symbols)
    /\ \A i \in 1 .. 8 : LaterSteps(i) \in Nat
    /\ \A i \in 1 .. 7 : LaterSteps(i) = LaterSteps(i + 1) + StepsOfAStage
    /\ 8 * StepsOfAStage = LaterSteps(1) + StepsOfAStage
<1>1. IsFiniteSet(Symbols) /\ Cardinality(Symbols) \in Nat
  BY HistoryAssumption, FS_CardinalityType
<1>2. ASSUME NEW T \in SUBSET Symbols
      PROVE  IsFiniteSet(T) /\ Cardinality(T) \in Nat /\ Cardinality(T) <= Cardinality(Symbols)
  BY <1>1, FS_Subset, FS_CardinalityType
<1>3. StepsOfAStage \in Nat /\ StepsOfAStage = 2 * Cardinality(Symbols) + 4
  BY <1>1 DEF StepsOfAStage
<1>4. ASSUME NEW i \in 1 .. 8 PROVE LaterSteps(i) \in Nat
  BY <1>3 DEF LaterSteps
<1>5. ASSUME NEW i \in 1 .. 7 PROVE LaterSteps(i) = LaterSteps(i + 1) + StepsOfAStage
  BY <1>3 DEF LaterSteps
<1>6. 8 * StepsOfAStage = LaterSteps(1) + StepsOfAStage
  BY <1>3 DEF LaterSteps
<1>7. QED
  BY <1>1, <1>2, <1>3, <1>4, <1>5, <1>6

\* StepsLeft in the form above.
LEMMA StepsLeftNow ==
    ASSUME Typed, NEW t \in Threads
    PROVE  StepsLeft(t) = StepsFrom(pc[t], job[t] = "historical_backfill",
                                    LaterSteps(at[t]), Cardinality(left[t]))
<1>1. pc[t] \in Steps /\ at[t] \in 1 .. 8 /\ Cardinality(left[t]) \in Nat
  BY StageSteps DEF Typed, TypeOK, SchedulerTypeOK, BackfillTypeOK
<1>2. /\ StepsOfAStage \in Nat /\ LaterSteps(at[t]) \in Nat
      /\ LaterSteps(at[t]) = (8 - at[t]) * StepsOfAStage
  BY <1>1, StageSteps DEF LaterSteps
<1>3. QED
  BY <1>1, <1>2 DEF StepsLeft, StepsInStage, StepsFrom, Steps

\* The same after a step.
LEMMA StepsLeftNext ==
    ASSUME Typed', NEW t \in Threads
    PROVE  StepsLeft(t)' = StepsFrom(pc'[t], job'[t] = "historical_backfill",
                                     LaterSteps(at'[t]), Cardinality(left'[t]))
<1>1. pc'[t] \in Steps /\ at'[t] \in 1 .. 8 /\ Cardinality(left'[t]) \in Nat
  BY StageSteps DEF Typed, TypeOK, SchedulerTypeOK, BackfillTypeOK
<1>2. /\ StepsOfAStage \in Nat /\ LaterSteps(at'[t]) \in Nat
      /\ LaterSteps(at'[t]) = (8 - at'[t]) * StepsOfAStage
  BY <1>1, StageSteps DEF LaterSteps
<1>3. QED
  BY <1>1, <1>2 DEF StepsLeft, StepsInStage, StepsFrom, Steps

\* Each step of a backfill leaves fewer steps.
LEMMA BackfillStepsLess ==
    ASSUME Typed, Typed', NEW t \in Threads, BackfillStep(t)
    PROVE  StepsLeft(t)' < StepsLeft(t)
<1> DEFINE n      == Cardinality(left[t])
           n1     == Cardinality(left'[t])
           later  == LaterSteps(at[t])
           later1 == LaterSteps(at'[t])
<1>a. /\ StepsLeft(t) = StepsFrom(pc[t], TRUE, later, n)
      /\ StepsLeft(t)' = StepsFrom(pc'[t], TRUE, later1, n1)
      /\ pc'[t] \in Steps
  <2>1. job[t] = "historical_backfill" /\ job' = job /\ pc'[t] \in Steps
    BY BackfillMoves, MovesTyped DEF Typed, TypeOK, SchedulerTypeOK
  <2>2. QED
    BY <2>1, StepsLeftNow, StepsLeftNext
<1>b. /\ n \in Nat /\ n1 \in Nat /\ n1 <= Cardinality(Symbols)
      /\ later \in Nat /\ later1 \in Nat /\ Cardinality(Symbols) \in Nat
      /\ StepsOfAStage = 2 * Cardinality(Symbols) + 4
      /\ at[t] \in 1 .. 8 /\ t \in DOMAIN at /\ t \in DOMAIN left /\ IsFiniteSet(left[t])
      /\ 8 * StepsOfAStage = LaterSteps(1) + StepsOfAStage
  BY StageSteps DEF Typed, TypeOK, BackfillTypeOK
<1>c. \A step \in Steps : GoTo(t, step) => pc'[t] = step
  BY DEF Typed, TypeOK, GoTo, SchedulerTypeOK
<1> HIDE DEF later, later1, n, n1
<1> USE DEF StepsFrom, Steps, Backfilling
<1>1. CASE LoadCheckpoint(t)
  <2>1. pc[t] = "begin" /\ pc'[t] = "stage" /\ later1 = LaterSteps(1)
    BY <1>b, <1>c, <1>1 DEF LoadCheckpoint, later1
  <2>2. QED
    BY <1>a, <1>b, <2>1
<1>2. CASE SkipStage(t) \/ MarkStage(t)
  <2>1. pc[t] \in {"stage", "mark"} /\ pc'[t] = "stage" /\ at[t] <= 7 /\ at'[t] = at[t] + 1
    BY <1>b, <1>c, <1>2 DEF SkipStage, MarkStage, schedulerVars, Typed, InPlace
  <2>2. later = later1 + StepsOfAStage
    BY <1>b, <2>1, StageSteps DEF later, later1
  <2>3. QED
    BY <1>a, <1>b, <2>1, <2>2
<1>3. CASE LastStageOver(t) \/ SaveFails(t) \/ StageFails(t) \/ SymbolInterrupted(t)
  <2>1. pc'[t] = "end" /\ pc[t] \in {"stage", "mark", "passed", "rows", "adjust", "symbol"}
    BY <1>c, <1>3 DEF LastStageOver, SaveFails, StageFails, SymbolInterrupted, InStage
  <2>2. QED
    BY <1>a, <1>b, <2>1
<1>4. CASE CollectSymbols(t) \/ CollectCalendar(t) \/ PassStage(t) \/ Validate(t)
  <2>1. pc[t] = "stage" /\ pc'[t] = "mark" /\ UNCHANGED at
    BY <1>c, <1>4 DEF CollectSymbols, CollectCalendar, PassStage, Validate, InStage, backfillVars
  <2>2. QED
    BY <1>a, <1>b, <2>1 DEF later, later1
<1>5. CASE BeginPrices(t)
  <2>1. pc[t] = "stage" /\ pc'[t] = "symbol" /\ UNCHANGED at
    BY <1>c, <1>5 DEF BeginPrices, InStage
  <2>2. QED
    BY <1>a, <1>b, <2>1 DEF later, later1
<1>6. CASE StoreSymbol(t) \/ SymbolFails(t)
  <2>1. pc[t] = "symbol" /\ pc'[t] = "passed" /\ UNCHANGED <<at, left>>
    BY <1>c, <1>6 DEF StoreSymbol, SymbolFails, backfillVars
  <2>2. QED
    BY <1>a, <1>b, <2>1 DEF later, later1, n, n1
<1>7. CASE SaveLastSymbol(t)
  <2>1. pc[t] = "passed" /\ pc'[t] = "symbol" /\ UNCHANGED at /\ left'[t] = left[t] \ {Turn(t)}
    BY <1>b, <1>c, <1>7 DEF SaveLastSymbol
  <2>2. Turn(t) \in left[t]
    BY <2>1, TurnIsLeft DEF Typed, InPlace
  <2>3. n1 = n - 1
    <3>1. Cardinality(left[t] \ {Turn(t)}) = Cardinality(left[t]) - 1
      BY <1>b, <2>2, FS_RemoveElement
    <3>2. QED
      BY <2>1, <3>1 DEF n, n1
  <2>4. QED
    BY <1>a, <1>b, <2>1, <2>3 DEF later, later1
<1>8. CASE EndPrices(t)
  <2>1. pc[t] = "symbol" /\ pc'[t] = "mark" /\ UNCHANGED at
    BY <1>c, <1>8 DEF EndPrices
  <2>2. QED
    BY <1>a, <1>b, <2>1 DEF later, later1
<1>9. CASE ReadEvents(t)
  <2>1. /\ pc[t] = "stage" /\ UNCHANGED at
        /\ \/ pc'[t] = "mark"
           \/ pc'[t] = "rows" /\ EventsOf(Known, Today(t)) # {}
    BY <1>c, <1>9 DEF ReadEvents, InStage
  <2>2. EventsOf(Known, Today(t)) # {} => Cardinality(Symbols) # 0
    <3>1. EventsOf(Known, Today(t)) # {} => Symbols # {}
      BY DEF EventsOf, Known
    <3>2. QED
      BY <3>1, HistoryAssumption, FS_EmptySet
  <2>3. QED
    BY <1>a, <1>b, <2>1, <2>2 DEF later, later1
<1>10. CASE ReadRows(t) \/ WriteAdjusted(t)
  <2>1. /\ UNCHANGED at
        /\ \/ pc[t] = "rows" /\ pc'[t] \in {"end", "adjust"}
           \/ pc[t] = "adjust" /\ pc'[t] = "mark"
    BY <1>c, <1>10 DEF ReadRows, WriteAdjusted, backfillVars
  <2>2. QED
    BY <1>a, <1>b, <2>1 DEF later, later1
<1>11. QED
  BY <1>1, <1>2, <1>3, <1>4, <1>5, <1>6, <1>7, <1>8, <1>9, <1>10 DEF BackfillStep

\* So does each step of the other jobs, and the return from a job.
LEMMA JobStepsLess ==
    ASSUME Typed, Typed', NEW t \in Threads, JobStep(t) \/ ReturnFrom(t)
    PROVE  StepsLeft(t)' < StepsLeft(t)
<1>1. /\ StepsLeft(t) = StepsFrom(pc[t], job[t] = "historical_backfill",
                                  LaterSteps(at[t]), Cardinality(left[t]))
      /\ StepsLeft(t)' = StepsFrom(pc'[t], job'[t] = "historical_backfill",
                                   LaterSteps(at'[t]), Cardinality(left'[t]))
  BY StepsLeftNow, StepsLeftNext
<1>2. t \in DOMAIN pc /\ \A step \in Steps : GoTo(t, step) => pc'[t] = step
  BY DEF Typed, TypeOK, GoTo, SchedulerTypeOK
<1> USE DEF Steps
<1>3. CASE JobStep(t)
  <2>1. \/ pc[t] = "begin" /\ pc'[t] \in {"collected", "applied", "end"}
        \/ pc[t] = "collected" /\ pc'[t] \in {"check", "end"}
        \/ pc[t] \in {"check", "applied"} /\ pc'[t] = "end"
    BY <1>2, <1>3
       DEF JobStep, DailyStep, ApplyStep, Updating, Applying, DailySkips, DailyCollects,
           DailyCommits, DailyRejects, DailyFails, DailyChecks, ApplyReads, ApplyCommits,
           ApplyRejects, ApplyFails
  <2>2. job[t] # "historical_backfill"
    BY <1>3, JobMoves
  <2>3. QED
    BY <1>1, <2>1, <2>2 DEF StepsFrom
<1>4. CASE ReturnFrom(t)
  <2>1. pc[t] = "end" /\ pc'[t] = "idle"
    BY <1>2, <1>4 DEF ReturnFrom, Release
  <2>2. QED
    BY <1>1, <2>1 DEF StepsFrom
<1>5. QED
  BY <1>3, <1>4

(* For any number of symbols and whatever other threads and faults do: each step of
   a job brings its end nearer (EveryStepIsProgress).  With NobodyStuck, of which
   NobodyWaits proves what is not about ENABLED, every call of run_job returns. *)
THEOREM JobsMakeProgress == Spec => EveryStepIsProgress
<1>1. Typed /\ [Next]_vars =>
        \A t \in Threads : Step(t) => StepsLeft(t)' < StepsLeft(t)
  <2>1. ASSUME Typed, NEW t \in Threads, Step(t) PROVE StepsLeft(t)' < StepsLeft(t)
    <3>1. Typed'
      BY <2>1, NextKeepsTyped DEF Next
    <3>2. QED
      BY <2>1, <3>1, BackfillStepsLess, JobStepsLess DEF Step, JobStep
  <2>2. QED
    BY <2>1
<1>2. QED
  BY <1>1, TypedAlways, PTL DEF Spec, EveryStepIsProgress

(* NobodyStuck is about ENABLED, which tlapm does not reason about.  What it rests on
   is proved here: a thread inside a job is at a place of that job's program
   (InItsProgram), and there the conditions some step that needs no fault puts on the
   present state are met (HasAStep).  The rest of such a step are assignments. *)

Program(j) ==
    CASE j = "historical_backfill" ->
           {"begin", "stage", "symbol", "passed", "rows", "adjust", "mark", "end"}
      [] j = "daily_update" -> {"begin", "collected", "check", "end"}
      [] j = "corporate_action_apply" -> {"begin", "applied", "end"}

InItsProgram == \A t \in Threads : job[t] # NoJob => pc[t] \in Program(job[t])

\* The guards of BackfillStep, DailyStep, ApplyStep and ReturnFrom, in their order.
BackfillHasAStep(t) ==
    \/ Backfilling(t, "begin")
    \/ Backfilling(t, "stage") /\ at[t] <= 7 /\ Stages[at[t]] \in memo[t].done
    \/ Backfilling(t, "stage") /\ at[t] = 8
    \/ \E k \in 1 .. 7 : InStage(t, k)
    \/ Backfilling(t, "symbol") /\ (left[t] # {} => Turn(t) \in Symbols)
    \/ Backfilling(t, "passed") /\ Turn(t) \in left[t]
    \/ Backfilling(t, "rows") \/ Backfilling(t, "adjust")
    \/ Backfilling(t, "mark") /\ at[t] <= 7

DailyHasAStep(t) ==
    \/ Updating(t, "begin")
    \/ Updating(t, "collected") /\ ~Poisoned(EventsOf(left[t], Today(t)))
    \/ Updating(t, "collected") /\ Poisoned(EventsOf(left[t], Today(t)))
    \/ Updating(t, "check")

ApplyHasAStep(t) ==
    \/ Applying(t, "begin") /\ \E from \in StartDays : from <= Today(t)
    \/ Applying(t, "applied") /\ ~Poisoned(EventsSeen(t))
    \/ Applying(t, "applied") /\ Poisoned(EventsSeen(t))

HasAStep(t) == BackfillHasAStep(t) \/ DailyHasAStep(t) \/ ApplyHasAStep(t) \/ pc[t] = "end"

\* Each step of a job stays in its program.
LEMMA StaysInItsProgram ==
    ASSUME NEW t \in Threads, BackfillStep(t) \/ JobStep(t)
    PROVE  UNCHANGED schedulerVars \/ \E step \in Program(job[t]) : GoTo(t, step)
<1>1. CASE BackfillStep(t)
  <2>1. job[t] = "historical_backfill"
    BY <1>1, BackfillMoves
  <2>2. \/ UNCHANGED schedulerVars
        \/ \E step \in {"stage", "symbol", "passed", "rows", "adjust", "mark", "end"} : GoTo(t, step)
    BY <1>1 DEF BackfillStep, LoadCheckpoint, SkipStage, LastStageOver, CollectSymbols,
       CollectCalendar, PassStage, BeginPrices, StoreSymbol, SymbolFails, SymbolInterrupted,
       SaveLastSymbol, EndPrices, ReadEvents, ReadRows, WriteAdjusted, Validate, MarkStage,
       SaveFails, StageFails
  <2>3. QED
    BY <2>1, <2>2 DEF Program
<1>2. CASE DailyStep(t)
  <2>1. job[t] = "daily_update" /\ \E step \in {"collected", "check", "end"} : GoTo(t, step)
    BY <1>2 DEF DailyStep, Updating, DailySkips, DailyCollects, DailyCommits, DailyRejects,
       DailyFails, DailyChecks
  <2>2. QED
    BY <2>1 DEF Program
<1>3. CASE ApplyStep(t)
  <2>1. job[t] = "corporate_action_apply" /\ \E step \in {"applied", "end"} : GoTo(t, step)
    BY <1>3 DEF ApplyStep, Applying, ApplyReads, ApplyCommits, ApplyRejects, ApplyFails
  <2>2. QED
    BY <2>1 DEF Program
<1>4. QED
  BY <1>1, <1>2, <1>3 DEF JobStep

LEMMA ProgramKept ==
    ASSUME Typed, InItsProgram, [Next]_vars
    PROVE  InItsProgram'
<1> USE DEF Typed, TypeOK, SchedulerTypeOK, InItsProgram
<1>1. CASE UNCHANGED vars
  BY <1>1 DEF vars, schedulerVars
<1>2. ASSUME NEW j \in Jobs, NEW day \in JobDays, RegisterJob(j, day) PROVE InItsProgram'
  BY <1>2 DEF RegisterJob, Register
<1>3. ASSUME NEW t \in Threads, NEW j \in Jobs, RunJob(t, j) PROVE InItsProgram'
  <2>1. "begin" \in Program(j)
    BY PipelineAssumption DEF Program
  <2>2. job' = [job EXCEPT ![t] = j] /\ pc' = [pc EXCEPT ![t] = "begin"]
    BY <1>3 DEF RunJob, Acquire
  <2>3. QED
    BY <2>1, <2>2
<1>4. ASSUME NEW t \in Threads, Step(t) PROVE InItsProgram'
  <2>1. CASE BackfillStep(t) \/ JobStep(t)
    <3>1. CASE UNCHANGED schedulerVars
      BY <3>1 DEF schedulerVars
    <3>2. CASE \E step \in Program(job[t]) : GoTo(t, step)
      BY <3>2 DEF GoTo
    <3>3. QED
      BY <2>1, <3>1, <3>2, StaysInItsProgram
  <2>2. CASE ReturnFrom(t)
    BY <2>2 DEF ReturnFrom, Release
  <2>3. QED
    BY <1>4, <2>1, <2>2 DEF Step, JobStep
<1>5. CASE NewAction
  BY <1>5 DEF NewAction, schedulerVars
<1>6. CASE Restart
  BY <1>6 DEF Restart, NewProcess
<1>7. QED
  BY <1>1, <1>2, <1>3, <1>4, <1>5, <1>6 DEF Next

(* Whatever the checkpoint says, whatever failed and whoever else is at work: a thread
   inside a job is never at a place where its job cannot go on (scheduler.py run_job).
   No step of a job waits for a lock, for another job or for a fault. *)
THEOREM NobodyWaits == Spec => [](\A t \in Threads : job[t] # NoJob => HasAStep(t))
<1>1. Init => InItsProgram
  BY DEF Init, SchedulerInit, InItsProgram
<1>2. Typed /\ InItsProgram /\ [Next]_vars => InItsProgram'
  BY ProgramKept
<1>3. Typed /\ InItsProgram => \A t \in Threads : job[t] # NoJob => HasAStep(t)
  <2> SUFFICES ASSUME Typed, InItsProgram, NEW t \in Threads, job[t] # NoJob PROVE HasAStep(t)
    OBVIOUS
  <2>1. /\ pc[t] \in Program(job[t]) /\ at[t] \in 1 .. 8 /\ pc[t] # "idle"
        /\ job[t] \in {"historical_backfill", "daily_update", "corporate_action_apply"}
    BY PipelineAssumption
       DEF InItsProgram, Typed, Working, TypeOK, SchedulerTypeOK, BackfillTypeOK
  <2>2. CASE job[t] = "historical_backfill"
    <3>1. left[t] # {} => Turn(t) \in left[t] /\ Turn(t) \in Symbols
      BY TurnIsLeft DEF Typed
    <3>2. /\ pc[t] = "passed" => left[t] # {}
          /\ pc[t] = "mark" => at[t] <= 7
      BY DEF Typed, InPlace
    <3>3. pc[t] \in {"begin", "stage", "symbol", "passed", "rows", "adjust", "mark", "end"}
      BY <2>1, <2>2 DEF Program
    <3>4. CASE pc[t] = "stage"
      <4>1. CASE at[t] = 8
        BY <2>2, <3>4, <4>1 DEF HasAStep, BackfillHasAStep, Backfilling
      <4>2. CASE at[t] # 8
        <5>1. at[t] \in 1 .. 7
          BY <2>1, <4>2
        <5>2. QED
          BY <2>2, <3>4, <5>1 DEF HasAStep, BackfillHasAStep, Backfilling, InStage
      <4>3. QED
        BY <4>1, <4>2
    <3>5. CASE pc[t] # "stage"
      BY <2>2, <3>1, <3>2, <3>3, <3>5 DEF HasAStep, BackfillHasAStep, Backfilling
    <3>6. QED
      BY <3>4, <3>5
  <2>3. CASE job[t] = "daily_update"
    BY <2>1, <2>3 DEF Program, HasAStep, DailyHasAStep, Updating
  <2>4. CASE job[t] = "corporate_action_apply"
    <3>1. 1 <= Today(t)
      <4>1. Today(t) \in Nat \ {0}
        BY <2>1, TodayIsADay
      <4>2. QED
        BY <4>1
    <3>2. \E from \in StartDays : from <= Today(t)
      BY <3>1, PipelineAssumption
    <3>3. QED
      BY <2>1, <2>4, <3>2 DEF Program, HasAStep, ApplyHasAStep, Applying
  <2>5. QED
    BY <2>1, <2>2, <2>3, <2>4
<1>4. QED
  BY <1>1, <1>2, <1>3, TypedAlways, PTL DEF Spec

-----------------------------------------------------------------------------
(* What the checkpoint file says.  First its form (AllInOrder), then that it is
   true of the tables (AllBacked): facts once stored are never taken back (Grows),
   so that an old file, or one that another run has overwritten, can say too little
   but nothing false. *)

\* A stage not done that follows the ones that are done is the next one.
LEMMA NextStageIsNew ==
    ASSUME NEW k \in 0 .. 7, NEW i \in 1 .. 7, i <= k + 1, Stages[i] \notin FirstStages(k)
    PROVE  k = i - 1
  BY StageOrder

\* Marking the next stage gives one stage more.
LEMMA OneStageMore ==
    ASSUME NEW i \in 1 .. 7
    PROVE  FirstStages(i - 1) \cup {Stages[i]} = FirstStages(i)
<1>1. 1 .. i = (1 .. i - 1) \cup {i}
  OBVIOUS
<1>2. QED
  BY <1>1 DEF FirstStages

\* The checkpoint a backfill holds: what it has done when it is where it is.
MemoInOrder(t) ==
    job[t] = "historical_backfill" =>
        /\ pc[t] = "stage" =>
              \E k \in 0 .. 7 : /\ memo[t].done = FirstStages(k)
                                /\ memo[t].last # 0 => k = 3
                                /\ at[t] <= k + 1
        /\ pc[t] \in {"symbol", "passed"} => memo[t].done = FirstStages(3)
        /\ pc[t] \in {"rows", "adjust", "mark"} =>
              memo[t].done = FirstStages(at[t] - 1) /\ memo[t].last = 0

AllInOrder == CheckpointInOrder /\ \A t \in Threads : MemoInOrder(t)

\* A checkpoint that starts over is in order.
LEMMA UnreadableInOrder ==
    /\ InOrder(Unreadable)
    /\ \A d : InOrder([Unreadable EXCEPT !.asOf = d])
<1>1. FirstStages(0) = {}
  BY DEF FirstStages
<1>2. QED
  BY <1>1 DEF InOrder, Unreadable

\* Where a stage that is not done yet is entered.
LEMMA StageEntered ==
    ASSUME Typed, AllInOrder, NEW t \in Threads, NEW i \in 1 .. 7, InStage(t, i)
    PROVE  /\ memo[t].done = FirstStages(i - 1)
           /\ i # 4 => memo[t].last = 0
<1>1. PICK k \in 0 .. 7 : /\ memo[t].done = FirstStages(k)
                          /\ memo[t].last # 0 => k = 3
                          /\ at[t] <= k + 1
  BY DEF InStage, Backfilling, AllInOrder, MemoInOrder
<1>2. k = i - 1
  BY <1>1, NextStageIsNew DEF InStage
<1>3. QED
  BY <1>1, <1>2

\* Order under a step of a backfill: what it holds and what it writes.
LEMMA BackfillKeepsOrder ==
    ASSUME Typed, AllInOrder, NEW t \in Threads, BackfillStep(t)
    PROVE  InOrder(file') /\ MemoInOrder(t)'
<1>a. /\ job' = job /\ job[t] = "historical_backfill"
      /\ \A step \in Steps : GoTo(t, step) => pc'[t] = step
  BY BackfillMoves, MovesTyped DEF Typed, TypeOK, GoTo, SchedulerTypeOK
<1>b. /\ memo[t] \in Checkpoint /\ at[t] \in 1 .. 8
      /\ \A c \in Checkpoint : memo' = [memo EXCEPT ![t] = c] => memo'[t] = c
      /\ InOrder(file) /\ MemoInOrder(t) /\ InOrder(Unreadable)
  BY UnreadableInOrder DEF Typed, TypeOK, BackfillTypeOK, AllInOrder, CheckpointInOrder
<1>c. t \in DOMAIN memo /\ t \in DOMAIN at
  BY DEF Typed, TypeOK, BackfillTypeOK
<1> USE DEF Steps, Backfilling, MemoInOrder
<1>1. CASE LoadCheckpoint(t)
  <2>1. InOrder(memo'[t]) /\ at'[t] = 1 /\ file' = file /\ pc'[t] = "stage"
    BY <1>a, <1>b, <1>c, <1>1, UnreadableInOrder DEF LoadCheckpoint
  <2>2. QED
    BY <1>b, <2>1 DEF InOrder
<1>2. CASE SkipStage(t)
  <2>1. PICK k \in 0 .. 7 : /\ memo[t].done = FirstStages(k)
                            /\ memo[t].last # 0 => k = 3
                            /\ at[t] <= k + 1
    BY <1>a, <1>b, <1>2 DEF SkipStage
  <2>2. at[t] <= k
    BY <1>b, <1>2, <2>1, StageOrder DEF SkipStage
  <2>3. at'[t] = at[t] + 1 /\ at'[t] <= k + 1 /\ UNCHANGED <<file, memo, pc>>
    BY <1>b, <1>c, <1>2, <2>2 DEF SkipStage, schedulerVars
  <2>4. QED
    BY <1>a, <1>b, <1>2, <2>1, <2>3 DEF SkipStage
<1>3. CASE LastStageOver(t)
  BY <1>a, <1>b, <1>3 DEF LastStageOver, backfillVars
<1>4. CASE CollectSymbols(t) \/ CollectCalendar(t) \/ PassStage(t) \/ Validate(t)
  <2>1. PICK i \in {1, 2, 3, 6, 7} : InStage(t, i)
    BY <1>4 DEF CollectSymbols, CollectCalendar, PassStage, Validate
  <2>2. memo[t].done = FirstStages(at[t] - 1) /\ memo[t].last = 0
    BY <2>1, StageEntered DEF InStage
  <2>3. UNCHANGED <<file, memo, at>> /\ pc'[t] = "mark"
    BY <1>a, <1>4 DEF CollectSymbols, CollectCalendar, PassStage, Validate, backfillVars
  <2>4. QED
    BY <1>b, <2>2, <2>3
<1>5. CASE BeginPrices(t)
  <2>1. memo[t].done = FirstStages(3)
    BY <1>5, StageEntered DEF BeginPrices
  <2>2. UNCHANGED <<file, memo, at>> /\ pc'[t] = "symbol"
    BY <1>a, <1>5 DEF BeginPrices
  <2>3. QED
    BY <1>b, <2>1, <2>2
<1>6. CASE StoreSymbol(t) \/ SymbolFails(t)
  BY <1>a, <1>b, <1>6 DEF StoreSymbol, SymbolFails, backfillVars
<1>7. CASE SymbolInterrupted(t) \/ SaveLastSymbol(t)
  <2>1. memo[t].done = FirstStages(3)
    BY <1>a, <1>b, <1>7 DEF SymbolInterrupted, SaveLastSymbol
  <2>2. memo'[t].done = FirstStages(3) /\ file' = memo'[t] /\ pc'[t] \in {"end", "symbol"}
    BY <1>a, <1>b, <1>c, <1>7, <2>1 DEF SymbolInterrupted, SaveLastSymbol, Checkpoint
  <2>3. InOrder(file')
    BY <2>2 DEF InOrder
  <2>4. QED
    BY <2>2, <2>3
<1>8. CASE EndPrices(t)
  <2>1. memo[t].done = FirstStages(3) /\ at[t] = 4
    BY <1>a, <1>b, <1>8 DEF EndPrices, Typed, InPlace
  <2>2. /\ memo'[t].done = FirstStages(3) /\ memo'[t].last = 0
        /\ UNCHANGED <<file, at>> /\ pc'[t] = "mark"
    BY <1>a, <1>b, <1>c, <1>8, <2>1 DEF EndPrices, Checkpoint
  <2>3. QED
    BY <1>b, <2>1, <2>2
<1>9. CASE ReadEvents(t)
  <2>1. memo[t].done = FirstStages(at[t] - 1) /\ memo[t].last = 0
    BY <1>9, StageEntered DEF ReadEvents, InStage
  <2>2. UNCHANGED <<file, memo, at>> /\ pc'[t] \in {"mark", "rows"}
    BY <1>a, <1>9 DEF ReadEvents
  <2>3. QED
    BY <1>b, <2>1, <2>2
<1>10. CASE ReadRows(t) \/ WriteAdjusted(t)
  <2>1. memo[t].done = FirstStages(at[t] - 1) /\ memo[t].last = 0
    BY <1>a, <1>b, <1>10 DEF ReadRows, WriteAdjusted
  <2>2. UNCHANGED <<file, memo, at>> /\ pc'[t] \in {"end", "adjust", "mark"}
    BY <1>a, <1>10 DEF ReadRows, WriteAdjusted, backfillVars
  <2>3. QED
    BY <1>b, <2>1, <2>2
<1>11. CASE MarkStage(t)
  <2>1. /\ memo[t].done = FirstStages(at[t] - 1) /\ memo[t].last = 0
        /\ at[t] \in 1 .. 7
    BY <1>a, <1>b, <1>11 DEF MarkStage, Typed, InPlace
  <2>2. /\ memo'[t].done = memo[t].done \cup {Stages[at[t]]} /\ memo'[t].last = 0
        /\ file' = memo'[t] /\ at'[t] = at[t] + 1 /\ pc'[t] = "stage"
    BY <1>a, <1>b, <1>c, <1>11, <2>1 DEF MarkStage, Checkpoint
  <2>3. memo'[t].done = FirstStages(at[t])
    BY <2>1, <2>2, OneStageMore
  <2>4. QED
    BY <2>1, <2>2, <2>3 DEF InOrder
<1>12. CASE SaveFails(t) \/ StageFails(t)
  BY <1>a, <1>b, <1>12 DEF SaveFails, StageFails
<1>13. QED
  BY <1>1, <1>2, <1>3, <1>4, <1>5, <1>6, <1>7, <1>8, <1>9, <1>10, <1>11, <1>12
     DEF BackfillStep

\* The order of the file and of what every thread holds is an invariant.
LEMMA AllInOrderAlways == Spec => [](Typed /\ AllInOrder)
<1>1. Init => AllInOrder
  BY UnreadableInOrder
     DEF Init, SchedulerInit, BackfillInit, AllInOrder, CheckpointInOrder, MemoInOrder
<1>2. Typed /\ AllInOrder /\ [Next]_vars => AllInOrder'
  <2> SUFFICES ASSUME Typed, AllInOrder, [Next]_vars PROVE AllInOrder'
    OBVIOUS
  <2> USE DEF AllInOrder, CheckpointInOrder
  <2>1. ASSUME NEW t \in Threads, BackfillStep(t) PROVE AllInOrder'
    <3>1. ASSUME NEW u \in Threads \ {t} PROVE MemoInOrder(u)'
      BY <2>1, OnlyOneMemo DEF MemoInOrder
    <3>2. QED
      BY <2>1, <3>1, BackfillKeepsOrder
  <2>2. ASSUME NEW t \in Threads, JobStep(t) PROVE AllInOrder'
    <3>1. ASSUME NEW u \in Threads \ {t} PROVE MemoInOrder(u)'
      BY <2>2, OnlyOneMemo DEF MemoInOrder
    <3>2. job'[t] # "historical_backfill" /\ UNCHANGED file
      BY <2>2, JobMoves, MovesTyped DEF Typed, TypeOK
    <3>3. QED
      BY <3>1, <3>2 DEF MemoInOrder
  <2>3. CASE Next /\ \A t \in Threads : ~ BackfillStep(t) /\ ~ JobStep(t)
    <3>1. ASSUME NEW u \in Threads PROVE MemoInOrder(u)'
      <4>1. CASE job'[u] = NoJob
        BY <2>3, <4>1, NextKeepsTyped DEF Typed, Working, MemoInOrder
      <4>2. CASE job'[u] # NoJob
        BY <2>3, <4>2, OutsideOfJobs DEF MemoInOrder
      <4>3. QED
        BY <4>1, <4>2
    <3>2. UNCHANGED file \/ file' = Unreadable
      BY <2>3 DEF Next, Step, JobStep, RegisterJob, RunJob, ReturnFrom, NewAction, Restart,
                  backfillVars
    <3>3. QED
      BY <3>1, <3>2, UnreadableInOrder
  <2>4. CASE UNCHANGED vars
    BY <2>4 DEF vars, backfillVars, schedulerVars, MemoInOrder
  <2>5. QED
    BY <2>1, <2>2, <2>3, <2>4
<1>3. QED
  BY <1>1, <1>2, TypedAlways, PTL DEF Spec

(* However often the process ends, a save fails or a file is cut off: the
   checkpoint on disk has the first stages of the seven and names a symbol only
   when three are done (CheckpointInOrder).  It is what a thread holds when it
   saves, hence the invariant on every thread's own checkpoint. *)
THEOREM CheckpointAlwaysInOrder == Spec => []CheckpointInOrder
<1>1. AllInOrder => CheckpointInOrder
  BY DEF AllInOrder
<1>2. QED
  BY <1>1, AllInOrderAlways, PTL

-----------------------------------------------------------------------------
\* No job takes a row, a symbol, a session or a report away.
RowsGrow == \A s \in Symbols : DOMAIN rows[s] \subseteq DOMAIN rows'[s]
KnownGrows == \A s \in Symbols : listed[s] # 0 => listed'[s] # 0
ReportsGrow ==
    /\ calendar \subseteq calendar'
    /\ skipped \subseteq skipped' /\ alerted \subseteq alerted' /\ unchecked \subseteq unchecked'
\* No backfill widens the range that all of them have covered.
RangesNarrow ==
    \A day \in Days, d \in Days : narrowest'[day] <= d => narrowest[day] <= d
Grows == RowsGrow /\ KnownGrows /\ ReportsGrow /\ RangesNarrow

\* An upsert takes no day away.
LEMMA UpsertedGrows ==
    ASSUME NEW a, NEW b
    PROVE  DOMAIN a \subseteq DOMAIN Upserted(a, b)
  BY DEF Upserted

\* No step takes a row away.
LEMMA RowsNeverShrink ==
    ASSUME Typed, [Next]_vars
    PROVE  RowsGrow
<1>0. DOMAIN rows = Symbols
  BY DEF Typed, TypeOK, HistoryTypeOK, IsHistory
<1>1. ASSUME NEW t \in Threads, BackfillStep(t) PROVE RowsGrow
  <2>1. CASE StoreSymbol(t)
    BY <1>0, <2>1, UpsertedGrows DEF StoreSymbol, RowsGrow
  <2>2. CASE WriteAdjusted(t)
    BY <2>2, UpsertedGrows DEF WriteAdjusted, RowsGrow
  <2>3. CASE UNCHANGED rows
    BY <2>3 DEF RowsGrow
  <2>4. QED
    BY <1>1, <2>1, <2>2, <2>3
       DEF BackfillStep, LoadCheckpoint, SkipStage, LastStageOver, CollectSymbols,
           CollectCalendar, PassStage, BeginPrices, SymbolFails, SymbolInterrupted,
           SaveLastSymbol, EndPrices, ReadEvents, ReadRows, Validate, MarkStage, SaveFails,
           StageFails, historyVars
<1>2. ASSUME NEW t \in Threads, JobStep(t) PROVE RowsGrow
  <2>1. CASE DailyCommits(t)
    BY <2>1, UpsertedGrows DEF DailyCommits, RowsGrow
  <2>2. CASE ApplyCommits(t)
    BY <2>2 DEF ApplyCommits, Rewritten, RowsGrow
  <2>3. CASE UNCHANGED rows
    BY <2>3 DEF RowsGrow
  <2>4. QED
    BY <1>2, <2>1, <2>2, <2>3
       DEF JobStep, DailyStep, ApplyStep, DailySkips, DailyCollects, DailyRejects, DailyFails,
           DailyChecks, ApplyReads, ApplyRejects, ApplyFails, historyVars
<1>3. CASE UNCHANGED rows
  BY <1>3 DEF RowsGrow
<1>4. QED
  BY <1>1, <1>2, <1>3
     DEF Next, Step, JobStep, RegisterJob, RunJob, ReturnFrom, NewAction, RegisterAction, Restart,
         vars, historyVars

\* No step takes a symbol away.
LEMMA KnownNeverShrinks ==
    ASSUME Typed, [Next]_vars
    PROVE  KnownGrows
<1>1. ASSUME NEW t \in Threads, CollectSymbols(t) \/ DailyCommits(t) PROVE KnownGrows
  <2>1. Today(t) # 0
    BY <1>1, TodayIsADay DEF CollectSymbols, InStage, Backfilling, DailyCommits, Updating
  <2>2. QED
    BY <1>1, <2>1 DEF CollectSymbols, DailyCommits, UpsertSymbols, KnownGrows
<1>2. CASE UNCHANGED listed
  BY <1>2 DEF KnownGrows
<1>3. QED
  BY <1>1, <1>2
     DEF Next, Step, BackfillStep, DailyStep, ApplyStep, RegisterJob, RunJob, ReturnFrom,
         NewAction, RegisterAction, Restart, vars, historyVars, LoadCheckpoint, SkipStage,
         LastStageOver, CollectCalendar, PassStage, BeginPrices, StoreSymbol, SymbolFails,
         SymbolInterrupted, SaveLastSymbol, EndPrices, ReadEvents, ReadRows, WriteAdjusted,
         Validate, MarkStage, SaveFails, StageFails, DailySkips, DailyCollects, DailyRejects,
         DailyFails, DailyChecks, ApplyReads, ApplyCommits, ApplyRejects, ApplyFails

\* No step takes a session or a report away.
LEMMA ReportsNeverShrink ==
    ASSUME [Next]_vars
    PROVE  ReportsGrow
<1>1. ASSUME NEW t \in Threads, BackfillStep(t) PROVE ReportsGrow
  BY <1>1
     DEF BackfillStep, LoadCheckpoint, SkipStage, CollectSymbols,
         LastStageOver, CollectCalendar, PassStage, BeginPrices, StoreSymbol, SymbolFails,
         SymbolInterrupted, SaveLastSymbol, EndPrices, ReadEvents, ReadRows, WriteAdjusted,
         Validate, MarkStage, SaveFails, StageFails, historyVars, backfillVars, ReportsGrow
<1>2. ASSUME NEW t \in Threads, JobStep(t) PROVE ReportsGrow
  BY <1>2
     DEF JobStep, DailyStep, ApplyStep, DailySkips, DailyCollects, DailyCommits, DailyRejects,
         DailyFails, DailyChecks, ApplyReads, ApplyCommits, ApplyRejects, ApplyFails, historyVars,
         backfillVars, ReportsGrow
<1>3. QED
  BY <1>1, <1>2
     DEF Next, Step, JobStep, RegisterJob, RunJob, ReturnFrom,
         NewAction, RegisterAction, Restart, vars, historyVars, backfillVars, ReportsGrow

\* No step widens a range.
LEMMA RangesNeverWiden ==
    ASSUME Typed, [Next]_vars
    PROVE  RangesNarrow
<1>1. narrowest \in [Days -> Days] /\ Days \subseteq Nat
  BY HistoryAssumption DEF Typed, TypeOK, Days
<1>2. ASSUME NEW j \in Jobs, NEW day \in JobDays, RegisterJob(j, day) PROVE RangesNarrow
  <2>1. ASSUME NEW from \in StartDays, BuildFor(from, day) PROVE RangesNarrow
    <3>1. from \in Nat /\ day \in Days
      BY <1>1, PipelineAssumption
    <3>2. ASSUME NEW d \in Days, NEW x \in Days, narrowest'[d] <= x PROVE narrowest[d] <= x
      <4>1. narrowest[d] \in Nat /\ x \in Nat
        BY <1>1
      <4>2. narrowest'[d] = narrowest[d] \/ (narrowest'[d] = from /\ from > narrowest[d])
        BY <1>1, <2>1 DEF BuildFor
      <4>3. QED
        BY <3>1, <3>2, <4>1, <4>2
    <3>3. QED
      BY <3>2 DEF RangesNarrow
  <2>2. CASE UNCHANGED narrowest
    BY <2>2 DEF RangesNarrow
  <2>3. QED
    BY <1>2, <2>1, <2>2 DEF RegisterJob
<1>3. CASE UNCHANGED narrowest
  BY <1>3 DEF RangesNarrow
<1>4. QED
  BY <1>2, <1>3, JobMoves
     DEF Next, Step, JobStep, RunJob, ReturnFrom, NewAction, Restart, countVars, vars

\* A thread inside its job leaves the ranges of the backfills alone.
LEMMA InsideCountsNothing ==
    ASSUME Typed, Next, NEW t \in Threads, BackfillStep(t) \/ JobStep(t)
    PROVE  UNCHANGED <<since, narrowest>>
<1>1. job' = job /\ dayOf' = dayOf /\ job[t] # NoJob
  <2>1. job' = job /\ dayOf' = dayOf /\ pc[t] # "idle"
    BY BackfillMoves, JobMoves, MovesTyped DEF Typed, TypeOK
  <2>2. QED
    BY <2>1 DEF Typed, Working
<1>2. ASSUME NEW j \in Jobs, NEW day \in JobDays, RegisterJob(j, day) PROVE FALSE
  BY <1>1, <1>2, PipelineAssumption, HistoryAssumption
     DEF RegisterJob, Register, Days, Typed, TypeOK, SchedulerTypeOK
<1>3. CASE Restart
  BY <1>1, <1>3 DEF Restart, NewProcess
<1>4. QED
  BY <1>2, <1>3, JobMoves
     DEF Next, Step, JobStep, RunJob, ReturnFrom, NewAction, countVars

\* A backfill registered for a day starts no later than the range of that day.
Started ==
    \A j \in Jobs : j = "historical_backfill" /\ dayOf[j] # 0 => since <= narrowest[dayOf[j]]

\* Only registering a backfill changes its range.
LEMMA StartedKept ==
    ASSUME Typed, Started, [Next]_vars
    PROVE  Started'
<1>1. ASSUME NEW i \in Jobs, NEW day \in JobDays, RegisterJob(i, day) PROVE Started'
  <2>1. /\ dayOf' = [dayOf EXCEPT ![i] = day] /\ dayOf \in [Jobs -> JobDays \cup {0}]
        /\ day \in Days
    BY <1>1, PipelineAssumption DEF RegisterJob, Register, Typed, TypeOK, SchedulerTypeOK
  <2>2. CASE i # "historical_backfill" /\ UNCHANGED <<since, narrowest>>
    BY <2>1, <2>2 DEF Started
  <2>3. ASSUME i = "historical_backfill", NEW from \in StartDays, BuildFor(from, day)
        PROVE  Started'
    <3>1. from \in Nat /\ narrowest[day] \in Nat /\ day \in DOMAIN narrowest
      BY <2>1, PipelineAssumption, HistoryAssumption DEF Typed, TypeOK, Days
    <3>2. since' <= narrowest'[day]
      BY <2>3, <3>1 DEF BuildFor
    <3>3. QED
      BY <2>1, <2>3, <3>2 DEF Started
  <2>4. QED
    BY <1>1, <2>2, <2>3 DEF RegisterJob
<1>2. CASE Restart
  BY <1>2 DEF Restart, NewProcess, Started
<1>3. CASE UNCHANGED <<since, narrowest, dayOf>>
  BY <1>3 DEF Started
<1>4. ASSUME Next, NEW t \in Threads, BackfillStep(t) \/ JobStep(t)
      PROVE  UNCHANGED <<since, narrowest, dayOf>>
  <2>1. pc[t] # "idle" /\ Moves(t)
    BY <1>4, BackfillMoves, JobMoves
  <2>2. UNCHANGED dayOf
    BY <2>1, MovesTyped DEF Typed, TypeOK
  <2>3. QED
    BY <1>4, <2>2, InsideCountsNothing
<1>5. QED
  BY <1>1, <1>2, <1>3, <1>4
     DEF Next, Step, JobStep, RunJob, Acquire, ReturnFrom, Release, NewAction, schedulerVars,
         countVars, vars

\* What a backfill asks for reaches as far back as the range of its day.
LEMMA StartsInRange ==
    ASSUME Typed, Started, NEW t \in Threads, job[t] = "historical_backfill", pc[t] # "idle"
    PROVE  /\ since \in Nat /\ narrowest[Today(t)] \in Nat
           /\ since <= narrowest[Today(t)]
<1>1. Today(t) \in Days /\ Today(t) # 0 /\ job[t] \in Jobs
  BY TodayIsADay DEF Typed, TypeOK, SchedulerTypeOK, Working
<1>2. since \in Nat /\ narrowest[Today(t)] \in Nat
  BY <1>1, HistoryAssumption DEF Typed, TypeOK, Days
<1>3. QED
  BY <1>1, <1>2 DEF Started, Today

\* What a checkpoint says is behind it is in the tables, or was given up or reported.
Covered(s, day) ==
    {d \in Traded[s] : InRange(d, day)} \subseteq DOMAIN rows[s] \/ <<s, day>> \in skipped
Told(s, day) ==
    \A d \in {x \in Sessions : InRange(x, day)} :
        d \in DOMAIN rows[s] \/ <<s, d>> \in alerted \/ <<s, day>> \in unchecked
AllKnown(day) == \A s \in Listing[day] : listed[s] # 0
AllOpen(day) == {d \in Sessions : InRange(d, day)} \subseteq calendar

\* From here on the range of a day is what narrowest says of it.
USE DEF InRange

Backed(c) ==
    /\ c.asOf = 0 => c.done = {}
    /\ "symbols" \in c.done => AllKnown(c.asOf)
    /\ "calendar" \in c.done => AllOpen(c.asOf)
    /\ c.asOf # 0 =>
          \A s \in Listing[c.asOf] :
              "daily_prices" \in c.done \/ (c.last # 0 /\ s <= c.last) => Covered(s, c.asOf)
    /\ "validate" \in c.done => \A s \in Listing[c.asOf] : Told(s, c.asOf)

MemoBacked(t) ==
    job[t] = "historical_backfill" /\ pc[t] \notin {"idle", "begin", "end"} =>
        /\ memo[t].asOf = Today(t)
        /\ Backed(memo[t])
        /\ pc[t] \in {"symbol", "passed"} =>
              \A s \in Listing[Today(t)] \ left[t] : Covered(s, Today(t))
        /\ pc[t] = "passed" => Covered(Turn(t), Today(t))
        /\ pc[t] = "mark" /\ at[t] = 1 => AllKnown(Today(t))
        /\ pc[t] = "mark" /\ at[t] = 2 => AllOpen(Today(t))
        /\ pc[t] = "mark" /\ at[t] = 4 => \A s \in Listing[Today(t)] : Covered(s, Today(t))
        /\ pc[t] = "mark" /\ at[t] = 7 => \A s \in Listing[Today(t)] : Told(s, Today(t))

AllBacked == Backed(file) /\ \A t \in Threads : MemoBacked(t)

\* A listing lists symbols.
LEMMA ListingIsTyped ==
    ASSUME NEW day \in Days
    PROVE  Listing[day] \subseteq Symbols
  BY HistoryAssumption

\* What holds of the tables goes on to hold.
LEMMA FactsGrow ==
    ASSUME Grows, NEW day \in Days
    PROVE  /\ \A s \in Symbols : Covered(s, day) => Covered(s, day)'
           /\ \A s \in Symbols : Told(s, day) => Told(s, day)'
           /\ AllKnown(day) => AllKnown(day)'
           /\ AllOpen(day) => AllOpen(day)'
<1>1. /\ Sessions \subseteq Days /\ \A s \in Symbols : Traded[s] \subseteq Days
      /\ Listing[day] \subseteq Symbols
  BY HistoryAssumption
<1>2. QED
  BY <1>1 DEF Grows, RowsGrow, KnownGrows, ReportsGrow, RangesNarrow, Covered, Told, AllKnown,
              AllOpen

\* Hence what is true of a checkpoint goes on to be true.
LEMMA BackedGrows ==
    ASSUME Grows, NEW c \in Checkpoint, Backed(c)
    PROVE  Backed(c)'
<1>1. CASE c.asOf = 0
  BY <1>1 DEF Backed
<1>2. CASE c.asOf # 0
  <2>1. c.asOf \in Days
    BY <1>2, HistoryAssumption DEF Checkpoint, Days
  <2>2. Listing[c.asOf] \subseteq Symbols
    BY <2>1, ListingIsTyped
  <2>3. QED
    BY <1>2, <2>1, <2>2, FactsGrow DEF Backed
<1>3. QED
  BY <1>1, <1>2

\* And of one a thread holds, while the thread stands still.
LEMMA MemoBackedGrows ==
    ASSUME Typed, Grows, NEW u \in Threads, MemoBacked(u), pc[u] # "idle",
           UNCHANGED <<memo[u], at[u], left[u], pc[u], job[u], Today(u)>>
    PROVE  MemoBacked(u)'
<1>1. Today(u) \in Days /\ Listing[Today(u)] \subseteq Symbols /\ memo[u] \in Checkpoint
  BY TodayIsADay, ListingIsTyped DEF Typed, TypeOK, BackfillTypeOK
<1>0. Sessions \subseteq Days /\ \A s \in Symbols : Traded[s] \subseteq Days
  BY HistoryAssumption
<1>2. Backed(memo[u]) => Backed(memo[u])'
  <2>1. \A c \in Checkpoint : Backed(c) => Backed(c)'
    BY BackedGrows
  <2>2. Backed(memo[u]) => \E c \in Checkpoint : c = memo[u] /\ Backed(c)'
    BY <1>1, <2>1
  <2>3. QED
    BY <2>2 DEF Backed, Covered, Told, AllKnown, AllOpen
<1>3. ASSUME NEW s \in Symbols
      PROVE  /\ Covered(s, Today(u)) => Covered(s, Today(u))'
             /\ Told(s, Today(u)) => Told(s, Today(u))'
  BY <1>0, <1>1, <1>3 DEF Grows, RowsGrow, ReportsGrow, RangesNarrow, Covered, Told
<1>4. /\ AllKnown(Today(u)) => AllKnown(Today(u))'
      /\ AllOpen(Today(u)) => AllOpen(Today(u))'
  BY <1>0, <1>1 DEF Grows, KnownGrows, ReportsGrow, RangesNarrow, AllKnown, AllOpen
<1>5. Turn(u) \in Symbols \/ pc[u] # "passed"
  BY TurnIsLeft DEF Typed, InPlace
<1>6. Turn(u)' = Turn(u)
  BY DEF Turn
<1> DEFINE day == Today(u)
<1>7. Today(u)' = day
  OBVIOUS
<1>8. SUFFICES ASSUME job[u] = "historical_backfill", pc[u] \notin {"idle", "begin", "end"}
               PROVE  MemoBacked(u)'
  BY DEF MemoBacked
<1>9. /\ pc[u] \in {"symbol", "passed"} =>
              \A s \in Listing[Today(u)]' \ left'[u] : Covered(s, Today(u))'
      /\ pc[u] = "mark" /\ at[u] = 4 => \A s \in Listing[Today(u)]' : Covered(s, Today(u))'
      /\ pc[u] = "mark" /\ at[u] = 7 => \A s \in Listing[Today(u)]' : Told(s, Today(u))'
  BY <1>1, <1>3, <1>7, <1>8 DEF MemoBacked
<1>10. pc[u] = "passed" => Covered(Turn(u), Today(u))'
  BY <1>3, <1>5, <1>6, <1>8 DEF MemoBacked, Covered
<1>11. QED
  BY <1>2, <1>4, <1>8, <1>9, <1>10 DEF MemoBacked

\* A checkpoint that is read again says nothing that was taken back.
LEMMA FileStaysBacked ==
    ASSUME Typed, Grows, Backed(file), UNCHANGED file
    PROVE  Backed(file)'
<1>1. file \in Checkpoint
  BY DEF Typed, TypeOK, BackfillTypeOK
<1>2. \E c \in Checkpoint : c = file /\ Backed(c)'
  BY <1>1, BackedGrows
<1>3. QED
  BY <1>2 DEF Backed, Covered, Told, AllKnown, AllOpen

\* The same for a checkpoint a thread holds and does not change.
LEMMA MemoStaysBacked ==
    ASSUME Typed, Grows, NEW t \in Threads, Backed(memo[t]), memo'[t] = memo[t]
    PROVE  Backed(memo[t])'
<1>1. memo[t] \in Checkpoint
  BY DEF Typed, TypeOK, BackfillTypeOK
<1>2. \E c \in Checkpoint : c = memo[t] /\ Backed(c)'
  BY <1>1, BackedGrows
<1>3. QED
  BY <1>2 DEF Backed, Covered, Told, AllKnown, AllOpen

\* Which stages are and are not among the first three and the first six.
LEMMA StageNames ==
    /\ "symbols" \in FirstStages(3) /\ "calendar" \in FirstStages(6)
    /\ "daily_prices" \notin FirstStages(3)
    /\ "validate" \notin FirstStages(6) /\ "validate" \notin FirstStages(3)
  BY StageOrder DEF Stages

\* The price stage entered, resumed or not, and a symbol stored or given up.
LEMMA PricesKeepBacked ==
    ASSUME Typed, AllInOrder, AllBacked, Grows, Started, UNCHANGED <<since, narrowest>>,
           NEW t \in Threads,
           BeginPrices(t) \/ StoreSymbol(t) \/ SymbolFails(t)
    PROVE  Backed(file)' /\ MemoBacked(t)'
<1> DEFINE day == Today(t)
<1>a. /\ job' = job /\ job[t] = "historical_backfill" /\ Today(t)' = day /\ BackfillStep(t)
      /\ \A step \in Steps : GoTo(t, step) => pc'[t] = step
  <2>1. BackfillStep(t)
    BY DEF BackfillStep
  <2>2. QED
    BY <2>1, BackfillMoves, MovesTyped DEF Typed, TypeOK, GoTo, SchedulerTypeOK, Today
<1>b. /\ day \in Days /\ day # 0 /\ Listing[day] \subseteq Symbols /\ left[t] \subseteq Symbols
      /\ MemoBacked(t) /\ UNCHANGED <<file, memo, at>> /\ memo[t] \in Checkpoint
  BY <1>a, BackfillMoves, TodayIsADay, ListingIsTyped
     DEF AllBacked, BeginPrices, StoreSymbol, SymbolFails, backfillVars, Typed, TypeOK,
         BackfillTypeOK
<1>c. pc[t] \in {"stage", "symbol"} /\ memo[t].asOf = day /\ Backed(memo[t]) /\ Backed(memo[t])'
  <2>1. pc[t] \in {"stage", "symbol"}
    BY DEF BeginPrices, StoreSymbol, SymbolFails, InStage, Backfilling
  <2>2. memo[t].asOf = day /\ Backed(memo[t])
    BY <1>a, <1>b, <2>1 DEF MemoBacked
  <2>3. QED
    BY <1>b, <2>1, <2>2, MemoStaysBacked
<1>d. Backed(file)'
  BY <1>b, FileStaysBacked DEF AllBacked
<1>e. \A s \in Symbols : Covered(s, day) => Covered(s, day)'
  BY <1>a, <1>b DEF Grows, RowsGrow, ReportsGrow, Covered
<1> USE DEF Steps
<1>1. CASE BeginPrices(t)
  <2>1. memo[t].done = FirstStages(3)
    BY <1>1, StageEntered DEF BeginPrices
  <2>2. AllKnown(day)
    BY <1>c, <2>1, StageNames DEF Backed
  <2>3. ASSUME NEW s \in Listing[day] \ left'[t] PROVE Covered(s, day)
    <3>1. PICK targets \in SUBSET Symbols :
              left'[t] = Resumed(targets, memo[t].last) /\ Listing[day] \subseteq targets
      <4>1. t \in DOMAIN left
        BY DEF Typed, TypeOK, BackfillTypeOK
      <4>2. Listing[day] \subseteq Known /\ Known \subseteq Symbols
        BY <1>b, <2>2 DEF AllKnown, Known
      <4>3. left'[t] = Resumed(IF fresh[t] THEN Listing[day] ELSE Known, memo[t].last)
        BY <1>1, <4>1 DEF BeginPrices
      <4>4. QED
        BY <1>b, <4>2, <4>3
    <3>2. memo[t].last \in targets /\ ~ (s > memo[t].last)
      BY <2>3, <3>1 DEF Resumed
    <3>3. s \in Nat /\ memo[t].last \in Nat \ {0}
      BY <1>b, <3>2, HistoryAssumption
    <3>4. s <= memo[t].last
      BY <3>2, <3>3
    <3>5. QED
      BY <1>b, <1>c, <3>3, <3>4 DEF Backed
  <2>4. \A s \in Listing[day] \ left'[t] : Covered(s, day)'
    BY <1>b, <1>e, <2>3
  <2>5. pc'[t] = "symbol"
    BY <1>1, <1>a DEF BeginPrices
  <2>6. QED
    BY <1>a, <1>b, <1>c, <1>d, <2>4, <2>5 DEF MemoBacked
<1>2. CASE StoreSymbol(t) \/ SymbolFails(t)
  <2>1. Turn(t) \in Symbols /\ UNCHANGED left /\ Turn(t)' = Turn(t)
    BY <1>2, TurnIsLeft DEF StoreSymbol, SymbolFails, backfillVars, Turn, Typed
  <2>2. Covered(Turn(t), day)'
    <3>1. CASE SymbolFails(t)
      BY <1>a, <2>1, <3>1 DEF SymbolFails, Covered
    <3>2. CASE StoreSymbol(t)
      <4>1. Turn(t) \in DOMAIN rows
        BY <2>1 DEF Typed, TypeOK, HistoryTypeOK, IsHistory
      <4>2. rows'[Turn(t)] = Upserted(rows[Turn(t)], Fetched(Turn(t), since, day, day))
        BY <3>2, <4>1 DEF StoreSymbol
      <4>3. {d \in Traded[Turn(t)] : InRange(d, day)} \subseteq DOMAIN rows'[Turn(t)]
        <5>1. since \in Nat /\ narrowest[day] \in Nat /\ since <= narrowest[day]
          BY <1>a, <3>2, StartsInRange DEF StoreSymbol, Backfilling
        <5>2. Days \subseteq Nat /\ day \in Nat
          BY <1>b, HistoryAssumption DEF Days
        <5>3. Traded[Turn(t)] \subseteq Nat
          BY <2>1, <5>2, HistoryAssumption
        <5>4. DOMAIN Fetched(Turn(t), since, day, day)
                 = {x \in Traded[Turn(t)] : since <= x /\ x <= day}
          BY DEF Fetched
        <5>5. \A d \in Traded[Turn(t)] : InRange(d, day) => since <= d /\ d <= day
          BY <5>1, <5>3
        <5>6. QED
          BY <4>2, <5>4, <5>5 DEF Upserted
      <4>4. QED
        BY <1>a, <2>1, <4>3 DEF Covered
    <3>3. QED
      BY <1>2, <3>1, <3>2
  <2>3. \A s \in Listing[day] \ left'[t] : Covered(s, day)'
    <3>1. pc[t] = "symbol"
      BY <1>2 DEF StoreSymbol, SymbolFails, Backfilling
    <3>2. QED
      BY <1>a, <1>b, <1>e, <2>1, <3>1 DEF MemoBacked
  <2>4. pc'[t] = "passed"
    BY <1>2, <1>a DEF StoreSymbol, SymbolFails
  <2>5. QED
    BY <1>a, <1>b, <1>c, <1>d, <2>1, <2>2, <2>3, <2>4 DEF MemoBacked
<1>3. QED
  BY <1>1, <1>2

\* A symbol saved as the last one, and the end of the price stage.
LEMMA SavesKeepBacked ==
    ASSUME Typed, AllInOrder, AllBacked, Grows, UNCHANGED <<since, narrowest>>,
           NEW t \in Threads,
           SymbolInterrupted(t) \/ SaveLastSymbol(t) \/ EndPrices(t)
    PROVE  Backed(file)' /\ MemoBacked(t)'
<1> DEFINE day == Today(t)
<1>a. /\ job' = job /\ job[t] = "historical_backfill" /\ Today(t)' = day /\ BackfillStep(t)
      /\ \A step \in Steps : GoTo(t, step) => pc'[t] = step
  <2>1. BackfillStep(t)
    BY DEF BackfillStep
  <2>2. QED
    BY <2>1, BackfillMoves, MovesTyped DEF Typed, TypeOK, GoTo, SchedulerTypeOK, Today
<1>b. /\ day \in Days /\ day # 0 /\ Listing[day] \subseteq Symbols /\ left[t] \subseteq Symbols
      /\ MemoBacked(t) /\ memo[t] \in Checkpoint /\ t \in DOMAIN memo /\ t \in DOMAIN left
  BY <1>a, BackfillMoves, TodayIsADay, ListingIsTyped
     DEF AllBacked, Typed, TypeOK, BackfillTypeOK
<1>c. /\ pc[t] \in {"symbol", "passed"} /\ memo[t].asOf = day /\ Backed(memo[t])
      /\ memo[t].done = FirstStages(3) /\ at[t] = 4 /\ UNCHANGED at
      /\ \A s \in Listing[day] \ left[t] : Covered(s, day)
      /\ pc[t] = "passed" => Covered(Turn(t), day)
  <2>1. pc[t] \in {"symbol", "passed"} /\ UNCHANGED at
    BY DEF SymbolInterrupted, SaveLastSymbol, EndPrices, Backfilling
  <2>2. QED
    BY <1>a, <1>b, <2>1 DEF MemoBacked, AllInOrder, MemoInOrder, Typed, InPlace
<1>d. \A s \in Symbols : Covered(s, day) => Covered(s, day)'
  BY <1>a, <1>b DEF Grows, RowsGrow, ReportsGrow, Covered
<1>e. AllKnown(day)'
  <2>1. AllKnown(day)
    BY <1>c, StageNames DEF Backed
  <2>2. QED
    BY <1>a, <1>b, <2>1 DEF AllKnown, Grows, KnownGrows
<1>f. "calendar" \in memo[t].done => AllOpen(day)'
  <2>1. "calendar" \in memo[t].done => AllOpen(day)
    BY <1>c DEF Backed
  <2>2. QED
    BY <1>a, <1>b, <2>1 DEF AllOpen, Grows, ReportsGrow
<1>g. memo'[t].asOf = day /\ memo'[t].done = FirstStages(3)
  BY <1>b, <1>c DEF SymbolInterrupted, SaveLastSymbol, EndPrices, Checkpoint
<1>h. PICK c : c = memo'[t]
  OBVIOUS
<1> USE DEF Steps
<1>1. CASE SymbolInterrupted(t) \/ SaveLastSymbol(t)
  <2> PICK s0 : s0 = Turn(t)
    OBVIOUS
  <2>1. /\ s0 \in left[t] /\ s0 \in Symbols /\ s0 \in Nat \ {0} /\ \A s \in left[t] : s0 <= s
    <3>1. left[t] # {}
      BY <1>1 DEF SymbolInterrupted, SaveLastSymbol, Backfilling, Typed, InPlace
    <3>2. QED
      BY <3>1, TurnIsLeft, HistoryAssumption DEF Typed
  <2>2. memo'[t].last = s0 /\ file' = memo'[t]
    BY <1>1, <1>b DEF SymbolInterrupted, SaveLastSymbol, Checkpoint
  <2>4. \A s \in Listing[day] : s \notin left[t] \ {s0} => Covered(s, day)'
    <3>1. UNCHANGED rows /\ skipped \subseteq skipped'
      BY <1>1 DEF SymbolInterrupted, SaveLastSymbol, historyVars
    <3>2. ASSUME NEW s \in Listing[day], s \notin left[t] \ {s0} PROVE Covered(s, day)'
      <4>1. CASE s = s0
        <5>1. Covered(Turn(t), day) \/ <<Turn(t), day>> \in skipped'
          BY <1>1, <1>c DEF SymbolInterrupted, SaveLastSymbol, Backfilling
        <5>2. QED
          BY <1>a, <3>1, <4>1, <5>1 DEF Covered
      <4>2. CASE s # s0
        BY <1>b, <1>c, <1>d, <3>2, <4>2
      <4>3. QED
        BY <4>1, <4>2
    <3>3. QED
      BY <3>2
  <2>5. \A s \in Listing[day] : s <= s0 => Covered(s, day)'
    BY <1>b, <2>1, <2>4, HistoryAssumption
  <2>6. Backed(memo[t])'
    <3>1. /\ c.asOf = day /\ c.done = FirstStages(3) /\ c.last = s0 /\ day # 0
          /\ "calendar" \in c.done => AllOpen(day)'
      BY <1>b, <1>c, <1>f, <1>g, <1>h, <2>2
    <3>2. Backed(c)'
      BY <1>a, <1>e, <2>5, <3>1, StageNames DEF Backed, AllKnown, AllOpen, Covered
    <3>3. QED
      BY <1>h, <3>2 DEF Backed, AllKnown, AllOpen, Covered, Told
  <2>7. Backed(file)'
    BY <2>2, <2>6 DEF Backed, AllKnown, AllOpen, Covered, Told
  <2>8. MemoBacked(t)'
    <3>1. CASE SymbolInterrupted(t)
      BY <1>a, <3>1 DEF SymbolInterrupted, MemoBacked
    <3>2. CASE SaveLastSymbol(t)
      <4>1. pc'[t] = "symbol" /\ left'[t] = left[t] \ {s0}
        BY <1>a, <1>b, <3>2 DEF SaveLastSymbol
      <4>2. \A s \in Listing[day] \ left'[t] : Covered(s, day)'
        BY <2>4, <4>1
      <4>3. QED
        BY <1>a, <1>g, <2>6, <4>1, <4>2 DEF MemoBacked
    <3>3. QED
      BY <1>1, <3>1, <3>2
  <2>9. QED
    BY <2>7, <2>8
<1>2. CASE EndPrices(t)
  <2>1. left[t] = {} /\ pc'[t] = "mark" /\ memo'[t].last = 0 /\ UNCHANGED file
    BY <1>2, <1>a, <1>b DEF EndPrices, Checkpoint
  <2>2. \A s \in Listing[day] : Covered(s, day)'
    BY <1>b, <1>c, <1>d, <2>1
  <2>3. Backed(memo[t])'
    <3>1. /\ c.asOf = day /\ c.done = FirstStages(3) /\ c.last = 0 /\ day # 0
          /\ "calendar" \in c.done => AllOpen(day)'
      BY <1>b, <1>c, <1>f, <1>g, <1>h, <2>1
    <3>2. Backed(c)'
      BY <1>a, <1>e, <3>1, StageNames DEF Backed, AllKnown, AllOpen, Covered
    <3>3. QED
      BY <1>h, <3>2 DEF Backed, AllKnown, AllOpen, Covered, Told
  <2>4. Backed(file)'
    BY <2>1, FileStaysBacked DEF AllBacked
  <2>5. QED
    BY <1>a, <1>c, <1>g, <2>1, <2>2, <2>3, <2>4 DEF MemoBacked
<1>3. QED
  BY <1>1, <1>2

\* A stage marked as done.
LEMMA MarkKeepsBacked ==
    ASSUME Typed, AllInOrder, AllBacked, Grows, UNCHANGED <<since, narrowest>>,
           NEW t \in Threads, MarkStage(t)
    PROVE  Backed(file)' /\ MemoBacked(t)'
<1> DEFINE day == Today(t)
<1>1. /\ job' = job /\ job[t] = "historical_backfill" /\ Today(t)' = day
      /\ pc'[t] = "stage" /\ pc[t] = "mark"
  <2>1. BackfillStep(t)
    BY DEF BackfillStep
  <2>2. QED
    BY <2>1, BackfillMoves, MovesTyped
       DEF MarkStage, Backfilling, Typed, TypeOK, GoTo, SchedulerTypeOK, Today
<1>2. /\ day \in Days /\ day # 0 /\ Listing[day] \subseteq Symbols
      /\ memo[t] \in Checkpoint /\ t \in DOMAIN memo /\ at[t] \in 1 .. 7
  BY <1>1, TodayIsADay, ListingIsTyped DEF Typed, TypeOK, BackfillTypeOK, InPlace
<1>3. /\ memo[t].asOf = day /\ Backed(memo[t])
      /\ memo[t].done = FirstStages(at[t] - 1) /\ memo[t].last = 0
      /\ at[t] = 1 => AllKnown(day)
      /\ at[t] = 2 => AllOpen(day)
      /\ at[t] = 4 => \A s \in Listing[day] : Covered(s, day)
      /\ at[t] = 7 => \A s \in Listing[day] : Told(s, day)
  BY <1>1 DEF MemoBacked, AllBacked, AllInOrder, MemoInOrder
<1>4. PICK c : c = memo'[t]
  OBVIOUS
<1>5. /\ c.asOf = day /\ c.last = 0 /\ c.done = memo[t].done \cup {Stages[at[t]]}
      /\ file' = c /\ UNCHANGED <<rows, skipped, alerted, unchecked, listed, calendar, narrowest>>
  BY <1>2, <1>3, <1>4 DEF MarkStage, Checkpoint, historyVars
<1>6. /\ Stages[at[t]] = "symbols" => at[t] = 1
      /\ Stages[at[t]] = "calendar" => at[t] = 2
      /\ Stages[at[t]] = "daily_prices" => at[t] = 4
      /\ Stages[at[t]] = "validate" => at[t] = 7
  BY <1>2 DEF Stages
<1>7. /\ "symbols" \in c.done => AllKnown(day)
      /\ "calendar" \in c.done => AllOpen(day)
      /\ "daily_prices" \in c.done => \A s \in Listing[day] : Covered(s, day)
      /\ "validate" \in c.done => \A s \in Listing[day] : Told(s, day)
  BY <1>2, <1>3, <1>5, <1>6 DEF Backed
<1>8. Backed(c)
  BY <1>2, <1>5, <1>7 DEF Backed
<1>9. Backed(c)'
  BY <1>5, <1>8 DEF Backed, AllKnown, AllOpen, Covered, Told
<1>10. Backed(file)' /\ Backed(memo[t])'
  BY <1>4, <1>5, <1>9 DEF Backed, AllKnown, AllOpen, Covered, Told
<1>11. QED
  BY <1>1, <1>4, <1>5, <1>10 DEF MemoBacked

\* A checkpoint loaded, or started over because it is of another day.
LEMMA LoadKeepsBacked ==
    ASSUME Typed, AllBacked, Grows, NEW t \in Threads, LoadCheckpoint(t)
    PROVE  Backed(file)' /\ MemoBacked(t)'
<1> DEFINE day == Today(t)
<1>1. /\ job' = job /\ Today(t)' = day /\ pc'[t] = "stage" /\ day # 0 /\ t \in DOMAIN memo
  <2>1. BackfillStep(t)
    BY DEF BackfillStep
  <2>2. QED
    BY <2>1, BackfillMoves, MovesTyped, TodayIsADay
       DEF LoadCheckpoint, Typed, TypeOK, GoTo, SchedulerTypeOK, BackfillTypeOK, Today
<1>2. Backed(file)'
  BY FileStaysBacked DEF AllBacked, LoadCheckpoint
<1>3. memo'[t].asOf = day /\ Backed(memo[t])'
  <2>1. CASE file.asOf = day
    BY <1>1, <1>2, <2>1 DEF LoadCheckpoint, Backed, AllKnown, AllOpen, Covered, Told
  <2>2. CASE file.asOf # day
    <3>1. memo'[t] = [Unreadable EXCEPT !.asOf = day]
      BY <1>1, <2>2 DEF LoadCheckpoint
    <3>2. memo'[t].asOf = day /\ memo'[t].done = {} /\ memo'[t].last = 0
      BY <3>1 DEF Unreadable
    <3>3. QED
      BY <3>2 DEF Backed
  <2>3. QED
    BY <2>1, <2>2
<1>4. QED
  BY <1>1, <1>2, <1>3 DEF MemoBacked

\* Validation reports each hole or records that it could not look.
LEMMA ValidateTells ==
    ASSUME Typed, Started, UNCHANGED <<since, narrowest>>,
           NEW t \in Threads, NEW day \in Days, day = Today(t),
           Validate(t), AllOpen(day), NEW s \in Listing[day]
    PROVE  Told(s, day)'
<1>0. since \in Nat /\ narrowest[day] \in Nat /\ since <= narrowest[day]
  BY StartsInRange DEF Validate, InStage, Backfilling
<1>1. s \in Symbols /\ UNCHANGED <<rows, listed, calendar>>
  BY ListingIsTyped DEF Validate, historyVars
<1>2. CASE unchecked' = unchecked \cup (Listing[day] \X {day})
  BY <1>2 DEF Told
<1>3. CASE /\ alerted' = alerted \cup Missing(since, day)
           /\ unchecked' = unchecked \cup ((Listing[day] \ Active(day)) \X {day})
  <2>1. CASE s \notin Active(day)
    BY <1>3, <2>1 DEF Told
  <2>2. CASE s \in Active(day)
    <3>1. ASSUME NEW d \in Sessions, InRange(d, day)
          PROVE  d \in DOMAIN rows'[s] \/ <<s, d>> \in alerted'
      <4>1. d \in calendar
        BY <3>1 DEF AllOpen
      <4>2. since <= d /\ d <= day
        BY <1>0, <3>1, HistoryAssumption DEF Days
      <4>3. d \notin DOMAIN rows[s] => <<s, d>> \in Missing(since, day)
        BY <2>2, <4>1, <4>2 DEF Missing
      <4>4. QED
        BY <1>1, <1>3, <4>3
    <3>2. QED
      BY <3>1 DEF Told
  <2>3. QED
    BY <2>1, <2>2
<1>4. QED
  BY <1>2, <1>3 DEF Validate

\* A run that ends, and a file that is cut off.
LEMMA FailureKeepsBacked ==
    ASSUME Typed, AllBacked, Grows, NEW t \in Threads,
           SaveFails(t) \/ StageFails(t) \/ LastStageOver(t)
    PROVE  Backed(file)' /\ MemoBacked(t)'
<1>1. pc'[t] = "end"
  BY DEF SaveFails, StageFails, LastStageOver, GoTo, Typed, TypeOK, SchedulerTypeOK
<1>2. file' = file \/ file' = Unreadable
  BY DEF SaveFails, StageFails, LastStageOver, backfillVars
<1>3. file' = Unreadable => Backed(file)'
  BY DEF Unreadable, Backed
<1>4. QED
  BY <1>1, <1>2, <1>3, FileStaysBacked DEF MemoBacked, AllBacked

OtherStage(t) ==
    \/ SkipStage(t) \/ CollectSymbols(t) \/ CollectCalendar(t) \/ PassStage(t)
    \/ ReadEvents(t) \/ ReadRows(t) \/ WriteAdjusted(t) \/ Validate(t)

\* The other stages.
LEMMA OtherStagesKeepBacked ==
    ASSUME Typed, AllInOrder, AllBacked, Grows, Started, UNCHANGED <<since, narrowest>>,
           NEW t \in Threads, OtherStage(t)
    PROVE  Backed(file)' /\ MemoBacked(t)'
<1> DEFINE day == Today(t)
<1>1. /\ job' = job /\ job[t] = "historical_backfill" /\ Today(t)' = day
      /\ \A step \in Steps : GoTo(t, step) => pc'[t] = step
  <2>1. BackfillStep(t)
    BY DEF BackfillStep, OtherStage
  <2>2. QED
    BY <2>1, BackfillMoves, MovesTyped DEF Typed, TypeOK, GoTo, SchedulerTypeOK, Today
<1>2. pc[t] \in {"stage", "rows", "adjust"} /\ UNCHANGED <<file, memo>>
  BY DEF OtherStage, SkipStage, CollectSymbols, CollectCalendar, PassStage, ReadEvents,
         ReadRows, WriteAdjusted, Validate, InStage, Backfilling, backfillVars
<1>3. /\ day \in Days /\ day # 0 /\ Listing[day] \subseteq Symbols
      /\ memo[t].asOf = day /\ Backed(memo[t])
  BY <1>1, <1>2, TodayIsADay, ListingIsTyped DEF AllBacked, MemoBacked
<1>4. Backed(file)' /\ Backed(memo[t])' /\ memo'[t].asOf = day
  BY <1>2, <1>3, FileStaysBacked, MemoStaysBacked DEF AllBacked
<1> USE DEF Steps
<1>5. CASE SkipStage(t)
  BY <1>1, <1>3, <1>4, <1>5 DEF SkipStage, Backfilling, schedulerVars, MemoBacked
<1>6. CASE CollectSymbols(t)
  <2>1. pc'[t] = "mark" /\ at'[t] = 1
    BY <1>1, <1>6 DEF CollectSymbols, InStage
  <2>2. AllKnown(day)'
    BY <1>1, <1>3, <1>6 DEF CollectSymbols, UpsertSymbols, AllKnown
  <2>3. QED
    BY <1>1, <1>4, <2>1, <2>2 DEF MemoBacked
<1>7. CASE CollectCalendar(t)
  <2>1. pc'[t] = "mark" /\ at'[t] = 2
    BY <1>1, <1>7 DEF CollectCalendar, InStage, backfillVars
  <2>2. since \in Nat /\ narrowest[day] \in Nat /\ since <= narrowest[day]
    BY <1>7, StartsInRange DEF CollectCalendar, InStage, Backfilling
  <2>3. \A d \in Sessions : InRange(d, day) => since <= d /\ d <= day
    BY <2>2, HistoryAssumption DEF Days
  <2>4. calendar' = calendar \cup {d \in Sessions : since <= d /\ d <= day}
    BY <1>7 DEF CollectCalendar
  <2>5. AllOpen(day)'
    BY <1>1, <2>3, <2>4 DEF AllOpen
  <2>6. QED
    BY <1>1, <1>4, <2>1, <2>5 DEF MemoBacked
<1>8. CASE PassStage(t) \/ ReadEvents(t) \/ ReadRows(t) \/ WriteAdjusted(t)
  <2>1. pc'[t] \in {"mark", "rows", "adjust", "end"} /\ at'[t] \in {3, 5, 6}
    BY <1>1, <1>8 DEF PassStage, ReadEvents, ReadRows, WriteAdjusted, InStage, Backfilling,
                       backfillVars, Typed, InPlace
  <2>2. QED
    BY <1>1, <1>4, <2>1 DEF MemoBacked
<1>9. CASE Validate(t)
  <2>1. pc'[t] = "mark" /\ at'[t] = 7
    BY <1>1, <1>9 DEF Validate, InStage
  <2>2. AllOpen(day)
    <3>1. memo[t].done = FirstStages(6)
      BY <1>9, StageEntered DEF Validate
    <3>2. QED
      BY <1>3, <3>1, StageNames DEF Backed
  <2>3. PICK d \in Days : d = day
    BY <1>3
  <2>4. \A s \in Listing[d] : Told(s, d)'
    BY <1>9, <2>2, <2>3, ValidateTells
  <2>5. \A s \in Listing[day] : Told(s, day)'
    BY <1>1, <2>3, <2>4 DEF Told
  <2>6. QED
    BY <1>1, <1>4, <2>1, <2>5 DEF MemoBacked
<1>10. QED
  BY <1>5, <1>6, <1>7, <1>8, <1>9 DEF OtherStage

\* All steps of a backfill.
LEMMA BackfillKeepsBacked ==
    ASSUME Typed, AllInOrder, AllBacked, Grows, Started, UNCHANGED <<since, narrowest>>,
           NEW t \in Threads, BackfillStep(t)
    PROVE  Backed(file)' /\ MemoBacked(t)'
  BY LoadKeepsBacked, PricesKeepBacked, SavesKeepBacked, MarkKeepsBacked, FailureKeepsBacked,
     OtherStagesKeepBacked DEF BackfillStep, OtherStage

\* A step of a thread and the checkpoints of the others.
LEMMA OthersStayBacked ==
    ASSUME Typed, AllBacked, Grows, NEW t \in Threads, BackfillStep(t) \/ JobStep(t),
           NEW u \in Threads \ {t}
    PROVE  MemoBacked(u)'
<1>1. job' = job /\ dayOf' = dayOf /\ pc'[u] = pc[u] /\ memo'[u] = memo[u] /\ at'[u] = at[u]
  BY BackfillMoves, JobMoves, MovesTyped, OnlyOneMemo DEF Typed, TypeOK
<1>2. left'[u] = left[u]
  BY JobMoves DEF BackfillStep, LoadCheckpoint, SkipStage,
         LastStageOver, CollectSymbols, CollectCalendar, PassStage, BeginPrices, StoreSymbol,
         SymbolFails, SymbolInterrupted, SaveLastSymbol, EndPrices, ReadEvents, ReadRows,
         WriteAdjusted, Validate, MarkStage, SaveFails, StageFails, backfillVars,
         DailyCollects, Typed, TypeOK, BackfillTypeOK
<1>3. CASE pc[u] = "idle"
  BY <1>1, <1>3 DEF MemoBacked
<1>4. CASE pc[u] # "idle"
  BY <1>1, <1>2, <1>4, MemoBackedGrows DEF AllBacked, Today
<1>5. QED
  BY <1>3, <1>4

\* No registration changes the day of a job that runs.
LEMMA DayIsKept ==
    ASSUME Typed, Next, \A t \in Threads : ~ BackfillStep(t) /\ ~ JobStep(t),
           NEW u \in Threads, pc'[u] \notin {"idle", "begin"}
    PROVE  Today(u)' = Today(u)
<1>1. job'[u] = job[u] /\ pc'[u] = pc[u] /\ job[u] # NoJob
  BY NextKeepsTyped, OutsideOfJobs DEF Typed, Working
<1>2. ASSUME NEW j \in Jobs, NEW day \in JobDays, RegisterJob(j, day)
      PROVE  dayOf'[job[u]] = dayOf[job[u]]
  <2>1. job[u] # j
    BY <1>1, <1>2, HistoryAssumption DEF RegisterJob, Register, Typed, Working, Today, Days
  <2>2. QED
    BY <1>1, <1>2, <2>1
       DEF RegisterJob, Register, Typed, TypeOK, SchedulerTypeOK
<1>3. CASE Restart
  BY <1>3 DEF Restart, NewProcess
<1>4. CASE UNCHANGED dayOf
  BY <1>1, <1>4 DEF Today
<1>5. QED
  BY <1>1, <1>2, <1>3, <1>4
     DEF Next, Step, JobStep, RunJob, Acquire, ReturnFrom, Release, NewAction, schedulerVars, Today

\* What the checkpoints say is true of the tables.
AllTrue == Typed /\ AllInOrder /\ Started /\ AllBacked

\* What the checkpoints say is an invariant.
LEMMA AllTrueAlways == Spec => []AllTrue
<1>1. Init => AllBacked
  BY DEF Init, SchedulerInit, BackfillInit, AllBacked, MemoBacked, Backed, Unreadable
<1>2. Typed /\ AllInOrder /\ Started /\ AllBacked /\ [Next]_vars => AllBacked'
  <2> SUFFICES ASSUME Typed, AllInOrder, Started, AllBacked, [Next]_vars PROVE AllBacked'
    OBVIOUS
  <2>0. Grows
    BY RowsNeverShrink, KnownNeverShrinks, ReportsNeverShrink, RangesNeverWiden DEF Grows
  <2>1. ASSUME Next, NEW t \in Threads, BackfillStep(t) PROVE AllBacked'
    BY <2>0, <2>1, InsideCountsNothing, BackfillKeepsBacked, OthersStayBacked DEF AllBacked
  <2>2. ASSUME NEW t \in Threads, JobStep(t) PROVE AllBacked'
    <3>1. MemoBacked(t)'
      <4>1. job'[t] # "historical_backfill"
        BY <2>2, JobMoves, MovesTyped DEF Typed, TypeOK
      <4>2. QED
        BY <4>1 DEF MemoBacked
    <3>2. Backed(file)'
      BY <2>0, <2>2, JobMoves, FileStaysBacked DEF AllBacked
    <3>3. QED
      BY <2>0, <2>2, <3>1, <3>2, OthersStayBacked DEF AllBacked
  <2>3. CASE Next /\ \A t \in Threads : ~ BackfillStep(t) /\ ~ JobStep(t)
    <3>1. ASSUME NEW u \in Threads PROVE MemoBacked(u)'
      <4>1. CASE pc'[u] \in {"idle", "begin"}
        BY <4>1 DEF MemoBacked
      <4>2. CASE pc'[u] \notin {"idle", "begin"}
        <5>1. job'[u] # NoJob
          BY <2>3, <4>2, NextKeepsTyped DEF Typed, Working
        <5>2. /\ UNCHANGED <<memo, at, left>> /\ pc'[u] = pc[u] /\ job'[u] = job[u]
              /\ Today(u)' = Today(u)
          BY <2>3, <4>2, <5>1, OutsideOfJobs, DayIsKept
        <5>3. QED
          BY <2>0, <4>2, <5>2, MemoBackedGrows DEF AllBacked
      <4>3. QED
        BY <4>1, <4>2
    <3>2. file' = file \/ file' = Unreadable
      BY <2>3 DEF Next, Step, JobStep, RegisterJob, RunJob, ReturnFrom, NewAction, Restart,
                  backfillVars
    <3>3. Backed(file)'
      <4>1. file' = Unreadable => Backed(file)'
        BY DEF Unreadable, Backed
      <4>2. QED
        BY <2>0, <3>2, <4>1, FileStaysBacked DEF AllBacked
    <3>4. QED
      BY <3>1, <3>3 DEF AllBacked
  <2>4. CASE UNCHANGED vars
    <3>1. ASSUME NEW u \in Threads PROVE MemoBacked(u)'
      <4>1. CASE pc[u] = "idle"
        BY <2>4, <4>1 DEF vars, schedulerVars, MemoBacked
      <4>2. CASE pc[u] # "idle"
        BY <2>0, <2>4, <4>2, MemoBackedGrows
           DEF vars, schedulerVars, backfillVars, AllBacked, Today
      <4>3. QED
        BY <4>1, <4>2
    <3>2. Backed(file)'
      BY <2>0, <2>4, FileStaysBacked DEF vars, backfillVars, AllBacked
    <3>3. QED
      BY <3>1, <3>2 DEF AllBacked
  <2>5. QED
    BY <2>1, <2>2, <2>3, <2>4
<1>3. Init => Started
  BY DEF Init, SchedulerInit, Started
<1>4. QED
  BY <1>1, <1>2, <1>3, StartedKept, AllInOrderAlways, PTL DEF Spec, AllTrue

(* For any symbols, listings, days, threads and faults, with any number of
   restarts: a symbol the checkpoint on disk has behind it has its rows, or was
   given up by a run for that day (NothingPassedOver).  Rows are committed before
   the file names the symbol, no job takes rows away, and a run that resumes
   after a symbol inherits what the file says of those before it. *)
THEOREM NothingIsPassedOver == Spec => []NothingPassedOver
<1>1. AllTrue => NothingPassedOver
  <2> SUFFICES ASSUME AllTrue, file.asOf # 0, NEW s \in Listing[file.asOf], PassedBy(s)
               PROVE  \/ {d \in Traded[s] : InRange(d, file.asOf)} \subseteq DOMAIN rows[s]
                      \/ <<s, file.asOf>> \in skipped
    BY DEF NothingPassedOver
  <2>1. QED
    BY DEF AllTrue, AllBacked, Backed, PassedBy, Covered
<1>2. QED
  BY <1>1, AllTrueAlways, PTL

(* Likewise for validation: a hole it leaves behind was reported or could not be
   seen, because the calendar is stored before prices are validated and neither
   sessions nor rows go away (HolesAreAlerted). *)
THEOREM NoHoleIsKeptQuiet == Spec => []HolesAreAlerted
<1>1. AllTrue => HolesAreAlerted
  BY DEF AllTrue, AllBacked, Backed, Told, HolesAreAlerted
<1>2. QED
  BY <1>1, AllTrueAlways, PTL
=============================================================================
