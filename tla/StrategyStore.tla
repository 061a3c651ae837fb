---------------------------- MODULE StrategyStore ----------------------------
(***************************************************************************)
(* services/strategy_service.py and the runs made of strategies: create,   *)
(* update, duplicate and soft delete as the requests of several users'     *)
(* windows interleave, and create_backtest_run, whose run keeps the        *)
(* document it was made of.  A request reads the tables in one statement   *)
(* after the other and writes them in one commit at its end.               *)
(***************************************************************************)
EXTENDS StrategyJson, FiniteSetsExt

CONSTANTS
    Documents,       \* what users send as strategy_json
    Requests,        \* requests that may be under way at the same time
    MaxStrategies,   \* bound: rows of strategies
    MaxVersions,     \* bound: rows of strategy_versions
    MaxRuns          \* bound: rows of backtest_runs

ASSUME StoreAssumption ==
    MaxStrategies \in Nat /\ MaxVersions \in Nat /\ MaxRuns \in Nat

VARIABLES
    strategies,   \* rows by id: current document and deleted_at
    versions,     \* rows by id: strategy, version number and document
    runs,         \* rows by id: strategy, strategy_snapshot_json and status
    request       \* what a request has read: empty or one record

storeVars == <<strategies, versions, runs, request>>

StoreInit ==
    /\ strategies = << >>
    /\ versions = << >>
    /\ runs = << >>
    /\ request = [q \in Requests |-> << >>]

Ids(table)     == DOMAIN table
Alive(id)      == id \in Ids(strategies) /\ ~strategies[id].deleted
VersionsOf(id) == {v \in Ids(versions) : versions[v].strategy = id}
Numbers(id)    == {versions[v].version : v \in VersionsOf(id)}

Version(id, number, doc) == [strategy |-> id, version |-> number, doc |-> doc]

\* create_strategy: the row and its first version.
Insert(doc) ==
    /\ Len(strategies) < MaxStrategies
    /\ Len(versions) < MaxVersions
    /\ strategies' = Append(strategies, [doc |-> doc, deleted |-> FALSE])
    /\ versions' = Append(versions, Version(Len(strategies'), 1, doc))

CreateStrategy(doc) ==
    /\ Valid(doc)
    /\ Insert(doc)
    /\ UNCHANGED <<runs, request>>

\* duplicate_strategy of a strategy that is not deleted.
DuplicateStrategy(id) ==
    /\ Alive(id)
    /\ Insert(strategies[id].doc)
    /\ UNCHANGED <<runs, request>>

\* delete_strategy: deleted_at is set, the row and its versions stay.
SoftDelete(id) ==
    /\ Alive(id)
    /\ strategies' = [strategies EXCEPT ![id].deleted = TRUE]
    /\ UNCHANGED <<versions, runs, request>>

\* update_strategy, first read: the strategy as it is now.
UpdateReads(q, id, doc) ==
    /\ request[q] = << >>
    /\ Alive(id)
    /\ Valid(doc)
    /\ request' = [request EXCEPT ![q] =
                     [step |-> "read", strategy |-> id, doc |-> doc,
                      before |-> strategies[id].doc, number |-> 0]]
    /\ UNCHANGED <<strategies, versions, runs>>

Pending(q, step) == request[q] # << >> /\ request[q].step = step

\* Mutation: the comparison comes after the assignment.
ChangedAfter(req) == FALSE

\* json_changed, against what was read, and _next_version_number.
JsonChanged(req)      == req.doc # req.before
NextVersionNumber(id) == Max({0} \cup Numbers(id)) + 1

\* The second read, of the greatest version number.
UpdateNumbers(q) ==
    /\ Pending(q, "read")
    /\ JsonChanged(request[q])
    /\ request' = [request EXCEPT ![q].step = "numbered",
                                  ![q].number = NextVersionNumber(request[q].strategy)]
    /\ UNCHANGED <<strategies, versions, runs>>

\* The commit: the document and the version row together.
UpdateCommits(q) ==
    LET req == request[q]
    IN  /\ Pending(q, "numbered")
        /\ Len(versions) < MaxVersions
        /\ strategies' = [strategies EXCEPT ![req.strategy].doc = req.doc]
        /\ versions' = Append(versions, Version(req.strategy, req.number, req.doc))
        /\ request' = [request EXCEPT ![q] = << >>]
        /\ UNCHANGED runs

\* The document that was read is sent back: the commit writes nothing of it.
\* SQLAlchemy leaves a column out of the UPDATE that was set to an equal value.
WrittenBack(req) == IF req.doc # req.before THEN req.doc ELSE strategies[req.strategy].doc

UpdateUnchanged(q) ==
    LET req == request[q]
    IN  /\ Pending(q, "read")
        /\ ~JsonChanged(req)
        /\ strategies' = [strategies EXCEPT ![req.strategy].doc = WrittenBack(req)]
        /\ request' = [request EXCEPT ![q] = << >>]
        /\ UNCHANGED <<versions, runs>>

\* create_backtest_run: the strategy is read and validated once more.
RunReads(q, id) ==
    /\ request[q] = << >>
    /\ Alive(id)
    /\ Valid(strategies[id].doc)
    /\ request' = [request EXCEPT ![q] =
                     [step |-> "snapshot", strategy |-> id, doc |-> strategies[id].doc,
                      before |-> strategies[id].doc, number |-> Max(VersionsOf(id))]]
    /\ UNCHANGED <<strategies, versions, runs>>

\* The row, with a deep copy of the document.  madeOf, which no column holds, is
\* the version that was current when the strategy was read.
RunCommits(q) ==
    LET req == request[q]
    IN  /\ Pending(q, "snapshot")
        /\ Len(runs) < MaxRuns
        /\ runs' = Append(runs, [strategy |-> req.strategy, snapshot |-> req.doc,
                                 status |-> "PENDING", madeOf |-> req.number])
        /\ request' = [request EXCEPT ![q] = << >>]
        /\ UNCHANGED <<strategies, versions>>

\* Mutation: the run is evaluated on the strategy as it is by then.
CurrentDocument(r) == strategies[runs[r].strategy].doc

\* What run_backtest gives to StrategyEngine.
Evaluated(r) == runs[r].snapshot

\* run_backtest, from one end to the other: RunLifecycle has its steps.
RunEvaluates(r) ==
    /\ runs[r].status = "PENDING"
    /\ runs' = [runs EXCEPT ![r].status = IF SignalsRaise(Evaluated(r)) THEN "FAILED" ELSE "COMPLETED"]
    /\ UNCHANGED <<strategies, versions, request>>

\* A request dies before its commit: an exception, or the process.
RequestLost(q) ==
    /\ request[q] # << >>
    /\ request' = [request EXCEPT ![q] = << >>]
    /\ UNCHANGED <<strategies, versions, runs>>

StoreNext(offered) ==
    \/ \E doc \in offered : CreateStrategy(doc)
    \/ \E id \in Ids(strategies) : DuplicateStrategy(id) \/ SoftDelete(id)
    \/ \E q \in Requests :
        \/ \E id \in Ids(strategies) : RunReads(q, id) \/ \E doc \in offered : UpdateReads(q, id, doc)
        \/ UpdateNumbers(q) \/ UpdateCommits(q) \/ UpdateUnchanged(q) \/ RunCommits(q) \/ RequestLost(q)
    \/ \E r \in Ids(runs) : RunEvaluates(r)

StoreSpec == StoreInit /\ [][StoreNext(Documents)]_storeVars
-----------------------------------------------------------------------------
RequestType ==
    [step : {"read", "numbered", "snapshot"}, strategy : Ids(strategies), doc : Documents,
     before : Documents, number : Nat]

StoreTypeOK ==
    /\ strategies \in Seq([doc : Documents, deleted : BOOLEAN])
    /\ versions \in Seq([strategy : Ids(strategies), version : Nat \ {0}, doc : Documents])
    /\ runs \in Seq([strategy : Ids(strategies), snapshot : Documents, madeOf : Ids(versions),
                     status : {"PENDING", "COMPLETED", "FAILED"}])
    /\ request \in [Requests -> RequestType \cup {<< >>}]

\* The history has the document a strategy has, and its numbers have no gap:
\* whatever updates overlap, are lost or send back what they have read, none makes
\* a document current without a row of its own.  Which row that is, the numbers
\* do not say: VersionsIncrease.
HistoryKeepsUp ==
    \A id \in Ids(strategies) :
        /\ Numbers(id) = 1 .. Max(Numbers(id))
        /\ \E v \in VersionsOf(id) : versions[v].doc = strategies[id].doc

\* A run ends as the version it was made of would, not as the strategy has become.
RunsKeepTheirSnapshot ==
    \A r \in Ids(runs) :
        /\ runs[r].snapshot = versions[runs[r].madeOf].doc
        /\ runs[r].status # "PENDING" =>
             (runs[r].status = "FAILED" <=> SignalsRaise(versions[runs[r].madeOf].doc))

\* A saved condition is where its evaluator can serve it.  Those of entry, filters
\* and exit_signal, in groups or not, are on the time series; those of
\* exit_position are on the position, and unless it is a GROUP they are the rules
\* a position is held against.  Nothing is said of the rules read of a GROUP there:
\* those in its groups are accepted and never looked at, and what stands beside
\* them, which nobody has validated, is.
ConditionsAreRouted ==
    \A id \in Ids(strategies) :
        LET doc == strategies[id].doc
        IN  /\ \A c \in Signalling(doc) : c.type \in TimeseriesTypes
            /\ "exit_position" \in DOMAIN doc =>
                 /\ \A c \in InSection(doc.exit_position) : c.type \in PositionTypes
                 /\ \/ IsGroup(doc.exit_position)
                    \/ ExitRules(doc) = InSection(doc.exit_position)

-----------------------------------------------------------------------------
(* A statement of the models that the code does not keep. *)

\* Docstring of StrategyVersion: in one strategy the version increases, row by
\* row, from 1.
VersionsIncrease ==
    \A id \in Ids(strategies) : \A v, w \in VersionsOf(id) :
        v < w => versions[v].version < versions[w].version
=============================================================================
