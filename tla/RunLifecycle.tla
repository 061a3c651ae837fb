---------------------------- MODULE RunLifecycle ----------------------------
(***************************************************************************)
(* The life of a backtest run: the row of backtest_runs, the background    *)
(* worker that executes it (services/backtest_service.py, run_backtest),   *)
(* the in-process registry of cancellation tokens (core/cancellation.py)   *)
(* and the cancel requests of clients (api/routes_backtests.py, cancel).   *)
(*                                                                         *)
(* Workers and requests run in different threads with a database session   *)
(* each, so an action here is what one of them does between two points at  *)
(* which another may observe it: a read of the row, a commit, or an access *)
(* to the registry.                                                        *)
(***************************************************************************)
EXTENDS Naturals, FiniteSets

CONSTANTS
    Runs,        \* backtest runs
    Requests,    \* POST /api/backtests/{run_id}/cancel calls
    Days,        \* trading dates the engine loops over
    FaultKinds,  \* which operations of a worker may raise
    MaxFaults,   \* bound: exceptions in a behaviour
    MaxCrashes   \* bound: restarts of the server process

ASSUME DaysAssumption == Days \in Nat
ASSUME BoundsAssumption == MaxFaults \in Nat /\ MaxCrashes \in Nat

\* The four _persist_* calls of run_backtest, in program order: the summary,
\* trade groups with executions, daily equity, cash events.  A run's saved
\* rows are counted by how many of the four have gone through.
SaveSteps == 4

Status == {"pending", "running", "completed", "failed", "cancelling", "cancelled"}
NoRow  == "norow"

VARIABLES
    db,        \* status column of a run's row, as committed
    results,   \* how many of the save steps are committed for the run
    wpc,       \* where the run's background worker is
    seen,      \* the status the worker loaded when it started
    day,       \* trading dates the engine has processed
    pending,   \* save steps flushed in the worker's open transaction
    token,     \* the registry: "none", or the state of the token's event
    cpc,       \* where a cancel request is
    target,    \* the run a request is about
    told,      \* the status the request's response reported
    faults,    \* exceptions so far
    crashes    \* restarts so far

rowVars    == <<db, results>>
workerVars == <<wpc, seen, day, pending>>
cancelVars == <<cpc, target, told>>
envVars    == <<faults, crashes>>
vars       == <<rowVars, workerVars, token, cancelVars, envVars>>

\* Inside the try block of run_backtest, its except clauses included.
InTry   == {"looping", "saving", "committed", "stopping", "failing", "broken"}
\* ... and the finally clause still to run.
Leaving == {"leaving", "abandoning"}
\* The worker's thread has returned, or died with the process.
Over    == {"ended", "abandoned", "crashed"}
WorkerPc  == {"absent", "queued", "loaded", "starting"} \cup InTry \cup Leaving \cup Over
RequestPc == {"idle", "refused", "checked", "marked", "unfound", "signalled", "answered", "lost"}
Answered  == {"refused", "answered", "lost"}

Init ==
    /\ db = [r \in Runs |-> NoRow]
    /\ results = [r \in Runs |-> 0]
    /\ wpc = [r \in Runs |-> "absent"]
    /\ seen = [r \in Runs |-> NoRow]
    /\ day = [r \in Runs |-> 0]
    /\ pending = [r \in Runs |-> 0]
    /\ token = [r \in Runs |-> "none"]
    /\ cpc = [c \in Requests |-> "idle"]
    /\ target \in [Requests -> Runs]
    /\ told = [c \in Requests |-> NoRow]
    /\ faults = 0
    /\ crashes = 0

-----------------------------------------------------------------------------
(* The worker *)

Goto(r, l) == wpc' = [wpc EXCEPT ![r] = l]

\* An exception of kind k, within the bound.
Raise(k) ==
    /\ k \in FaultKinds
    /\ faults < MaxFaults
    /\ faults' = faults + 1
    /\ UNCHANGED crashes

\* create_backtest: the row is committed as PENDING, then the task is queued.
CreateRun(r) ==
    /\ wpc[r] = "absent"
    /\ db' = [db EXCEPT ![r] = "pending"]
    /\ Goto(r, "queued")
    /\ UNCHANGED <<results, seen, day, pending, token, cancelVars, envVars>>

\* _get_run: the worker reads the row once and keeps what it read.
LoadRun(r) ==
    /\ wpc[r] = "queued"
    /\ seen' = [seen EXCEPT ![r] = db[r]]
    /\ Goto(r, "loaded")
    /\ UNCHANGED <<rowVars, day, pending, token, cancelVars, envVars>>

\* Building the data frame, or the first commit, raises outside the try
\* block: _run_in_background suppresses it and nothing is written.
StartFails(r) ==
    /\ wpc[r] = "loaded"
    /\ \E k \in {"data", "commit"} : Raise(k)
    /\ Goto(r, "abandoned")
    /\ UNCHANGED <<rowVars, seen, day, pending, token, cancelVars>>

HonourEarlyCancel(r) ==
    /\ wpc[r] = "loaded"
    /\ seen[r] = "cancelling"
    /\ db' = [db EXCEPT ![r] = "cancelled"]
    /\ Goto(r, "ended")
    /\ UNCHANGED <<results, seen, day, pending, token, cancelVars, envVars>>

\* Any status but CANCELLING is overwritten by RUNNING.
StartRunning(r) ==
    /\ wpc[r] = "loaded"
    /\ seen[r] # "cancelling"
    /\ db' = [db EXCEPT ![r] = "running"]
    /\ Goto(r, "starting")
    /\ UNCHANGED <<results, seen, day, pending, token, cancelVars, envVars>>

RegisterToken(r) ==
    /\ wpc[r] = "starting"
    /\ token' = [token EXCEPT ![r] = "clear"]
    /\ Goto(r, "looping")
    /\ UNCHANGED <<rowVars, seen, day, pending, cancelVars, envVars>>

\* Mutations: the loop runs one date too many, or ignores the token.
TradeDayPastEnd(r) ==
    /\ wpc[r] = "looping"
    /\ day[r] <= Days
    /\ token[r] # "set"
    /\ day' = [day EXCEPT ![r] = @ + 1]
    /\ UNCHANGED <<rowVars, wpc, seen, pending, token, cancelVars, envVars>>

TradeDayUnchecked(r) ==
    /\ wpc[r] = "looping"
    /\ day[r] < Days
    /\ day' = [day EXCEPT ![r] = @ + 1]
    /\ UNCHANGED <<rowVars, wpc, seen, pending, token, cancelVars, envVars>>

\* One turn of the date loop: the token is looked at, then the day is run.
TradeDay(r) ==
    /\ wpc[r] = "looping"
    /\ day[r] < Days
    /\ token[r] # "set"
    /\ day' = [day EXCEPT ![r] = @ + 1]
    /\ UNCHANGED <<rowVars, wpc, seen, pending, token, cancelVars, envVars>>

\* check_cancelled raises BacktestCancelledError at the top of the loop.
StopOnSignal(r) ==
    /\ wpc[r] = "looping"
    /\ day[r] < Days
    /\ token[r] = "set"
    /\ Goto(r, "stopping")
    /\ UNCHANGED <<rowVars, seen, day, pending, token, cancelVars, envVars>>

\* After the last date nothing looks at the token any more.
FinishLoop(r) ==
    /\ wpc[r] = "looping"
    /\ day[r] = Days
    /\ Goto(r, "saving")
    /\ UNCHANGED <<rowVars, seen, day, pending, token, cancelVars, envVars>>

\* Mutation: each _persist_* call commits instead of flushing.
FlushAndCommit(r) ==
    /\ wpc[r] = "saving"
    /\ pending[r] < SaveSteps
    /\ pending' = [pending EXCEPT ![r] = @ + 1]
    /\ results' = [results EXCEPT ![r] = pending[r] + 1]
    /\ UNCHANGED <<db, wpc, seen, day, token, cancelVars, envVars>>

Flush(r) ==
    /\ wpc[r] = "saving"
    /\ pending[r] < SaveSteps
    /\ pending' = [pending EXCEPT ![r] = @ + 1]
    /\ UNCHANGED <<rowVars, wpc, seen, day, token, cancelVars, envVars>>

\* Mutation: COMPLETED is committed before the last rows are flushed.
CommitEarly(r) ==
    /\ wpc[r] = "saving"
    /\ db' = [db EXCEPT ![r] = "completed"]
    /\ results' = [results EXCEPT ![r] = pending[r]]
    /\ pending' = [pending EXCEPT ![r] = 0]
    /\ Goto(r, "committed")
    /\ UNCHANGED <<seen, day, token, cancelVars, envVars>>

\* One commit for the status and everything flushed.
CommitCompleted(r) ==
    /\ wpc[r] = "saving"
    /\ pending[r] = SaveSteps
    /\ db' = [db EXCEPT ![r] = "completed"]
    /\ results' = [results EXCEPT ![r] = pending[r]]
    /\ pending' = [pending EXCEPT ![r] = 0]
    /\ Goto(r, "committed")
    /\ UNCHANGED <<seen, day, token, cancelVars, envVars>>

Refreshed(r) ==
    /\ wpc[r] = "committed"
    /\ Goto(r, "leaving")
    /\ UNCHANGED <<rowVars, seen, day, pending, token, cancelVars, envVars>>

\* An exception of the engine, of the metrics or of building the rows leaves
\* the open transaction as it is: what was flushed stays in it.
TryRaises(r) ==
    /\ wpc[r] \in {"looping", "saving"}
    /\ Raise("engine")
    /\ Goto(r, "failing")
    /\ UNCHANGED <<rowVars, seen, day, pending, token, cancelVars>>

\* The database rejects a flush: the session rolls back and refuses to commit
\* until somebody calls rollback(), which nobody does.
FlushFails(r) ==
    /\ wpc[r] = "saving"
    /\ pending[r] < SaveSteps
    /\ Raise("flush")
    /\ pending' = [pending EXCEPT ![r] = 0]
    /\ Goto(r, "broken")
    /\ UNCHANGED <<rowVars, seen, day, token, cancelVars>>

\* The database rejects the final commit, which rolls back as a whole.  Whether
\* the session takes another commit depends on the point at which it failed.
CommitFails(r) ==
    /\ wpc[r] = "saving"
    /\ pending[r] = SaveSteps
    /\ Raise("commit")
    /\ pending' = [pending EXCEPT ![r] = 0]
    /\ \E l \in {"failing", "broken"} : Goto(r, l)
    /\ UNCHANGED <<rowVars, seen, day, token, cancelVars>>

\* session.refresh raises although the run is already COMPLETED.
RefreshFails(r) ==
    /\ wpc[r] = "committed"
    /\ Raise("refresh")
    /\ Goto(r, "failing")
    /\ UNCHANGED <<rowVars, seen, day, pending, token, cancelVars>>

\* except BacktestCancelledError
WriteCancelled(r) ==
    /\ wpc[r] = "stopping"
    /\ db' = [db EXCEPT ![r] = "cancelled"]
    /\ Goto(r, "leaving")
    /\ UNCHANGED <<results, seen, day, pending, token, cancelVars, envVars>>

\* Mutation: FAILED replaces whatever was saved.
WriteFailedOver(r) ==
    /\ wpc[r] = "failing"
    /\ db' = [db EXCEPT ![r] = "failed"]
    /\ results' = [results EXCEPT ![r] = pending[r]]
    /\ pending' = [pending EXCEPT ![r] = 0]
    /\ Goto(r, "leaving")
    /\ UNCHANGED <<seen, day, token, cancelVars, envVars>>

\* except Exception: no rollback, so the commit saves what was flushed.
WriteFailed(r) ==
    /\ wpc[r] = "failing"
    /\ db' = [db EXCEPT ![r] = "failed"]
    /\ results' = [results EXCEPT ![r] = IF pending[r] = 0 THEN @ ELSE pending[r]]
    /\ pending' = [pending EXCEPT ![r] = 0]
    /\ Goto(r, "leaving")
    /\ UNCHANGED <<seen, day, token, cancelVars, envVars>>

\* The commit of an except clause raises in its turn.
HandlerRaises(r) ==
    /\ \/ wpc[r] = "broken" /\ UNCHANGED envVars
       \/ wpc[r] \in {"stopping", "failing"} /\ Raise("commit")
    /\ pending' = [pending EXCEPT ![r] = 0]
    /\ Goto(r, "abandoning")
    /\ UNCHANGED <<rowVars, seen, day, token, cancelVars>>

\* Mutations: the clause forgets the token, or is not a finally clause.
LeaveWithToken(r) ==
    /\ wpc[r] \in Leaving
    /\ Goto(r, IF wpc[r] = "leaving" THEN "ended" ELSE "abandoned")
    /\ UNCHANGED <<rowVars, seen, day, pending, token, cancelVars, envVars>>

UnregisterOnSuccess(r) ==
    /\ wpc[r] = "leaving"
    /\ token' = [token EXCEPT ![r] = "none"]
    /\ Goto(r, "ended")
    /\ UNCHANGED <<rowVars, seen, day, pending, cancelVars, envVars>>

\* finally: unregister_token
Unregister(r) ==
    /\ wpc[r] \in Leaving
    /\ token' = [token EXCEPT ![r] = "none"]
    /\ Goto(r, IF wpc[r] = "leaving" THEN "ended" ELSE "abandoned")
    /\ UNCHANGED <<rowVars, seen, day, pending, cancelVars, envVars>>

WorkerFault(r) ==
    \/ StartFails(r) \/ TryRaises(r) \/ FlushFails(r) \/ CommitFails(r)
    \/ RefreshFails(r) \/ HandlerRaises(r)

Worker(r) ==
    \/ LoadRun(r) \/ HonourEarlyCancel(r) \/ StartRunning(r) \/ RegisterToken(r)
    \/ TradeDay(r) \/ StopOnSignal(r) \/ FinishLoop(r) \/ Flush(r)
    \/ CommitCompleted(r) \/ Refreshed(r) \/ WriteCancelled(r) \/ WriteFailed(r)
    \/ Unregister(r) \/ WorkerFault(r)

-----------------------------------------------------------------------------
(* The cancel endpoint *)

\* The request reads the row; only PENDING and RUNNING are accepted, any other
\* status is answered 409.
CheckRow(c) ==
    /\ cpc[c] = "idle"
    /\ db[target[c]] # NoRow
    /\ cpc' = [cpc EXCEPT ![c] = IF db[target[c]] \in {"pending", "running"}
                                   THEN "checked" ELSE "refused"]
    /\ UNCHANGED <<rowVars, workerVars, token, target, told, envVars>>

\* The first commit is made whatever the row has become since it was read.
MarkCancelling(c) ==
    /\ cpc[c] = "checked"
    /\ db' = [db EXCEPT ![target[c]] = "cancelling"]
    /\ cpc' = [cpc EXCEPT ![c] = "marked"]
    /\ UNCHANGED <<results, workerVars, token, target, told, envVars>>

\* cancel_run: set the event of the registered token, if there is one.
CancelRun(c) ==
    /\ cpc[c] = "marked"
    /\ LET found == token[target[c]] # "none" IN
         /\ token' = IF found THEN [token EXCEPT ![target[c]] = "set"] ELSE token
         /\ cpc' = [cpc EXCEPT ![c] = IF found THEN "signalled" ELSE "unfound"]
    /\ UNCHANGED <<rowVars, workerVars, target, told, envVars>>

CancelDirectly(c) ==
    /\ cpc[c] = "unfound"
    /\ db' = [db EXCEPT ![target[c]] = "cancelled"]
    /\ cpc' = [cpc EXCEPT ![c] = "signalled"]
    /\ UNCHANGED <<results, workerVars, token, target, told, envVars>>

\* session.refresh(run), and the row goes into the response.
Respond(c) ==
    /\ cpc[c] = "signalled"
    /\ told' = [told EXCEPT ![c] = db[target[c]]]
    /\ cpc' = [cpc EXCEPT ![c] = "answered"]
    /\ UNCHANGED <<rowVars, workerVars, token, target, envVars>>

Handler(c) == MarkCancelling(c) \/ CancelRun(c) \/ CancelDirectly(c) \/ Respond(c)

-----------------------------------------------------------------------------
\* The process dies: threads, open transactions and the registry are gone, and
\* no start-up code looks at rows left behind.
Crash ==
    /\ crashes < MaxCrashes
    /\ crashes' = crashes + 1
    /\ wpc' = [r \in Runs |-> IF wpc[r] \in {"absent"} \cup Over THEN wpc[r] ELSE "crashed"]
    /\ pending' = [r \in Runs |-> 0]
    /\ token' = [r \in Runs |-> "none"]
    /\ cpc' = [c \in Requests |-> IF cpc[c] \in {"idle"} \cup Answered THEN cpc[c] ELSE "lost"]
    /\ UNCHANGED <<rowVars, seen, day, target, told, faults>>

Next ==
    \/ \E r \in Runs : CreateRun(r) \/ Worker(r)
    \/ \E c \in Requests : CheckRow(c) \/ Handler(c)
    \/ Crash

\* Threads of the pool keep running; nobody has to create a run or cancel one.
Fairness ==
    /\ \A r \in Runs : WF_vars(Worker(r))
    /\ \A c \in Requests : WF_vars(Handler(c))

Safety == Init /\ [][Next]_vars
Spec   == Safety /\ Fairness

-----------------------------------------------------------------------------
TypeOK ==
    /\ db \in [Runs -> Status \cup {NoRow}]
    /\ results \in [Runs -> 0..SaveSteps]
    /\ wpc \in [Runs -> WorkerPc]
    /\ seen \in [Runs -> Status \cup {NoRow}]
    /\ day \in [Runs -> 0..Days]
    /\ pending \in [Runs -> 0..SaveSteps]
    /\ token \in [Runs -> {"none", "clear", "set"}]
    /\ cpc \in [Requests -> RequestPc]
    /\ target \in [Requests -> Runs]
    /\ told \in [Requests -> Status \cup {NoRow}]
    /\ faults \in 0..MaxFaults
    /\ crashes \in 0..MaxCrashes

\* A run that reads COMPLETED has all of its results: whatever cancel requests
\* and failures interleave, no other path writes COMPLETED and none takes rows away.
CompletedIsSaved == \A r \in Runs : db[r] = "completed" => results[r] = SaveSteps

\* The registry holds a token exactly while a worker is between register_token
\* and the end of its finally clause: no exception path leaks one, and no
\* engine runs without one.
TokenIffWorker ==
    \A r \in Runs : token[r] # "none" <=> wpc[r] \in InTry \cup Leaving

\* A worker that returned in order, having handled whatever was raised in the
\* try block, leaves no row that still reads PENDING or RUNNING.
EndedRunIsSettled ==
    \A r \in Runs : wpc[r] = "ended" => db[r] \notin {NoRow, "pending", "running"}

Asked(r) == \E c \in Requests : target[c] = r /\ cpc[c] \notin {"idle", "refused", "checked"}

\* No run is cancelled that nobody asked to cancel: a CANCELLING or CANCELLED
\* row and a set event each trace back to a request that passed the 409 check.
CancelHasRequest ==
    \A r \in Runs :
        db[r] \in {"cancelling", "cancelled"} \/ token[r] = "set" => Asked(r)

\* The status column tells what has happened to the run, to whomever reads it in
\* whatever order workers, requests and failures came.
StatusIsTrue == CompletedIsSaved /\ EndedRunIsSettled /\ CancelHasRequest

\* The inductive invariant behind those above and ResultsPublishedOnce.
SettledBeforeLeaving ==
    \A r \in Runs :
        wpc[r] \in {"committed", "leaving", "ended"} => db[r] \notin {NoRow, "pending", "running"}

StopsOnlyIfAsked ==
    \A r \in Runs :
        db[r] \in {"cancelling", "cancelled"} \/ seen[r] = "cancelling"
            \/ token[r] = "set" \/ wpc[r] = "stopping" => Asked(r)

SavedOnlyAfterCommit ==
    \A r \in Runs :
        results[r] # 0 =>
            /\ wpc[r] \in {"committed", "failing"} \cup Leaving \cup Over
            /\ pending[r] = 0

IInv == CompletedIsSaved /\ TokenIffWorker /\ SettledBeforeLeaving /\ StopsOnlyIfAsked
          /\ SavedOnlyAfterCommit

\* The results of a run are published by one commit and never change after it,
\* even when that commit is followed by a failure or by a late cancel request.
ResultsPublishedOnce ==
    [][\A r \in Runs : results[r] # 0 => results'[r] = results[r]]_vars

\* Once a token is set with dates left to run, the engine loop stops there and
\* the row reaches CANCELLED, unless an exception or a restart comes first.
SignalledLoopStops ==
    \A r \in Runs :
        (wpc[r] = "looping" /\ token[r] = "set" /\ day[r] < Days /\ faults = 0)
            ~> (db[r] = "cancelled" \/ faults > 0 \/ crashes > 0)

\* Every queued task comes to an end.
EveryWorkerEnds == \A r \in Runs : (wpc[r] = "queued") ~> (wpc[r] \in Over)

Stage(l) ==
    IF l = "absent" THEN "unborn"
    ELSE IF l \in {"queued", "loaded"} THEN "waiting"
    ELSE IF l \in Over THEN "over" ELSE "executing"

Outcome ==
    INSTANCE RunOutcome WITH
        Pieces <- SaveSteps,
        stage <- [r \in Runs |-> Stage(wpc[r])],
        published <- results

\* To a reader of committed rows, all of this is a run that executes at most
\* once, publishes at most once in one piece, and is over in the end.
ImplementsRunOutcome == Outcome!Spec

\* The comment in cancel: a run cancelled before its engine started is dealt
\* with when the service starts, so a CANCELLED row never turns RUNNING.
CancelledNeverStarts ==
    [][\A r \in Runs : db[r] = "cancelled" => db'[r] # "running"]_vars
=============================================================================
