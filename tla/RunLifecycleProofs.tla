------------------------- MODULE RunLifecycleProofs -------------------------
(***************************************************************************)
(* Proofs about RunLifecycle, for any number of runs, cancel requests and  *)
(* trading dates and any bounds on failures and restarts.                  *)
(***************************************************************************)
EXTENDS RunLifecycle, TLAPS

USE DEF SaveSteps, NoRow, Status, InTry, Leaving, Over, WorkerPc, RequestPc, Answered,
        vars, rowVars, workerVars, cancelVars, envVars

\* Every step keeps every variable in its type.
THEOREM TypeCorrect == Safety => []TypeOK
<1>1. Init => TypeOK
  BY DaysAssumption, BoundsAssumption DEF Init, TypeOK
<1>2. TypeOK /\ [Next]_vars => TypeOK'
  <2> SUFFICES ASSUME TypeOK, [Next]_vars PROVE TypeOK'
    OBVIOUS
  <2> USE DaysAssumption, BoundsAssumption DEF TypeOK, Goto, Raise
  <2>1. ASSUME NEW r \in Runs, CreateRun(r) PROVE TypeOK'
    BY <2>1 DEF CreateRun
  <2>2. ASSUME NEW r \in Runs, LoadRun(r) PROVE TypeOK'
    BY <2>2 DEF LoadRun
  <2>3. ASSUME NEW r \in Runs, HonourEarlyCancel(r) PROVE TypeOK'
    BY <2>3 DEF HonourEarlyCancel
  <2>4. ASSUME NEW r \in Runs, StartRunning(r) PROVE TypeOK'
    BY <2>4 DEF StartRunning
  <2>5. ASSUME NEW r \in Runs, RegisterToken(r) PROVE TypeOK'
    BY <2>5 DEF RegisterToken
  <2>6. ASSUME NEW r \in Runs, TradeDay(r) PROVE TypeOK'
    BY <2>6 DEF TradeDay
  <2>7. ASSUME NEW r \in Runs, StopOnSignal(r) \/ FinishLoop(r) \/ Refreshed(r) PROVE TypeOK'
    BY <2>7 DEF StopOnSignal, FinishLoop, Refreshed
  <2>8. ASSUME NEW r \in Runs, Flush(r) PROVE TypeOK'
    BY <2>8 DEF Flush
  <2>9. ASSUME NEW r \in Runs, CommitCompleted(r) PROVE TypeOK'
    BY <2>9 DEF CommitCompleted
  <2>10. ASSUME NEW r \in Runs, WriteCancelled(r) PROVE TypeOK'
    BY <2>10 DEF WriteCancelled
  <2>11. ASSUME NEW r \in Runs, WriteFailed(r) PROVE TypeOK'
    BY <2>11 DEF WriteFailed
  <2>12. ASSUME NEW r \in Runs, Unregister(r) PROVE TypeOK'
    BY <2>12 DEF Unregister
  <2>13. ASSUME NEW r \in Runs, StartFails(r) \/ TryRaises(r) \/ RefreshFails(r) PROVE TypeOK'
    BY <2>13 DEF StartFails, TryRaises, RefreshFails
  <2>14. ASSUME NEW r \in Runs, FlushFails(r) \/ CommitFails(r) PROVE TypeOK'
    BY <2>14 DEF FlushFails, CommitFails
  <2>15. ASSUME NEW r \in Runs, HandlerRaises(r) PROVE TypeOK'
    BY <2>15 DEF HandlerRaises
  <2>16. ASSUME NEW c \in Requests, CheckRow(c) PROVE TypeOK'
    BY <2>16 DEF CheckRow
  <2>17. ASSUME NEW c \in Requests, MarkCancelling(c) PROVE TypeOK'
    BY <2>17 DEF MarkCancelling
  <2>18. ASSUME NEW c \in Requests, CancelRun(c) PROVE TypeOK'
    BY <2>18 DEF CancelRun
  <2>19. ASSUME NEW c \in Requests, CancelDirectly(c) PROVE TypeOK'
    BY <2>19 DEF CancelDirectly
  <2>20. ASSUME NEW c \in Requests, Respond(c) PROVE TypeOK'
    BY <2>20 DEF Respond
  <2>21. CASE Crash
    BY <2>21 DEF Crash
  <2>22. CASE UNCHANGED vars
    BY <2>22
  <2>23. QED
    BY <2>1, <2>2, <2>3, <2>4, <2>5, <2>6, <2>7, <2>8, <2>9, <2>10, <2>11, <2>12, <2>13, <2>14,
       <2>15, <2>16, <2>17, <2>18, <2>19, <2>20, <2>21, <2>22
       DEF Next, Worker, WorkerFault, Handler
<1>3. QED
  BY <1>1, <1>2, PTL DEF Safety

\* The inductive invariant: what each step of a worker, a request or a restart preserves.
LEMMA InvariantHolds == Safety => []IInv
<1>1. Init => IInv
  BY DEF Init, IInv, CompletedIsSaved, TokenIffWorker, SettledBeforeLeaving, StopsOnlyIfAsked,
         SavedOnlyAfterCommit
<1>2. TypeOK /\ IInv /\ [Next]_vars => IInv'
  <2> SUFFICES ASSUME TypeOK, IInv, [Next]_vars PROVE IInv'
    OBVIOUS
  <2> USE DEF TypeOK, IInv, CompletedIsSaved, TokenIffWorker, SettledBeforeLeaving,
          StopsOnlyIfAsked, SavedOnlyAfterCommit, Asked, Goto, Raise
  <2>1. ASSUME NEW r \in Runs, CreateRun(r) PROVE IInv'
    BY <2>1 DEF CreateRun
  <2>2. ASSUME NEW r \in Runs, LoadRun(r) PROVE IInv'
    BY <2>2 DEF LoadRun
  <2>3. ASSUME NEW r \in Runs, StartFails(r) PROVE IInv'
    BY <2>3 DEF StartFails
  <2>4. ASSUME NEW r \in Runs, HonourEarlyCancel(r) PROVE IInv'
    BY <2>4 DEF HonourEarlyCancel
  <2>5. ASSUME NEW r \in Runs, StartRunning(r) PROVE IInv'
    BY <2>5 DEF StartRunning
  <2>6. ASSUME NEW r \in Runs, RegisterToken(r) PROVE IInv'
    BY <2>6 DEF RegisterToken
  <2>7. ASSUME NEW r \in Runs, TradeDay(r) PROVE IInv'
    BY <2>7 DEF TradeDay
  <2>8. ASSUME NEW r \in Runs, StopOnSignal(r) PROVE IInv'
    BY <2>8 DEF StopOnSignal
  <2>9. ASSUME NEW r \in Runs, FinishLoop(r) PROVE IInv'
    BY <2>9 DEF FinishLoop
  <2>10. ASSUME NEW r \in Runs, Flush(r) PROVE IInv'
    BY <2>10 DEF Flush
  <2>11. ASSUME NEW r \in Runs, CommitCompleted(r) PROVE IInv'
    BY <2>11 DEF CommitCompleted
  <2>12. ASSUME NEW r \in Runs, Refreshed(r) PROVE IInv'
    BY <2>12 DEF Refreshed
  <2>13. ASSUME NEW r \in Runs, TryRaises(r) PROVE IInv'
    BY <2>13 DEF TryRaises
  <2>14. ASSUME NEW r \in Runs, FlushFails(r) PROVE IInv'
    BY <2>14 DEF FlushFails
  <2>15. ASSUME NEW r \in Runs, CommitFails(r) PROVE IInv'
    BY <2>15 DEF CommitFails
  <2>16. ASSUME NEW r \in Runs, RefreshFails(r) PROVE IInv'
    BY <2>16 DEF RefreshFails
  <2>17. ASSUME NEW r \in Runs, WriteCancelled(r) PROVE IInv'
    BY <2>17 DEF WriteCancelled
  <2>18. ASSUME NEW r \in Runs, WriteFailed(r) PROVE IInv'
    BY <2>18 DEF WriteFailed
  <2>19. ASSUME NEW r \in Runs, HandlerRaises(r) PROVE IInv'
    BY <2>19 DEF HandlerRaises
  <2>20. ASSUME NEW r \in Runs, Unregister(r) PROVE IInv'
    BY <2>20 DEF Unregister
  <2>21. ASSUME NEW c \in Requests, CheckRow(c) PROVE IInv'
    BY <2>21 DEF CheckRow
  <2>22. ASSUME NEW c \in Requests, MarkCancelling(c) PROVE IInv'
    BY <2>22 DEF MarkCancelling
  <2>23. ASSUME NEW c \in Requests, CancelRun(c) PROVE IInv'
    BY <2>23 DEF CancelRun
  <2>24. ASSUME NEW c \in Requests, CancelDirectly(c) PROVE IInv'
    BY <2>24 DEF CancelDirectly
  <2>25. ASSUME NEW c \in Requests, Respond(c) PROVE IInv'
    BY <2>25 DEF Respond
  <2>26. CASE Crash
    BY <2>26 DEF Crash
  <2>27. CASE UNCHANGED vars
    BY <2>27
  <2>28. QED
    BY <2>1, <2>2, <2>3, <2>4, <2>5, <2>6, <2>7, <2>8, <2>9, <2>10, <2>11, <2>12, <2>13, <2>14,
       <2>15, <2>16, <2>17, <2>18, <2>19, <2>20, <2>21, <2>22, <2>23, <2>24, <2>25, <2>26,
       <2>27 DEF Next, Worker, WorkerFault, Handler
<1>3. QED
  BY TypeCorrect, <1>1, <1>2, PTL DEF Safety

\* COMPLETED rows always have all of their results.
THEOREM CompletedRunsAreSaved == Safety => []CompletedIsSaved
  BY InvariantHolds, PTL DEF IInv

\* The registry holds tokens of live workers only, and of all that are past registering.
THEOREM TokensBelongToWorkers == Safety => []TokenIffWorker
  BY InvariantHolds, PTL DEF IInv

\* A worker that returned in order left a settled row.
THEOREM EndedRunsAreSettled == Safety => []EndedRunIsSettled
<1>1. IInv => EndedRunIsSettled
  BY DEF IInv, SettledBeforeLeaving, EndedRunIsSettled
<1>2. QED
  BY InvariantHolds, <1>1, PTL

\* Nothing is cancelled unasked.
THEOREM CancelsAreAskedFor == Safety => []CancelHasRequest
<1>1. IInv => CancelHasRequest
  BY DEF IInv, StopsOnlyIfAsked, CancelHasRequest
<1>2. QED
  BY InvariantHolds, <1>1, PTL

\* What a reader of the status column is told is true: completed runs are saved,
\* ended ones are settled, cancelled ones were to be cancelled.
THEOREM StatusesAreTrue == Safety => []StatusIsTrue
  BY CompletedRunsAreSaved, EndedRunsAreSettled, CancelsAreAskedFor, PTL DEF StatusIsTrue

\* Results are published by one commit and stay as published.
THEOREM ResultsArePublishedOnce == Safety => ResultsPublishedOnce
<1>1. TypeOK /\ IInv /\ [Next]_vars
        => [\A r \in Runs : results[r] # 0 => results'[r] = results[r]]_vars
  <2> SUFFICES ASSUME TypeOK, IInv, Next, NEW r \in Runs, results[r] # 0
               PROVE  results'[r] = results[r]
    OBVIOUS
  <2>1. pending[r] = 0 /\ wpc[r] # "saving"
    BY DEF IInv, SavedOnlyAfterCommit
  <2>2. ASSUME NEW q \in Runs, CommitCompleted(q) PROVE results'[r] = results[r]
    BY <2>1, <2>2 DEF CommitCompleted, TypeOK
  <2>3. ASSUME NEW q \in Runs, WriteFailed(q) PROVE results'[r] = results[r]
    BY <2>1, <2>3 DEF WriteFailed, TypeOK
  <2>4. ASSUME NEW q \in Runs, Worker(q), ~CommitCompleted(q), ~WriteFailed(q)
        PROVE  results' = results
    BY <2>4 DEF Worker, WorkerFault, LoadRun, StartFails, HonourEarlyCancel, StartRunning,
       RegisterToken, TradeDay, StopOnSignal, FinishLoop, Flush, Refreshed, TryRaises,
       FlushFails, CommitFails, RefreshFails, WriteCancelled, HandlerRaises, Unregister
  <2>5. ASSUME NEW c \in Requests, CheckRow(c) \/ Handler(c) PROVE results' = results
    BY <2>5 DEF CheckRow, Handler, MarkCancelling, CancelRun, CancelDirectly, Respond
  <2>6. QED
    BY <2>2, <2>3, <2>4, <2>5 DEF Next, CreateRun, Crash
<1>2. QED
  BY TypeCorrect, InvariantHolds, <1>1, PTL DEF Safety, ResultsPublishedOnce

\* Every step of the detailed model is a step, or a stutter, of RunOutcome.
THEOREM RefinesRunOutcome == Safety => Outcome!Safety
<1> USE DEF Stage, Goto
<1>1. Init => Outcome!Init
  BY DEF Init, Outcome!Init
<1>2. TypeOK /\ IInv /\ [Next]_vars => [Outcome!Next]_Outcome!vars
  <2> SUFFICES ASSUME TypeOK, IInv, [Next]_vars PROVE [Outcome!Next]_Outcome!vars
    OBVIOUS
  <2> USE DEF TypeOK, Outcome!vars, Outcome!Move
  <2>1. ASSUME NEW r \in Runs, CreateRun(r) PROVE Outcome!Submit(r)
    BY <2>1, ZenonT(40) DEF CreateRun, Outcome!Submit
  <2>2. ASSUME NEW r \in Runs, StartRunning(r) PROVE Outcome!Begin(r)
    BY <2>2, ZenonT(40) DEF StartRunning, Outcome!Begin
  <2>3. ASSUME NEW r \in Runs, StartFails(r) \/ HonourEarlyCancel(r) \/ Unregister(r)
        PROVE  Outcome!End(r)
    <3>1. results' = results
      BY <2>3 DEF StartFails, HonourEarlyCancel, Unregister
    <3>2. Stage(wpc[r]) \in {"waiting", "executing"}
      BY <2>3 DEF StartFails, HonourEarlyCancel, Unregister
    <3>3. \E l \in Over : wpc' = [wpc EXCEPT ![r] = l]
      BY <2>3 DEF StartFails, HonourEarlyCancel, Unregister
    <3>4. \A q \in Runs : Stage(wpc'[q]) = IF q = r THEN "over" ELSE Stage(wpc[q])
      BY <3>3
    <3>5. QED
      BY <3>1, <3>2, <3>4 DEF Outcome!End
  <2>4. ASSUME NEW r \in Runs, CommitCompleted(r) PROVE Outcome!Publish(r)
    <3>1. results[r] = 0
      BY <2>4 DEF CommitCompleted, IInv, SavedOnlyAfterCommit
    <3>2. QED
      BY <2>4, <3>1 DEF CommitCompleted, Outcome!Publish
  <2>5. ASSUME NEW r \in Runs, WriteFailed(r)
        PROVE  Outcome!Publish(r) \/ UNCHANGED Outcome!vars
    <3>1. CASE pending[r] = 0
      BY <2>5, <3>1 DEF WriteFailed
    <3>2. CASE pending[r] # 0
      <4>1. results[r] = 0
        BY <2>5, <3>2 DEF WriteFailed, IInv, SavedOnlyAfterCommit
      <4>2. pending[r] \in 1..SaveSteps /\ results' = [results EXCEPT ![r] = pending[r]]
        BY <2>5, <3>2 DEF WriteFailed
      <4>3. \A q \in Runs : Stage(wpc'[q]) = Stage(wpc[q])
        BY <2>5 DEF WriteFailed
      <4>4. Stage(wpc[r]) = "executing"
        BY <2>5 DEF WriteFailed
      <4>5. QED
        BY <4>1, <4>2, <4>3, <4>4 DEF Outcome!Publish
    <3>3. QED
      BY <3>1, <3>2
  <2>6. ASSUME NEW r \in Runs,
               \/ LoadRun(r) \/ RegisterToken(r) \/ TradeDay(r) \/ StopOnSignal(r)
               \/ FinishLoop(r) \/ Flush(r) \/ Refreshed(r) \/ WriteCancelled(r)
               \/ TryRaises(r) \/ FlushFails(r) \/ CommitFails(r) \/ RefreshFails(r)
               \/ HandlerRaises(r)
        PROVE  UNCHANGED Outcome!vars
    <3>1. results' = results
      BY <2>6 DEF LoadRun, RegisterToken, TradeDay, StopOnSignal, FinishLoop, Flush, Refreshed,
         WriteCancelled, TryRaises, FlushFails, CommitFails, RefreshFails, HandlerRaises
    <3>2. \A q \in Runs : Stage(wpc'[q]) = Stage(wpc[q])
      BY <2>6 DEF LoadRun, RegisterToken, TradeDay, StopOnSignal, FinishLoop, Flush, Refreshed,
         WriteCancelled, TryRaises, FlushFails, CommitFails, RefreshFails, HandlerRaises
    <3>3. QED
      BY <3>1, <3>2
  <2>7. ASSUME NEW c \in Requests, CheckRow(c) \/ Handler(c) PROVE UNCHANGED Outcome!vars
    BY <2>7 DEF CheckRow, Handler, MarkCancelling, CancelRun, CancelDirectly, Respond
  <2>8. ASSUME Crash PROVE Outcome!EndAll
    <3>1. \A q \in Runs :
            Stage(wpc'[q]) = IF Stage(wpc[q]) \in {"waiting", "executing"}
                               THEN "over" ELSE Stage(wpc[q])
      BY <2>8 DEF Crash
    <3>2. results' = results
      BY <2>8 DEF Crash
    <3>3. QED
      BY <3>1, <3>2 DEF Outcome!EndAll
  <2>9. ASSUME NEW r \in Runs, CreateRun(r) \/ Worker(r) PROVE [Outcome!Next]_Outcome!vars
    <3>1. CASE UNCHANGED Outcome!vars
      BY <3>1
    <3>2. CASE Outcome!Submit(r) \/ Outcome!Begin(r) \/ Outcome!End(r) \/ Outcome!Publish(r)
      BY <3>2 DEF Outcome!Next
    <3>3. QED
      BY <2>1, <2>2, <2>3, <2>4, <2>5, <2>6, <2>9, <3>1, <3>2 DEF Worker, WorkerFault
  <2>10. QED
    BY <2>7, <2>8, <2>9 DEF Next, Outcome!Next
<1>3. QED
  BY TypeCorrect, InvariantHolds, <1>1, <1>2, PTL DEF Safety, Outcome!Safety
-----------------------------------------------------------------------------
(* How far a worker and a request are from their end: the step half of          *)
(* EveryWorkerEnds and of SignalledLoopStops, which TLC checks.                 *)

\* The steps a worker can still take: dates of the loop, save steps, and the ways out.
WorkLeft(r) ==
    CASE wpc[r] = "queued"   -> Days + SaveSteps + 8
      [] wpc[r] = "loaded"   -> Days + SaveSteps + 7
      [] wpc[r] = "starting" -> Days + SaveSteps + 6
      [] wpc[r] = "looping"  -> (Days - day[r]) + SaveSteps + 5
      [] wpc[r] = "saving"   -> (SaveSteps - pending[r]) + 4
      [] wpc[r] = "committed" -> 3
      [] wpc[r] \in {"stopping", "failing", "broken"} -> 2
      [] wpc[r] \in Leaving  -> 1
      [] OTHER               -> 0

\* The steps a request can still take.
AnswerLeft(c) ==
    CASE cpc[c] = "checked"   -> 4
      [] cpc[c] = "marked"    -> 3
      [] cpc[c] = "unfound"   -> 2
      [] cpc[c] = "signalled" -> 1
      [] OTHER                -> 0

(* Every step of a worker and of a cancel request brings its own end nearer, an
   exception and its handler included, and no step of anybody else, a restart
   included, puts the end of one that has begun further off (run_backtest;
   routes_backtests.py cancel). *)
EverybodyAdvances ==
    [][/\ \A r \in Runs :
            /\ wpc[r] # "absent" => WorkLeft(r)' <= WorkLeft(r)
            /\ Worker(r) => WorkLeft(r)' < WorkLeft(r)
       /\ \A c \in Requests :
            /\ cpc[c] # "idle" => AnswerLeft(c)' <= AnswerLeft(c)
            /\ Handler(c) => AnswerLeft(c)' < AnswerLeft(c)]_vars

\* What is left is a number of steps.
LEMMA WorkIsANumber ==
    ASSUME TypeOK
    PROVE  /\ \A r \in Runs : WorkLeft(r) \in Nat
           /\ \A c \in Requests : AnswerLeft(c) \in Nat
  BY DaysAssumption DEF TypeOK, WorkLeft, AnswerLeft

\* A worker's steps lower its own work, and leave that of the others alone.
LEMMA WorkersAdvance ==
    ASSUME TypeOK, TypeOK', NEW r \in Runs, Worker(r)
    PROVE  /\ WorkLeft(r)' < WorkLeft(r)
           /\ \A q \in Runs \ {r} : WorkLeft(q)' = WorkLeft(q)
           /\ cpc' = cpc
<1> USE DaysAssumption DEF TypeOK, Goto
<1>1. CASE LoadRun(r) \/ HonourEarlyCancel(r) \/ StartRunning(r) \/ RegisterToken(r) \/ StartFails(r)
  BY <1>1 DEF LoadRun, HonourEarlyCancel, StartRunning, RegisterToken, StartFails, WorkLeft
<1>2. CASE TradeDay(r)
  BY <1>2 DEF TradeDay, WorkLeft
<1>3. CASE StopOnSignal(r) \/ FinishLoop(r) \/ TryRaises(r)
  BY <1>3 DEF StopOnSignal, FinishLoop, TryRaises, WorkLeft
<1>4. CASE Flush(r) \/ CommitCompleted(r) \/ FlushFails(r) \/ CommitFails(r)
  BY <1>4 DEF Flush, CommitCompleted, FlushFails, CommitFails, WorkLeft
<1>5. CASE Refreshed(r) \/ RefreshFails(r) \/ WriteCancelled(r) \/ WriteFailed(r)
  BY <1>5 DEF Refreshed, RefreshFails, WriteCancelled, WriteFailed, WorkLeft
<1>6. CASE HandlerRaises(r) \/ Unregister(r)
  BY <1>6 DEF HandlerRaises, Unregister, WorkLeft
<1>7. QED
  BY <1>1, <1>2, <1>3, <1>4, <1>5, <1>6 DEF Worker, WorkerFault

\* The same for the steps of a request.
LEMMA RequestsAdvance ==
    ASSUME TypeOK, NEW c \in Requests, CheckRow(c) \/ Handler(c)
    PROVE  /\ Handler(c) => AnswerLeft(c)' < AnswerLeft(c)
           /\ cpc[c] # "idle" => AnswerLeft(c)' < AnswerLeft(c)
           /\ \A d \in Requests \ {c} : AnswerLeft(d)' = AnswerLeft(d)
           /\ UNCHANGED <<wpc, day, pending>>
  BY DEF TypeOK, CheckRow, Handler, MarkCancelling, CancelRun, CancelDirectly, Respond, AnswerLeft

\* Any number of runs, requests, dates and exceptions: whoever moves comes closer to
\* its end, and nobody is sent back.
THEOREM WorkersMakeProgress == Safety => EverybodyAdvances
<1> DEFINE Advance ==
      /\ \A r \in Runs :
            /\ wpc[r] # "absent" => WorkLeft(r)' <= WorkLeft(r)
            /\ Worker(r) => WorkLeft(r)' < WorkLeft(r)
      /\ \A c \in Requests :
            /\ cpc[c] # "idle" => AnswerLeft(c)' <= AnswerLeft(c)
            /\ Handler(c) => AnswerLeft(c)' < AnswerLeft(c)
<1>1. TypeOK /\ TypeOK' /\ [Next]_vars => [Advance]_vars
  <2> SUFFICES ASSUME TypeOK, TypeOK', Next PROVE Advance
    OBVIOUS
  <2>1. /\ \A r \in Runs : WorkLeft(r) \in Nat /\ WorkLeft(r)' \in Nat
        /\ \A c \in Requests : AnswerLeft(c) \in Nat /\ AnswerLeft(c)' \in Nat
    <3>1. (/\ \A r \in Runs : WorkLeft(r) \in Nat
           /\ \A c \in Requests : AnswerLeft(c) \in Nat)'
      BY WorkIsANumber, PTL
    <3>2. QED
      BY <3>1, WorkIsANumber
  <2>2. \A r \in Runs : Worker(r) => WorkLeft(r)' < WorkLeft(r)
    BY WorkersAdvance
  <2>3. \A c \in Requests : Handler(c) => AnswerLeft(c)' < AnswerLeft(c)
    BY RequestsAdvance
  <2>4. \A r \in Runs : wpc[r] # "absent" => WorkLeft(r)' <= WorkLeft(r)
    <3> SUFFICES ASSUME NEW r \in Runs, wpc[r] # "absent" PROVE WorkLeft(r)' <= WorkLeft(r)
      OBVIOUS
    <3>1. ASSUME NEW q \in Runs, CreateRun(q) PROVE WorkLeft(r)' = WorkLeft(r)
      BY <3>1 DEF CreateRun, Goto, TypeOK, WorkLeft
    <3>2. ASSUME NEW q \in Runs, Worker(q)
          PROVE  WorkLeft(r)' = WorkLeft(r) \/ WorkLeft(r)' < WorkLeft(r)
      BY <3>2, WorkersAdvance
    <3>3. ASSUME NEW c \in Requests, CheckRow(c) \/ Handler(c) PROVE WorkLeft(r)' = WorkLeft(r)
      BY <3>3, RequestsAdvance DEF WorkLeft
    <3>4. ASSUME Crash PROVE WorkLeft(r)' = 0 \/ WorkLeft(r)' = WorkLeft(r)
      BY <3>4 DEF Crash, TypeOK, WorkLeft
    <3>5. \/ WorkLeft(r)' = WorkLeft(r) \/ WorkLeft(r)' < WorkLeft(r) \/ WorkLeft(r)' = 0
      BY <3>1, <3>2, <3>3, <3>4 DEF Next
    <3>6. QED
      BY <2>1, <3>5
  <2>5. \A c \in Requests : cpc[c] # "idle" => AnswerLeft(c)' <= AnswerLeft(c)
    <3> SUFFICES ASSUME NEW c \in Requests, cpc[c] # "idle" PROVE AnswerLeft(c)' <= AnswerLeft(c)
      OBVIOUS
    <3>1. ASSUME NEW r \in Runs, CreateRun(r) \/ Worker(r) PROVE AnswerLeft(c)' = AnswerLeft(c)
      BY <3>1, WorkersAdvance DEF CreateRun, AnswerLeft
    <3>2. ASSUME NEW d \in Requests, CheckRow(d) \/ Handler(d)
          PROVE  AnswerLeft(c)' = AnswerLeft(c) \/ AnswerLeft(c)' < AnswerLeft(c)
      BY <3>2, RequestsAdvance
    <3>3. ASSUME Crash PROVE AnswerLeft(c)' = 0 \/ AnswerLeft(c)' = AnswerLeft(c)
      BY <3>3 DEF Crash, TypeOK, AnswerLeft
    <3>4. \/ AnswerLeft(c)' = AnswerLeft(c) \/ AnswerLeft(c)' < AnswerLeft(c)
          \/ AnswerLeft(c)' = 0
      BY <3>1, <3>2, <3>3 DEF Next
    <3>5. QED
      BY <2>1, <3>4
  <2>6. QED
    BY <2>2, <2>3, <2>4, <2>5
<1>2. QED
  BY TypeCorrect, <1>1, PTL DEF Safety, EverybodyAdvances
=============================================================================
