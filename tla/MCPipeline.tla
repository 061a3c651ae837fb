----------------------------- MODULE MCPipeline -----------------------------
(***************************************************************************)
(* Two symbols, of which the second is listed late, a split of the first   *)
(* and an event with an impossible ratio; jobs are built for the first or  *)
(* the second day.  DailyCatchesUp.cfg has three days of one symbol.       *)
(***************************************************************************)
EXTENDS DataPipeline, TLC

TheListing == <<{1}, {1, 2}>>
TheTraded  == 1 :> {1, 2} @@ 2 :> {2}
TheSplit   == [symbol |-> 1, day |-> 2, kind |-> "factor"]
NoRatio    == [symbol |-> 2, day |-> 2, kind |-> "invalid"]
TheEvents  == {TheSplit, NoRatio}
OneSplit   == {TheSplit}

\* One symbol that trades on each of three days.
OnlyOne     == [day \in 1..3 |-> {1}]
EverySession == 1 :> 1..3

\* Any thread may be the one that calls a job.
AnyThread == Permutations(Threads)
=============================================================================
