---------------------------- MODULE ResearchProofs ---------------------------
(***************************************************************************)
(* What the jobs of Research leave in their tables, for any symbols, days, *)
(* codes, configurations and numbers of jobs; and what the readers of      *)
(* market data make of a day, which no later row changes: the universe of  *)
(* the day, the verdict of each condition, the signals of a strategy.      *)
(***************************************************************************)
EXTENDS Research, StrategyJson, NumberProofs, FiniteSetTheorems

-----------------------------------------------------------------------------
\* Universe snapshots.

JobShape(job) ==
    job = [day |-> job.day, config |-> job.config, picked |-> job.picked,
           found |-> job.found, step |-> job.step]

\* A job has found nothing but rows with its own key, which no other job moves.
SnapshotInv ==
    /\ \E S : snapshots \in Seq(S)
    /\ snapshotJob = [j \in Jobs |-> snapshotJob[j]]
    /\ \A j \in Jobs : snapshotJob[j] # << >> =>
         /\ JobShape(snapshotJob[j])
         /\ \A id \in snapshotJob[j].found :
              id \in DOMAIN snapshots /\ SameKey(snapshots[id], snapshotJob[j])
    /\ OneSnapshotPerKey

LEMMA SelectedKeeps ==
    ASSUME SnapshotInv, NEW j \in Jobs, NEW config, SnapshotReads(j, config)
    PROVE  SnapshotInv'
<1>1. PICK job : job = [day |-> today, config |-> config, picked |-> Select(prices, config, today),
                        found |-> {}, step |-> "selected"]
  OBVIOUS
<1>2. snapshotJob' = [snapshotJob EXCEPT ![j] = job] /\ UNCHANGED snapshots
  BY <1>1 DEF SnapshotReads
<1>3. snapshotJob'[j] = job /\ \A i \in Jobs : i # j => snapshotJob'[i] = snapshotJob[i]
  BY <1>2 DEF SnapshotInv
<1>4. JobShape(job) /\ job.found = {}
  BY <1>1 DEF JobShape
<1>5. snapshotJob' = [i \in Jobs |-> snapshotJob'[i]]
  BY <1>2 DEF SnapshotInv
<1>6. ASSUME NEW i \in Jobs, snapshotJob'[i] # << >>
      PROVE  /\ JobShape(snapshotJob'[i])
             /\ \A id \in snapshotJob'[i].found :
                  id \in DOMAIN snapshots /\ SameKey(snapshots[id], snapshotJob'[i])
  BY <1>3, <1>4, <1>6 DEF SnapshotInv
<1>7. QED
  BY <1>2, <1>5, <1>6 DEF SnapshotInv, OneSnapshotPerKey, JobShape, SameKey

LEMMA LookedKeeps ==
    ASSUME SnapshotInv, NEW j \in Jobs, SnapshotLooks(j)
    PROVE  SnapshotInv'
<1>1. PICK was : was = snapshotJob[j]
  OBVIOUS
<1>2. was # << >> /\ JobShape(was)
  BY <1>1 DEF SnapshotInv, SnapshotLooks
<1>3. PICK found : found = {id \in DOMAIN snapshots : SameKey(snapshots[id], was)}
  OBVIOUS
<1>4. PICK job : job = [was EXCEPT !.found = found, !.step = "looked"]
  OBVIOUS
<1>5. JobShape(job) /\ job.found = found /\ job.day = was.day /\ job.config = was.config
  BY <1>2, <1>4 DEF JobShape
<1>6. snapshotJob' = [snapshotJob EXCEPT ![j] = job] /\ UNCHANGED snapshots
  BY <1>1, <1>3, <1>4 DEF SnapshotLooks, SnapshotInv
<1>7. snapshotJob'[j] = job /\ \A i \in Jobs : i # j => snapshotJob'[i] = snapshotJob[i]
  BY <1>6 DEF SnapshotInv
<1>8. snapshotJob' = [i \in Jobs |-> snapshotJob'[i]]
  BY <1>6 DEF SnapshotInv
<1>9. \A id \in job.found : id \in DOMAIN snapshots /\ SameKey(snapshots[id], job)
  BY <1>3, <1>5 DEF SameKey
<1>10. ASSUME NEW i \in Jobs, snapshotJob'[i] # << >>
       PROVE  /\ JobShape(snapshotJob'[i])
              /\ \A id \in snapshotJob'[i].found :
                   id \in DOMAIN snapshots /\ SameKey(snapshots[id], snapshotJob'[i])
  BY <1>5, <1>7, <1>9, <1>10 DEF SnapshotInv
<1>11. QED
  BY <1>6, <1>8, <1>10 DEF SnapshotInv, OneSnapshotPerKey, JobShape, SameKey

LEMMA WrittenKeeps ==
    ASSUME SnapshotInv, NEW j \in Jobs, SnapshotWrites(j)
    PROVE  SnapshotInv'
<1>1. PICK job : job = snapshotJob[j]
  OBVIOUS
<1>2. job # << >> /\ \A id \in job.found : id \in DOMAIN snapshots /\ SameKey(snapshots[id], job)
  BY <1>1 DEF SnapshotInv, SnapshotWrites
<1>3. PICK row : row = [day |-> job.day, config |-> job.config, picked |-> job.picked]
  OBVIOUS
<1>4. row.day = job.day /\ row.config = job.config
  BY <1>3
<1>5. PICK S : snapshots \in Seq(S)
  BY DEF SnapshotInv
<1>6. snapshotJob' = [snapshotJob EXCEPT ![j] = << >>]
  BY DEF SnapshotWrites
<1>7. /\ snapshotJob'[j] = << >> /\ \A i \in Jobs : i # j => snapshotJob'[i] = snapshotJob[i]
      /\ snapshotJob' = [i \in Jobs |-> snapshotJob'[i]]
  BY <1>6 DEF SnapshotInv
\* The rows there are keep their keys; that is what the other jobs have found.
<1>8. ASSUME NEW T, snapshots' \in Seq(T), OneSnapshotPerKey',
             \A id \in DOMAIN snapshots : /\ id \in DOMAIN snapshots'
                                          /\ snapshots'[id].day = snapshots[id].day
                                          /\ snapshots'[id].config = snapshots[id].config
      PROVE  SnapshotInv'
  <2>1. ASSUME NEW i \in Jobs, snapshotJob'[i] # << >>
        PROVE  /\ JobShape(snapshotJob'[i])
               /\ \A id \in snapshotJob'[i].found :
                    id \in DOMAIN snapshots' /\ SameKey(snapshots'[id], snapshotJob'[i])
    <3>1. i # j /\ snapshotJob'[i] = snapshotJob[i]
      BY <1>7, <2>1
    <3>2. JobShape(snapshotJob[i]) /\ \A id \in snapshotJob[i].found :
            id \in DOMAIN snapshots /\ SameKey(snapshots[id], snapshotJob[i])
      BY <2>1, <3>1 DEF SnapshotInv
    <3>3. QED
      BY <1>8, <3>1, <3>2 DEF SameKey
  <2>2. QED
    BY <1>7, <1>8, <2>1 DEF SnapshotInv, JobShape, SameKey
<1>9. CASE /\ job.found # {}
           /\ snapshots' = [id \in DOMAIN snapshots |->
                              IF id \in job.found THEN row ELSE snapshots[id]]
  <2>1. /\ DOMAIN snapshots' = DOMAIN snapshots
        /\ \A id \in DOMAIN snapshots : snapshots'[id] = IF id \in job.found THEN row ELSE snapshots[id]
    BY <1>9
  <2>2. \A id \in DOMAIN snapshots : /\ snapshots'[id].day = snapshots[id].day
                                     /\ snapshots'[id].config = snapshots[id].config
    BY <1>2, <1>4, <2>1 DEF SameKey
  <2>3. OneSnapshotPerKey'
    BY <2>1, <2>2 DEF SnapshotInv, OneSnapshotPerKey, SameKey
  <2>4. snapshots' \in Seq(S \cup {row})
    <3>1. DOMAIN snapshots = 1 .. Len(snapshots) /\ Len(snapshots) \in Nat
      BY <1>5
    <3>2. \A id \in 1 .. Len(snapshots) : snapshots[id] \in S
      BY <1>5
    <3>3. \A id \in 1 .. Len(snapshots) : snapshots'[id] \in S \cup {row}
      BY <2>1, <3>1, <3>2
    <3>4. snapshots' = [id \in 1 .. Len(snapshots) |-> snapshots'[id]]
      BY <1>9, <3>1
    <3>5. QED
      BY <3>1, <3>3, <3>4
  <2>5. QED
    BY <1>8, <2>1, <2>2, <2>3, <2>4
<1>10. CASE ~KeyTaken(job) /\ snapshots' = Append(snapshots, row)
  <2> DEFINE new == Len(snapshots) + 1
  <2>1. /\ snapshots' \in Seq(S \cup {row}) /\ DOMAIN snapshots' = DOMAIN snapshots \cup {new}
        /\ snapshots'[new] = row
        /\ \A id \in DOMAIN snapshots : snapshots'[id] = snapshots[id]
    <3>1. snapshots \in Seq(S \cup {row}) /\ row \in S \cup {row}
      BY <1>5
    <3>2. QED
      BY <1>10, <3>1
  <2> HIDE DEF new
  <2>2. \A id \in DOMAIN snapshots : ~SameKey(snapshots[id], row)
    BY <1>4, <1>10 DEF KeyTaken, SameKey
  <2>3. OneSnapshotPerKey'
    <3> SUFFICES ASSUME NEW a \in DOMAIN snapshots \cup {new}, NEW b \in DOMAIN snapshots \cup {new},
                        snapshots'[a].day = snapshots'[b].day,
                        snapshots'[a].config = snapshots'[b].config
                 PROVE  a = b
      BY <2>1 DEF OneSnapshotPerKey, SameKey
    <3>1. CASE a \in DOMAIN snapshots /\ b \in DOMAIN snapshots
      BY <2>1, <3>1 DEF SnapshotInv, OneSnapshotPerKey, SameKey
    <3>2. CASE a = new /\ b \in DOMAIN snapshots
      BY <2>1, <2>2, <3>2 DEF SameKey
    <3>3. CASE a \in DOMAIN snapshots /\ b = new
      BY <2>1, <2>2, <3>3 DEF SameKey
    <3>4. QED
      BY <3>1, <3>2, <3>3
  <2>4. QED
    BY <1>8, <2>1, <2>3
<1>11. CASE snapshots' = snapshots
  BY <1>5, <1>8, <1>11 DEF SnapshotInv, OneSnapshotPerKey, SameKey
<1>12. QED
  BY <1>1, <1>3, <1>9, <1>10, <1>11 DEF SnapshotWrites

-----------------------------------------------------------------------------
\* The index job.

\* Every code the job has behind it has failed or was processed.
JobInv(job) ==
    /\ job = [left |-> job.left, days |-> job.days, processed |-> job.processed,
              failed |-> job.failed, answered |-> job.answered, refused |-> job.refused]
    /\ \A code \in IndexCodes : code \in job.left \cup job.failed \cup job.processed

IndexInv ==
    /\ indexJob # << >> => JobInv(indexJob)
    /\ IndexReportIsTrue

LEMMA TurnsKeep ==
    ASSUME IndexInv, NEW answered, NEW bad, IndexFetchFails \/ IndexUpserts(answered, bad)
    PROVE  IndexInv'
<1>1. PICK job : job = indexJob
  OBVIOUS
<1>2. PICK code : code = Min(job.left)
  OBVIOUS
<1>3. job # << >> /\ UNCHANGED <<report, indices>>
  BY <1>1 DEF IndexFetchFails, IndexUpserts
<1>4. JobInv(job)
  BY <1>1, <1>3 DEF IndexInv
<1>5. IndexReportIsTrue'
  BY <1>3 DEF IndexInv, IndexReportIsTrue
<1>6. CASE IndexFetchFails
  <2>1. indexJob' = [job EXCEPT !.left = @ \ {code}, !.failed = @ \cup {code}]
    BY <1>1, <1>2, <1>6 DEF IndexFetchFails, Failures
  <2>2. JobInv(indexJob')
    BY <1>4, <2>1 DEF JobInv
  <2>3. QED
    BY <1>5, <2>2 DEF IndexInv
<1>7. CASE IndexUpserts(answered, bad)
  <2>1. PICK given, refused : /\ given = {code} \X answered
                              /\ refused = {code} \X Refusals(code, answered, bad)
    OBVIOUS
  <2>2. indexJob' = [job EXCEPT !.left = @ \ {code}, !.processed = @ \cup {code},
                                !.answered = @ \cup given, !.refused = @ \cup refused]
    BY <1>1, <1>2, <1>7, <2>1 DEF IndexUpserts
  <2>3. JobInv(indexJob')
    BY <1>4, <2>2 DEF JobInv
  <2>4. QED
    BY <1>5, <2>3 DEF IndexInv
<1>8. QED
  BY <1>6, <1>7

LEMMA EndsKeep ==
    ASSUME IndexInv, IndexEnds \/ IndexAborts
    PROVE  IndexInv'
<1>1. indexJob # << >> /\ indexJob' = << >>
  BY DEF IndexEnds, IndexAborts
<1>2. CASE IndexEnds
  <2>1. /\ report'.committed /\ report'.processed = indexJob.processed
        /\ report'.answered = indexJob.answered /\ report'.refused = indexJob.refused
        /\ report'.success => indexJob.failed = {}
        /\ indexJob.left = {}
        /\ indices' = indices \cup (indexJob.answered \ indexJob.refused)
    BY <1>2 DEF IndexEnds, Reported
  <2>2. indexJob.failed = {} => IndexCodes \subseteq indexJob.processed
    BY <1>1, <2>1 DEF IndexInv, JobInv
  <2>3. IndexReportIsTrue'
    BY <2>1, <2>2 DEF IndexReportIsTrue
  <2>4. QED
    BY <1>1, <2>3 DEF IndexInv
<1>3. CASE IndexAborts
  <2>1. ~report'.committed /\ ~report'.success
    BY <1>3 DEF IndexAborts, Reported
  <2>2. QED
    BY <1>1, <2>1 DEF IndexInv, IndexReportIsTrue
<1>4. QED
  BY <1>2, <1>3
-----------------------------------------------------------------------------
\* The whole of Research.  Nothing but the jobs' own steps touches their state.
ResearchInv == SnapshotInv /\ IndexInv

LEMMA Untouched ==
    /\ SnapshotInv /\ UNCHANGED snapshotVars => SnapshotInv'
    /\ IndexInv /\ UNCHANGED indexVars => IndexInv'
  BY DEF SnapshotInv, IndexInv, JobInv, snapshotVars, indexVars, OneSnapshotPerKey, SameKey, JobShape,
         IndexReportIsTrue

LEMMA ResearchStep ==
    ASSUME NEW bars, NEW factors, NEW markets, NEW configs
    PROVE  ResearchInv /\ [ResearchNext(bars, factors, markets, configs)]_researchVars => ResearchInv'
<1> SUFFICES ASSUME ResearchInv, [ResearchNext(bars, factors, markets, configs)]_researchVars
             PROVE  ResearchInv'
  OBVIOUS
<1>1. SnapshotInv /\ IndexInv
  BY DEF ResearchInv
<1>2. ASSUME UNCHANGED <<snapshotVars, indexVars>> PROVE ResearchInv'
  BY <1>1, <1>2, Untouched DEF ResearchInv
<1>3. CASE CollectDay(Symbols, bars)
  BY <1>2, <1>3 DEF CollectDay
<1>4. CASE FillRow(Symbols, bars)
  BY <1>2, <1>4 DEF FillRow
<1>5. ASSUME NEW factor \in factors, Rescale(factor) PROVE ResearchInv'
  BY <1>2, <1>5 DEF Rescale
<1>6. ASSUME NEW market \in markets, CollectSymbols(market) PROVE ResearchInv'
  BY <1>2, <1>6 DEF CollectSymbols
<1>7. ASSUME NEW j \in Jobs, NEW config \in configs, SnapshotReads(j, config) PROVE ResearchInv'
  BY <1>1, <1>7, SelectedKeeps, Untouched DEF SnapshotReads, ResearchInv
<1>8. ASSUME NEW j \in Jobs, SnapshotLooks(j) PROVE ResearchInv'
  BY <1>1, <1>8, LookedKeeps, Untouched DEF SnapshotLooks, ResearchInv
<1>9. ASSUME NEW j \in Jobs, SnapshotWrites(j) PROVE ResearchInv'
  BY <1>1, <1>9, WrittenKeeps, Untouched DEF SnapshotWrites, ResearchInv
<1>10. CASE IndexBegins
  <2>1. IndexInv'
    BY <1>1, <1>10 DEF IndexBegins, IndexInv, JobInv, IndexReportIsTrue
  <2>2. QED
    BY <1>1, <1>10, <2>1, Untouched DEF IndexBegins, ResearchInv
<1>11. ASSUME NEW answered, NEW bad, IndexFetchFails \/ IndexUpserts(answered, bad) PROVE ResearchInv'
  BY <1>1, <1>11, TurnsKeep, Untouched DEF IndexFetchFails, IndexUpserts, ResearchInv
<1>12. CASE IndexEnds \/ IndexAborts
  BY <1>1, <1>12, EndsKeep, Untouched DEF IndexEnds, IndexAborts, ResearchInv
<1>13. CASE Restart
  <2>1. /\ indexJob' = << >> /\ snapshotJob' = [j \in Jobs |-> << >>]
        /\ UNCHANGED <<snapshots, indices, report>>
    BY <1>13 DEF Restart
  <2>2. IndexInv'
    BY <1>1, <2>1 DEF IndexInv, IndexReportIsTrue
  <2>3. SnapshotInv'
    BY <1>1, <2>1 DEF SnapshotInv, OneSnapshotPerKey, SameKey
  <2>4. QED
    BY <2>2, <2>3 DEF ResearchInv
<1>14. CASE UNCHANGED researchVars
  BY <1>2, <1>14 DEF researchVars, snapshotVars, indexVars
<1>15. QED
  BY <1>3, <1>4, <1>5, <1>6, <1>7, <1>8, <1>9, <1>10, <1>11, <1>12, <1>13, <1>14 DEF ResearchNext

\* Both jobs keep their tables in order, whatever market data come in between.
THEOREM JobsKeepTheirTables ==
    ASSUME NEW registered, NEW bars, NEW factors, NEW markets, NEW configs
    PROVE  ResearchSpec(registered, bars, factors, markets, configs) => []ResearchInv
<1>1. ResearchInit(registered) => ResearchInv
  <2>1. << >> \in Seq({})
    OBVIOUS
  <2>2. ResearchInit(registered) => SnapshotInv
    BY <2>1 DEF ResearchInit, SnapshotInv, OneSnapshotPerKey
  <2>3. QED
    BY <2>2 DEF ResearchInit, ResearchInv, IndexInv, IndexReportIsTrue
<1>2. QED
  BY <1>1, ResearchStep, PTL DEF ResearchSpec

\* There is one universe for a day and a configuration, however many jobs look
\* for its row at the same time.
THEOREM OneUniverseADay ==
    ASSUME NEW registered, NEW bars, NEW factors, NEW markets, NEW configs
    PROVE  ResearchSpec(registered, bars, factors, markets, configs) => []OneSnapshotPerKey
  BY JobsKeepTheirTables, PTL DEF ResearchInv, SnapshotInv

\* An index job that reports success has processed every code, and one that was not
\* aborted has stored each row it was given or warned of it, for any codes and days,
\* whatever could not be fetched and whatever was cut off before.
THEOREM ReportsAreTrue ==
    ASSUME NEW registered, NEW bars, NEW factors, NEW markets, NEW configs
    PROVE  ResearchSpec(registered, bars, factors, markets, configs) => []IndexReportIsTrue
  BY JobsKeepTheirTables, PTL DEF ResearchInv, IndexInv

-----------------------------------------------------------------------------
\* Types.

\* A set of days that is not empty has a first one.
LEMMA FirstDay ==
    ASSUME NEW T \in SUBSET Nat, T # {}
    PROVE  Min(T) \in T /\ \A d \in T : Min(T) <= d
<1> DEFINE less == {pair \in Nat \X Nat : pair[1] < pair[2]}
<1>1. IsWellFoundedOn(less, Nat)
  BY NatLessThanWellFounded DEF OpToRel
<1>2. PICK x \in T : \A y \in T : ~ (<<y, x>> \in less)
  <2> HIDE DEF less
  <2>1. QED
    BY <1>1, WFMin
<1>3. ASSUME NEW y \in T PROVE x <= y
  <2>1. y \in Nat /\ x \in Nat /\ <<y, x>> \notin less
    BY <1>2
  <2>2. ~ (y < x)
    BY <2>1 DEF less
  <2>3. QED
    BY <2>1, <2>2
<1>4. QED
  BY <1>2, <1>3 DEF Min

\* What the jobs have in hand agrees with the tables of market data too.
TablesInv ==
    /\ ResearchTypeOK
    /\ prices = [s \in Symbols |-> prices[s]]
    /\ \A j \in Jobs : snapshotJob[j] # << >> => snapshotJob[j].picked \subseteq DOMAIN symbols
    /\ indexJob # << >> =>
         /\ indexJob.days \subseteq Sessions
         /\ indexJob.answered \ indexJob.refused \subseteq KnownCodes \X Sessions

LEMMA SelectedAreRegistered ==
    ASSUME NEW config, NEW day, ~Misconfigured(config)
    PROVE  Select(prices, config, day) \subseteq DOMAIN symbols
<1> DEFINE listed == Unflagged(config, Active(config.market, day))
           big    == BigEnough(prices, config, day, listed)
           liquid == LiquidEnough(prices, config, day, big)
<1>1. listed \subseteq DOMAIN symbols
  BY DEF Unflagged, Active
<1>2. big \subseteq listed
  BY DEF BigEnough
<1>3. liquid \subseteq big
  BY DEF LiquidEnough
<1>4. Select(prices, config, day) = Chosen(prices, config, day, liquid)
  BY DEF Select
<1> HIDE DEF listed, big, liquid
<1>5. Chosen(prices, config, day, liquid) \subseteq liquid
  BY DEF Chosen, Top, Misconfigured
<1>6. QED
  BY <1>1, <1>2, <1>3, <1>4, <1>5

LEMMA TablesStep ==
    ASSUME NEW bars, NEW factors, NEW markets \in SUBSET STRING, NEW configs,
           ResearchInv, TablesInv, [ResearchNext(bars, factors, markets, configs)]_researchVars
    PROVE  TablesInv'
<1> USE DEF TablesInv, ResearchTypeOK
<1>1. SnapshotInv /\ IndexInv
  BY DEF ResearchInv
<1>2. ASSUME UNCHANGED <<symbols, snapshotVars, indexVars>>, today <= today', today' \in Sessions \cup {0},
             prices' = [s \in Symbols |-> prices'[s]],
             \A s \in Symbols : DOMAIN prices'[s] \subseteq {d \in Sessions : d <= today'}
      PROVE  TablesInv'
  BY <1>2 DEF snapshotVars, indexVars
<1>3. today \in Int /\ Sessions \subseteq Nat
  BY MarketAssumption
<1>4. CASE CollectDay(Symbols, bars)
  <2>1. ComingSessions \in SUBSET Nat /\ ComingSessions # {} /\ today' = Min(ComingSessions)
    BY <1>3, <1>4 DEF CollectDay, ComingSessions
  <2>2. today' \in Sessions /\ today < today'
    <3>1. Min(ComingSessions) \in ComingSessions
      BY <2>1, FirstDay
    <3>2. QED
      BY <2>1, <3>1 DEF ComingSessions
  <2>3. PICK traded \in SUBSET Symbols : \E bar \in [traded -> bars] :
          prices' = [s \in Symbols |-> IF s \in traded THEN With(s, today', bar[s]) ELSE prices[s]]
    BY <1>4 DEF CollectDay
  <2>4. PICK bar \in [traded -> bars] :
          prices' = [s \in Symbols |-> IF s \in traded THEN With(s, today', bar[s]) ELSE prices[s]]
    BY <2>3
  <2>5. ASSUME NEW s \in Symbols PROVE DOMAIN prices'[s] \subseteq {d \in Sessions : d <= today'}
    <3>1. DOMAIN prices'[s] \subseteq {today'} \cup DOMAIN prices[s]
      <4>1. prices'[s] = IF s \in traded THEN With(s, today', bar[s]) ELSE prices[s]
        BY <2>4
      <4>2. QED
        BY <4>1 DEF With
    <3>2. QED
      BY <1>3, <2>2, <3>1
  <2>6. prices' = [s \in Symbols |-> prices'[s]]
    BY <2>4
  <2>7. QED
    BY <1>2, <1>3, <1>4, <2>2, <2>5, <2>6 DEF CollectDay
<1>5. CASE FillRow(Symbols, bars)
  <2>1. PICK s \in Symbols, bar \in bars, day \in {d \in Sessions : d < today} :
          prices' = [prices EXCEPT ![s] = With(s, day, bar)]
    BY <1>5 DEF FillRow
  <2>2. \A r \in Symbols : prices'[r] = IF r = s THEN With(s, day, bar) ELSE prices[r]
    BY <2>1
  <2>3. \A r \in Symbols : DOMAIN prices'[r] \subseteq {d \in Sessions : d <= today}
    BY <1>3, <2>1, <2>2 DEF With
  <2>4. prices' = [r \in Symbols |-> prices'[r]] /\ today' = today
    BY <1>5, <2>1 DEF FillRow
  <2>5. QED
    BY <1>2, <1>3, <1>5, <2>3, <2>4 DEF FillRow
<1>6. ASSUME NEW factor \in factors, Rescale(factor) PROVE TablesInv'
  <2>1. PICK s \in Symbols :
          prices' = [prices EXCEPT ![s] = [d \in DOMAIN prices[s] |->
                       IF d < today THEN Rescaled(prices[s][d], factor) ELSE prices[s][d]]]
    BY <1>6 DEF Rescale
  <2>2. \A r \in Symbols : DOMAIN prices'[r] = DOMAIN prices[r]
    BY <2>1
  <2>3. prices' = [r \in Symbols |-> prices'[r]] /\ today' = today
    BY <1>6, <2>1 DEF Rescale
  <2>4. QED
    BY <1>2, <1>3, <1>6, <2>2, <2>3 DEF Rescale
<1>7. ASSUME NEW market \in markets, CollectSymbols(market) PROVE TablesInv'
  <2>1. PICK s \in Symbols :
          symbols' = [r \in DOMAIN symbols \cup {s} |->
                        IF r = s THEN [market |-> market, listing |-> today,
                                       delisting |-> Never, kinds |-> {}]
                                 ELSE symbols[r]]
    BY <1>7 DEF CollectSymbols
  <2>2. PICK row : row = [market |-> market, listing |-> today, delisting |-> Never, kinds |-> {}]
    OBVIOUS
  <2>3. row \in SymbolType
    BY <1>7, <2>2 DEF CollectSymbols, SymbolType
  <2>4. symbols' = [r \in DOMAIN symbols \cup {s} |-> IF r = s THEN row ELSE symbols[r]]
    BY <2>1, <2>2
  <2>5. symbols' \in [DOMAIN symbols' -> SymbolType] /\ DOMAIN symbols \subseteq DOMAIN symbols'
        /\ DOMAIN symbols' \subseteq Symbols
    BY <2>3, <2>4
  <2>6. QED
    BY <1>7, <2>5 DEF CollectSymbols, snapshotVars, indexVars
<1>8. ASSUME NEW j \in Jobs, NEW config \in configs, SnapshotReads(j, config) PROVE TablesInv'
  <2>1. PICK job : job = [day |-> today, config |-> config, picked |-> Select(prices, config, today),
                          found |-> {}, step |-> "selected"]
    OBVIOUS
  <2>2. snapshotJob' = [snapshotJob EXCEPT ![j] = job] /\ UNCHANGED <<marketVars, snapshots, indexVars>>
    BY <1>8, <2>1 DEF SnapshotReads
  <2>3. job.picked \subseteq DOMAIN symbols
    BY <1>8, <2>1, SelectedAreRegistered DEF SnapshotReads
  <2>4. \A i \in Jobs : snapshotJob'[i] = IF i = j THEN job ELSE snapshotJob[i]
    BY <1>1, <2>2 DEF SnapshotInv
  <2>5. QED
    BY <2>2, <2>3, <2>4 DEF marketVars, indexVars
<1>9. ASSUME NEW j \in Jobs, SnapshotLooks(j) PROVE TablesInv'
  <2>1. PICK job : job = [snapshotJob[j] EXCEPT
            !.found = {id \in DOMAIN snapshots : SameKey(snapshots[id], snapshotJob[j])}, !.step = "looked"]
    OBVIOUS
  <2>2. snapshotJob' = [snapshotJob EXCEPT ![j] = job] /\ UNCHANGED <<marketVars, snapshots, indexVars>>
    BY <1>1, <1>9, <2>1 DEF SnapshotLooks, SnapshotInv
  <2>3. job.picked = snapshotJob[j].picked
    <3>1. PICK was : was = snapshotJob[j]
      OBVIOUS
    <3>2. was = [day |-> was.day, config |-> was.config, picked |-> was.picked,
                 found |-> was.found, step |-> was.step]
      BY <1>1, <1>9, <3>1 DEF SnapshotInv, JobShape, SnapshotLooks
    <3>3. QED
      BY <2>1, <3>1, <3>2
  <2>4. \A i \in Jobs : snapshotJob'[i] = IF i = j THEN job ELSE snapshotJob[i]
    BY <1>1, <2>2 DEF SnapshotInv
  <2>5. QED
    BY <1>9, <2>2, <2>3, <2>4 DEF marketVars, indexVars, SnapshotLooks
<1>10. ASSUME NEW j \in Jobs, SnapshotWrites(j) PROVE TablesInv'
  <2>1. PICK row : row = [day |-> snapshotJob[j].day, config |-> snapshotJob[j].config,
                          picked |-> snapshotJob[j].picked]
    OBVIOUS
  <2>2. row.picked \subseteq DOMAIN symbols
    BY <1>10, <2>1 DEF SnapshotWrites
  <2>3. \A id \in DOMAIN snapshots' : \/ snapshots'[id] = row
                                      \/ id \in DOMAIN snapshots /\ snapshots'[id] = snapshots[id]
    <3>1. PICK S : snapshots \in Seq(S)
      BY <1>1 DEF SnapshotInv
    <3>2. \/ snapshots' = [id \in DOMAIN snapshots |->
                             IF id \in snapshotJob[j].found THEN row ELSE snapshots[id]]
          \/ snapshots' = Append(snapshots, row)
          \/ snapshots' = snapshots
      BY <1>10, <2>1 DEF SnapshotWrites
    <3>3. QED
      BY <3>1, <3>2
  <2>4. snapshotJob' = [snapshotJob EXCEPT ![j] = << >>] /\ UNCHANGED <<marketVars, indexVars>>
    BY <1>10 DEF SnapshotWrites
  <2>5. \A i \in Jobs : snapshotJob'[i] # << >> => snapshotJob'[i] = snapshotJob[i]
    BY <1>1, <2>4 DEF SnapshotInv
  <2>6. QED
    BY <2>2, <2>3, <2>4, <2>5 DEF marketVars, indexVars
<1>11. CASE IndexBegins
  <2>1. indexJob'.days \subseteq Sessions /\ indexJob'.answered = {}
    BY <1>11 DEF IndexBegins
  <2>2. QED
    BY <1>11, <2>1 DEF IndexBegins, marketVars, snapshotVars
<1>12. ASSUME NEW answered, NEW bad, IndexFetchFails \/ IndexUpserts(answered, bad) PROVE TablesInv'
  <2>1. PICK job : job = indexJob
    OBVIOUS
  <2>2. PICK code : code = Min(job.left)
    OBVIOUS
  <2>3. PICK refused : refused = Refusals(code, answered, bad)
    OBVIOUS
  <2>4. job # << >> /\ job.days \subseteq Sessions /\ JobInv(job)
        /\ job.answered \ job.refused \subseteq KnownCodes \X Sessions
    BY <1>1, <1>12, <2>1 DEF IndexFetchFails, IndexUpserts, IndexInv
  <2>5. CASE IndexFetchFails
    <3>1. indexJob' = [job EXCEPT !.left = @ \ {code}, !.failed = @ \cup {code}]
      BY <2>1, <2>2, <2>5 DEF IndexFetchFails, Failures
    <3>2. /\ indexJob'.days = job.days
          /\ indexJob'.answered = job.answered /\ indexJob'.refused = job.refused
      BY <2>4, <3>1 DEF JobInv
    <3>3. QED
      BY <2>4, <2>5, <3>2 DEF IndexFetchFails, marketVars, snapshotVars
  <2>6. CASE IndexUpserts(answered, bad)
    <3>1. PICK given, kept : given = {code} \X answered /\ kept = {code} \X refused
      OBVIOUS
    <3>2. indexJob' = [job EXCEPT !.left = @ \ {code}, !.processed = @ \cup {code},
                                  !.answered = @ \cup given, !.refused = @ \cup kept]
      BY <2>1, <2>2, <2>3, <2>6, <3>1 DEF IndexUpserts
    <3>3. /\ indexJob'.days = job.days
          /\ indexJob'.answered = job.answered \cup given /\ indexJob'.refused = job.refused \cup kept
      BY <2>4, <3>2 DEF JobInv
    <3>4. given \ kept \subseteq KnownCodes \X Sessions
      <4>1. answered \subseteq Sessions
        BY <2>1, <2>4, <2>6 DEF IndexUpserts
      <4>2. CASE code \in KnownCodes
        BY <3>1, <4>1, <4>2
      <4>3. CASE code \notin KnownCodes
        BY <2>3, <3>1, <4>3 DEF Refusals
      <4>4. QED
        BY <4>2, <4>3
    <3>5. indexJob'.answered \ indexJob'.refused \subseteq KnownCodes \X Sessions
      BY <2>4, <3>3, <3>4
    <3>6. QED
      BY <2>4, <2>6, <3>3, <3>5 DEF IndexUpserts, marketVars, snapshotVars
  <2>7. QED
    BY <1>12, <2>5, <2>6
<1>13. CASE IndexEnds \/ IndexAborts
  BY <1>13 DEF IndexEnds, IndexAborts, marketVars, snapshotVars
<1>14. CASE Restart
  BY <1>14 DEF Restart, marketVars
<1>15. CASE UNCHANGED researchVars
  BY <1>15 DEF researchVars, marketVars, snapshotVars, indexVars
<1>16. QED
  BY <1>4, <1>5, <1>6, <1>7, <1>8, <1>9, <1>10, <1>11, <1>12, <1>13, <1>14, <1>15 DEF ResearchNext

\* No job and no collector leaves a row of a day that has not been, a snapshot of
\* a symbol nobody knows, or an index row under a code no one can read.
THEOREM TablesStayTyped ==
    ASSUME NEW registered, NEW bars, NEW factors, NEW markets \in SUBSET STRING, NEW configs,
           registered \in [DOMAIN registered -> SymbolType], DOMAIN registered \subseteq Symbols
    PROVE  ResearchSpec(registered, bars, factors, markets, configs) => []ResearchTypeOK
<1>1. ResearchInit(registered) => TablesInv
  BY DEF ResearchInit, TablesInv, ResearchTypeOK
<1>2. ResearchInv /\ TablesInv /\ [ResearchNext(bars, factors, markets, configs)]_researchVars
        => TablesInv'
  BY TablesStep
<1>3. TablesInv => ResearchTypeOK
  BY DEF TablesInv
<1>4. QED
  BY <1>1, <1>2, <1>3, JobsKeepTheirTables, PTL DEF ResearchSpec

-----------------------------------------------------------------------------
\* No look-ahead of universes: the rows that decide are all there in the table cut
\* off at the last day that is read.

\* The set of days up to one of them has a last one.
LEMMA LastDay ==
    ASSUME NEW n \in Nat, NEW T \in SUBSET (0 .. n), T # {}
    PROVE  Max(T) \in T
<1> DEFINE gaps == {k \in Nat : n - k \in T}
<1>1. \A y \in T : n - y \in gaps
  <2>1. \A y \in T : n - y \in Nat /\ n - (n - y) = y
    OBVIOUS
  <2>2. QED
    BY <2>1
<1>2. gaps \in SUBSET Nat /\ gaps # {}
  BY <1>1
<1>3. PICK k : k = Min(gaps)
  OBVIOUS
<1>4. k \in gaps /\ \A j \in gaps : k <= j
  <2> HIDE DEF gaps
  <2>1. QED
    BY <1>2, <1>3, FirstDay
<1>5. n - k \in T /\ \A y \in T : y <= n - k
  <2>1. ASSUME NEW y \in T PROVE y <= n - k
    <3>1. y \in Int /\ k \in Int /\ k <= n - y
      BY <1>1, <1>4
    <3>2. QED
      BY <3>1
  <2>2. QED
    BY <1>4, <2>1
<1>6. QED
  BY <1>5 DEF Max

LEMMA RowsUntil ==
    ASSUME NEW s \in Symbols, NEW last
    PROVE  /\ DOMAIN Until(last)[s] = {d \in DOMAIN prices[s] : d <= last}
           /\ \A d \in DOMAIN Until(last)[s] : Until(last)[s][d] = prices[s][d]
  BY DEF Until

\* The days of a set, in their order.
LEMMA NthIsUnique ==
    ASSUME NEW D \in SUBSET Nat, IsFiniteSet(D), NEW a \in D, NEW b \in D,
           Cardinality({e \in D : e < a}) = Cardinality({e \in D : e < b})
    PROVE  a = b
<1>1. ASSUME NEW x \in D, NEW y \in D, x < y,
             Cardinality({e \in D : e < x}) = Cardinality({e \in D : e < y})
      PROVE  FALSE
  <2>1. IsFiniteSet({e \in D : e < y})
    BY FS_Subset
  <2>2. {e \in D : e < x} \subseteq {e \in D : e < y}
    <3>1. \A e \in D : e < x => e < y
      <4>1. x \in Int /\ y \in Int /\ \A e \in D : e \in Int
        OBVIOUS
      <4>2. QED
        BY ONLY <1>1, <4>1
    <3>2. QED
      BY <3>1
  <2>3. {e \in D : e < x} = {e \in D : e < y}
    BY <1>1, <2>1, <2>2, FS_Subset
  <2>4. x \in {e \in D : e < y} /\ x \notin {e \in D : e < x}
    BY <1>1
  <2>5. QED
    BY <2>3, <2>4
<1>2. a < b \/ b < a \/ a = b
  OBVIOUS
<1>3. QED
  BY <1>1, <1>2

LEMMA NthIsThere ==
    ASSUME NEW N \in Nat, NEW D \in SUBSET (0 .. N), NEW i \in 1 .. Cardinality(D)
    PROVE  /\ Nth(D, i) \in D
           /\ Cardinality({e \in D : e < Nth(D, i)}) = i - 1
<1> DEFINE below(m) == {e \in D : e < m}
           enough   == {m \in Nat : Cardinality(below(m)) >= i}
<1>1. IsFiniteSet(D) /\ Cardinality(D) \in Nat
  <2>1. IsFiniteSet(0 .. N)
    BY FS_Interval
  <2>2. QED
    BY <2>1, FS_Subset, FS_CardinalityType
<1>2. \A m \in Nat : IsFiniteSet(below(m)) /\ Cardinality(below(m)) \in Nat
  BY <1>1, FS_Subset, FS_CardinalityType
<1>3. N + 1 \in enough
  <2>1. below(N + 1) = D
    <3>1. \A e \in D : e < N + 1
      OBVIOUS
    <3>2. QED
      BY <3>1
  <2>2. QED
    BY <1>1, <2>1
<1>4. PICK m : m = Min(enough)
  OBVIOUS
<1>5. m \in enough /\ \A k \in enough : m <= k
  <2>1. enough \in SUBSET Nat /\ enough # {}
    BY <1>3
  <2> HIDE DEF enough
  <2>2. QED
    BY <1>4, <2>1, FirstDay
<1>6. m # 0
  <2>1. below(0) = {}
    <3>1. \A e \in D : ~(e < 0)
      OBVIOUS
    <3>2. QED
      BY <3>1
  <2>2. Cardinality(below(0)) = 0
    BY <2>1, FS_EmptySet
  <2>3. QED
    BY <1>5, <2>2
<1>7. m - 1 \in Nat /\ ~(Cardinality(below(m - 1)) >= i)
  BY <1>5, <1>6
<1>8. PICK p : p = m - 1
  OBVIOUS
<1>9. ~(p < p) /\ \A e \in D : e < m <=> e < p \/ e = p
  <2>1. m \in Int /\ \A e \in D : e \in Int
    BY <1>5
  <2>2. QED
    BY ONLY <1>8, <2>1
<1>10. p \in D /\ Cardinality(below(p)) = i - 1
  <2>1. CASE p \notin D
    <3>1. below(m) = below(p)
      <4>1. \A e \in D : e < m <=> e < p
        BY ONLY <1>9, <2>1, Zenon
      <4>2. QED
        BY ONLY <4>1, Zenon
    <3>2. QED
      BY <1>5, <1>7, <1>8, <3>1
  <2>2. CASE p \in D
    <3>1. below(m) = below(p) \cup {p} /\ p \notin below(p)
      BY ONLY <1>9, <2>2, Zenon
    <3>2. Cardinality(below(m)) = Cardinality(below(p)) + 1
      <4>1. IsFiniteSet(below(p))
        BY <1>2, <1>7, <1>8
      <4>2. QED
        BY ONLY <3>1, <4>1, FS_AddElement
    <3>3. Cardinality(below(m)) >= i
      BY <1>5
    <3>4. Cardinality(below(p)) \in Nat /\ ~(Cardinality(below(p)) >= i)
      BY <1>2, <1>7, <1>8
    <3>5. Cardinality(below(p)) = i - 1
      BY ONLY <3>2, <3>3, <3>4, i \in Int
    <3>6. QED
      BY <2>2, <3>5
  <2>3. QED
    BY <2>1, <2>2
<1>11. QED
  BY <1>10 DEF Nth

LEMMA AverageUntil ==
    ASSUME ResearchTypeOK, NEW s \in Symbols, NEW day \in Nat, NEW window,
           NEW last \in Int, day - 1 <= last
    PROVE  AverageTraded(Until(last), s, day, window) = AverageTraded(prices, s, day, window)
<1> DEFINE from == day - Lookback(window)
           days == AverageDays(prices, s, day, window)
<1>1. DOMAIN prices[s] \subseteq Nat
  BY MarketAssumption DEF ResearchTypeOK
<1>2. PriceRange(Until(last), s, from, day - 1) = PriceRange(prices, s, from, day - 1)
  <2>1. \A d \in Nat : d <= day - 1 => d <= last
    OBVIOUS
  <2> HIDE DEF from
  <2>2. QED
    BY <1>1, <2>1, RowsUntil DEF PriceRange
<1>3. AverageDays(Until(last), s, day, window) = days
  BY <1>2 DEF AverageDays
<1>4. \A d \in days : Until(last)[s][d] = prices[s][d]
  <2>1. days \subseteq PriceRange(Until(last), s, from, day - 1)
    BY <1>2 DEF AverageDays
  <2>2. QED
    BY <2>1, RowsUntil DEF PriceRange
<1>5. \A k \in 1 .. Cardinality(days) : Nth(days, k) \in days
  <2>1. today \in Nat /\ days \in SUBSET (0 .. today)
    <3>1. today \in Nat /\ \A d \in DOMAIN prices[s] : d \in 0 .. today
      BY MarketAssumption DEF ResearchTypeOK
    <3>2. days \subseteq DOMAIN prices[s]
      BY DEF AverageDays, PriceRange
    <3>3. QED
      BY <3>1, <3>2
  <2> HIDE DEF days
  <2>2. QED
    BY <2>1, NthIsThere
<1> HIDE DEF days
<1>6. \A k \in 1 .. Cardinality(days) :
        Num(Until(last)[s][Nth(days, k)].close * Until(last)[s][Nth(days, k)].volume)
          = Num(prices[s][Nth(days, k)].close * prices[s][Nth(days, k)].volume)
  BY <1>4, <1>5
<1>7. [k \in 1 .. Cardinality(days) |->
         Num(Until(last)[s][Nth(days, k)].close * Until(last)[s][Nth(days, k)].volume)]
        = [k \in 1 .. Cardinality(days) |->
             Num(prices[s][Nth(days, k)].close * prices[s][Nth(days, k)].volume)]
  BY <1>6
<1>8. QED
  BY <1>3, <1>7 DEF AverageTraded, days

LEMMA CapUntil ==
    ASSUME ResearchTypeOK, NEW s \in Symbols, NEW day \in Nat
    PROVE  LatestCap(Until(day), s, day) = LatestCap(prices, s, day)
<1>1. DOMAIN prices[s] \subseteq Nat
  BY MarketAssumption DEF ResearchTypeOK
<1>2. CapDays(Until(day), s, day) = CapDays(prices, s, day)
  BY RowsUntil DEF CapDays
<1>3. PICK days : days = CapDays(prices, s, day)
  OBVIOUS
<1>4. ASSUME days # {} PROVE Until(day)[s][Max(days)] = prices[s][Max(days)]
  <2>1. days \in SUBSET (0 .. day)
    BY <1>1, <1>3 DEF CapDays
  <2>2. Max(days) \in days
    BY <1>4, <2>1, LastDay
  <2>3. QED
    BY <1>2, <1>3, <2>2, RowsUntil DEF CapDays
<1>5. QED
  BY <1>2, <1>3, <1>4 DEF LatestCap

LEMMA SelectionUntil ==
    ASSUME ResearchTypeOK, NEW config, NEW day \in Nat
    PROVE  Select(prices, config, day) = Select(Until(LastRead(config, day)), config, day)
<1> DEFINE last   == LastRead(config, day)
           caps   == "min_market_cap" \in DOMAIN config \/ config.method = "MARKET_CAP_TOP_N"
           listed == Unflagged(config, Active(config.market, day))
<1>1. last \in Int /\ day - 1 <= last /\ (caps => last = day)
  BY DEF LastRead
<1>2. listed \subseteq Symbols
  BY DEF ResearchTypeOK, Unflagged, Active
<1>3. \A s \in Symbols : AverageTraded(Until(last), s, day, config.window)
                           = AverageTraded(prices, s, day, config.window)
  <2> HIDE DEF last
  <2>1. QED
    BY <1>1, AverageUntil
<1>4. caps => \A s \in Symbols : LatestCap(Until(last), s, day) = LatestCap(prices, s, day)
  <2> HIDE DEF last, caps
  <2>1. QED
    BY <1>1, CapUntil
<1> HIDE DEF last, listed
<1>5. PICK big : big = BigEnough(prices, config, day, listed)
  OBVIOUS
<1>6. BigEnough(Until(last), config, day, listed) = big /\ big \subseteq Symbols
  BY <1>2, <1>4, <1>5 DEF BigEnough
<1>7. PICK liquid : liquid = LiquidEnough(prices, config, day, big)
  OBVIOUS
<1>8. LiquidEnough(Until(last), config, day, big) = liquid /\ liquid \subseteq Symbols
  BY <1>3, <1>6, <1>7 DEF LiquidEnough
<1>9. Chosen(Until(last), config, day, liquid) = Chosen(prices, config, day, liquid)
  <2>1. \A s \in liquid : Score(Until(last), config, day, s) = Score(prices, config, day, s)
    BY <1>3, <1>4, <1>8 DEF Score
  <2>2. [s \in liquid |-> Score(Until(last), config, day, s)]
          = [s \in liquid |-> Score(prices, config, day, s)]
    BY <2>1
  <2>3. QED
    BY <2>2 DEF Chosen
<1>10. QED
  BY <1>5, <1>6, <1>7, <1>8, <1>9 DEF Select, listed, last

\* No universe looks ahead, whatever is collected, filled in or rescaled, for any
\* configurations and any lookback.
THEOREM UniversesLookBack ==
    ASSUME NEW registered, NEW bars, NEW factors, NEW markets \in SUBSET STRING, NEW configs,
           registered \in [DOMAIN registered -> SymbolType], DOMAIN registered \subseteq Symbols
    PROVE  ResearchSpec(registered, bars, factors, markets, configs) => []UniverseAsSeenThen
<1>1. ResearchTypeOK => UniverseAsSeenThen
  BY MarketAssumption, SelectionUntil DEF UniverseAsSeenThen
<1>2. QED
  BY <1>1, TablesStayTyped, PTL
-----------------------------------------------------------------------------
\* No look-ahead of signals.  First what each column function makes of two columns
\* that begin alike, then each condition, the sections, and the frame itself.

\* Two columns have the same first n rows, whatever rows they go on with.
Agree(x, y, n) ==
    /\ 1..n \subseteq DOMAIN x /\ DOMAIN x \subseteq Nat \ {0}
    /\ 1..n \subseteq DOMAIN y /\ DOMAIN y \subseteq Nat \ {0}
    /\ \A i \in 1..n : x[i] = y[i]

\* Two frames have: the columns that bring a row its next day are not asked.
SameHistory(df, eg, n) ==
    /\ DOMAIN df = DOMAIN eg /\ FrameColumns \subseteq DOMAIN df
    /\ \A col \in DOMAIN df \ NextColumns : Agree(df[col], eg[col], n)

\* The condition names no such column, and its windows are numbers of rows.
WindowKeys == {"period", "ma_period", "short_period", "mid_period", "long_period"}

Backward(c) ==
    /\ \A key \in (ColumnKeys \cup {"index_col"}) \cap Reads(c.type) : Filled(c)[key] \notin NextColumns
    /\ \A key \in WindowKeys \cap Reads(c.type) : Filled(c)[key] \in Int

LEMMA DifferenceAgrees ==
    ASSUME NEW n \in Nat, NEW x, NEW y, Agree(x, y, n), NEW a, NEW b, Agree(a, b, n)
    PROVE  Agree(Difference(x, a), Difference(y, b), n)
BY DEF Agree, Difference

LEMMA QuotientAgrees ==
    ASSUME NEW n \in Nat, NEW x, NEW y, Agree(x, y, n), NEW a, NEW b, Agree(a, b, n)
    PROVE  Agree(Quotient(x, a), Quotient(y, b), n)
BY DEF Agree, Quotient

LEMMA BothAgree ==
    ASSUME NEW n \in Nat, NEW x, NEW y, Agree(x, y, n), NEW a, NEW b, Agree(a, b, n)
    PROVE  Agree(Both(x, a), Both(y, b), n)
BY DEF Agree, Both

LEMMA ShiftAgrees ==
    ASSUME NEW n \in Nat, NEW x, NEW y, Agree(x, y, n), NEW k \in Nat
    PROVE  Agree(Shift(x, k), Shift(y, k), n)
BY DEF Agree, Shift

LEMMA ComparesAgree ==
    ASSUME NEW n \in Nat, NEW x, NEW y, Agree(x, y, n), NEW a, NEW b, Agree(a, b, n), NEW op
    PROVE  Agree(Compares(x, op, a), Compares(y, op, b), n)
BY DEF Agree, Compares

LEMMA MeetsAgree ==
    ASSUME NEW n \in Nat, NEW x, NEW y, Agree(x, y, n), NEW op, NEW k
    PROVE  Agree(Meets(x, op, k), Meets(y, op, k), n)
BY DEF Agree, Meets

LEMMA PercentAgrees ==
    ASSUME NEW n \in Nat, NEW x, NEW y, Agree(x, y, n), NEW a, NEW b, Agree(a, b, n)
    PROVE  Agree(Percent(x, a), Percent(y, b), n)
BY DEF Agree, Percent

LEMMA WindowsAgree ==
    ASSUME NEW n \in Nat, NEW x, NEW y, Agree(x, y, n), NEW i \in 1..n, NEW period \in Int
    PROVE  /\ Full(x, i, period) <=> Full(y, i, period)
           /\ Full(x, i, period) => Window(x, i, period) = Window(y, i, period)
           /\ Window(x, i, i) = Window(y, i, i)
<1>1. \A j \in Int : j <= i => (j \in DOMAIN x <=> j \in DOMAIN y) /\ (j \in DOMAIN x => x[j] = y[j])
  BY DEF Agree
<1>2. \A j \in (i - period + 1) .. i : j \in Int /\ j <= i
  OBVIOUS
<1>3. Full(x, i, period) <=> Full(y, i, period)
  BY <1>1, <1>2 DEF Full
<1>4. ASSUME Full(x, i, period) PROVE Window(x, i, period) = Window(y, i, period)
  <2>1. \A j \in (i - period + 1) .. i : x[j] = y[j]
    BY <1>1, <1>2, <1>4 DEF Full
  <2>2. QED
    BY <2>1 DEF Window
<1>5. Window(x, i, i) = Window(y, i, i)
  <2>1. \A j \in (i - i + 1) .. i : x[j] = y[j]
    BY DEF Agree
  <2>2. QED
    BY <2>1 DEF Window
<1>6. QED
  BY <1>3, <1>4, <1>5

LEMMA RollingMeansAgree ==
    ASSUME NEW n \in Nat, NEW x, NEW y, Agree(x, y, n), NEW period \in Int
    PROVE  Agree(RollingMean(x, period), RollingMean(y, period), n)
<1>1. \A i \in 1..n : RollingMean(x, period)[i] = RollingMean(y, period)[i]
  <2> SUFFICES ASSUME NEW i \in 1..n PROVE RollingMean(x, period)[i] = RollingMean(y, period)[i]
    OBVIOUS
  <2>1. i \in DOMAIN x /\ i \in DOMAIN y
    BY DEF Agree
  <2>2. QED
    BY <2>1, WindowsAgree DEF RollingMean
<1>2. QED
  BY <1>1 DEF Agree, RollingMean

LEMMA RollingMaxesAgree ==
    ASSUME NEW n \in Nat, NEW x, NEW y, Agree(x, y, n), NEW period \in Int
    PROVE  Agree(RollingMax(x, period), RollingMax(y, period), n)
<1>1. \A i \in 1..n : RollingMax(x, period)[i] = RollingMax(y, period)[i]
  <2> SUFFICES ASSUME NEW i \in 1..n PROVE RollingMax(x, period)[i] = RollingMax(y, period)[i]
    OBVIOUS
  <2>1. i \in DOMAIN x /\ i \in DOMAIN y
    BY DEF Agree
  <2>2. QED
    BY <2>1, WindowsAgree DEF RollingMax
<1>2. QED
  BY <1>1 DEF Agree, RollingMax

LEMMA EwmsAgree ==
    ASSUME NEW n \in Nat, NEW x, NEW y, Agree(x, y, n), NEW alpha, NEW least
    PROVE  Agree(Ewm(x, alpha, least), Ewm(y, alpha, least), n)
<1>1. \A i \in 1..n : Ewm(x, alpha, least)[i] = Ewm(y, alpha, least)[i]
  <2> SUFFICES ASSUME NEW i \in 1..n PROVE Ewm(x, alpha, least)[i] = Ewm(y, alpha, least)[i]
    OBVIOUS
  <2>1. i \in DOMAIN x /\ i \in DOMAIN y
    BY DEF Agree
  <2>2. Window(x, i, i) = Window(y, i, i)
    BY WindowsAgree
  <2>3. QED
    BY <2>1, <2>2 DEF Ewm
<1>2. QED
  BY <1>1 DEF Agree, Ewm

LEMMA RsisAgree ==
    ASSUME NEW n \in Nat, NEW x, NEW y, Agree(x, y, n), NEW period
    PROVE  Agree(Rsi(x, period), Rsi(y, period), n)
<1>1. Agree(Diff(x), Diff(y), n)
  BY ShiftAgrees, DifferenceAgrees DEF Diff
<1>2. Agree(Rises(x), Rises(y), n) /\ Agree(Falls(x), Falls(y), n)
  BY <1>1 DEF Agree, Rises, Falls
<1>3. ASSUME NEW a, NEW b, NEW v, NEW w, Agree(a, b, n), Agree(v, w, n)
      PROVE  Agree(Strength(a, v), Strength(b, w), n)
  BY <1>3 DEF Agree, Strength
<1>4. QED
  BY <1>2, <1>3, EwmsAgree DEF Rsi

LEMMA CrossesAgree ==
    ASSUME NEW n \in Nat, NEW x, NEW y, Agree(x, y, n), NEW was, NEW is, NEW k
    PROVE  Agree(Crosses(x, was, is, k), Crosses(y, was, is, k), n)
BY ShiftAgrees, MeetsAgree, BothAgree DEF Crosses

LEMMA HistogramsAgree ==
    ASSUME NEW n \in Nat, NEW x, NEW y, Agree(x, y, n), NEW c
    PROVE  Agree(Histogram(c, x), Histogram(c, y), n)
<1>1. Agree(MacdLine(c, x), MacdLine(c, y), n)
  BY EwmsAgree, DifferenceAgrees DEF MacdLine, Ema
<1>2. QED
  BY <1>1, EwmsAgree, DifferenceAgrees DEF Histogram, SignalLine

\* What each condition makes of two frames with the same history.
LEMMA ColumnsAgree ==
    ASSUME NEW n \in Nat, NEW df, NEW eg, SameHistory(df, eg, n), NEW col, col \in FrameColumns \ NextColumns
    PROVE  Agree(df[col], eg[col], n)
BY DEF SameHistory

LEMMA PricesAgree ==
    ASSUME NEW n \in Nat, NEW df, NEW eg, SameHistory(df, eg, n)
    PROVE  /\ Agree(df.adj_close, eg.adj_close, n) /\ Agree(df.adj_open, eg.adj_open, n)
           /\ Agree(df.adj_high, eg.adj_high, n) /\ Agree(df.adj_low, eg.adj_low, n)
           /\ Agree(df.close, eg.close, n) /\ Agree(df.volume, eg.volume, n)
<1>1. {"adj_close", "adj_open", "adj_high", "adj_low", "close", "volume"} \subseteq FrameColumns \ NextColumns
  BY DEF FrameColumns, NextColumns
<1>2. QED
  BY <1>1, ColumnsAgree

LEMMA ConstantsAgree ==
    ASSUME NEW n \in Nat, NEW df, NEW eg, SameHistory(df, eg, n), NEW value
    PROVE  Agree(Constantly(value, DOMAIN df.close), Constantly(value, DOMAIN eg.close), n)
<1>1. Agree(df.close, eg.close, n)
  BY PricesAgree
<1>2. QED
  BY <1>1 DEF Agree, Constantly

LEMMA PriceVsMasAgree ==
    ASSUME NEW n \in Nat, NEW df, NEW eg, SameHistory(df, eg, n), NEW c,
           c.price_field \in FrameColumns \ NextColumns, c.ma_period \in Int
    PROVE  Agree(PriceVsMa(df, c), PriceVsMa(eg, c), n)
BY ColumnsAgree, RollingMeansAgree, ComparesAgree DEF PriceVsMa, MovingAverage

LEMMA MaCrossesAgree ==
    ASSUME NEW n \in Nat, NEW df, NEW eg, SameHistory(df, eg, n), NEW c,
           c.price_field \in FrameColumns \ NextColumns, c.short_period \in Int, c.long_period \in Int
    PROVE  Agree(MaCross(df, c), MaCross(eg, c), n)
<1> DEFINE spread(f) == Difference(MovingAverage(f[c.price_field], c.short_period),
                                   MovingAverage(f[c.price_field], c.long_period))
<1>1. Agree(spread(df), spread(eg), n)
  BY ColumnsAgree, RollingMeansAgree, DifferenceAgrees DEF MovingAverage
<1>2. \A was, is : Agree(Crosses(spread(df), was, is, 0), Crosses(spread(eg), was, is, 0), n)
  <2> HIDE DEF spread
  <2>1. QED
    BY <1>1, CrossesAgree
<1>3. QED
  BY <1>2 DEF MaCross

LEMMA MaAlignmentsAgree ==
    ASSUME NEW n \in Nat, NEW df, NEW eg, SameHistory(df, eg, n), NEW c,
           c.price_field \in FrameColumns \ NextColumns,
           c.short_period \in Int, c.mid_period \in Int, c.long_period \in Int
    PROVE  Agree(MaAlignment(df, c), MaAlignment(eg, c), n)
<1> DEFINE ma(f, period) == MovingAverage(f[c.price_field], period)
           op            == IF c.direction = "bullish" THEN ">" ELSE "<"
<1>1. \A period \in Int : Agree(ma(df, period), ma(eg, period), n)
  BY ColumnsAgree, RollingMeansAgree DEF MovingAverage
<1>2. /\ Agree(Compares(ma(df, c.short_period), op, ma(df, c.mid_period)),
               Compares(ma(eg, c.short_period), op, ma(eg, c.mid_period)), n)
      /\ Agree(Compares(ma(df, c.mid_period), op, ma(df, c.long_period)),
               Compares(ma(eg, c.mid_period), op, ma(eg, c.long_period)), n)
  <2> HIDE DEF ma, op
  <2>1. QED
    BY <1>1, ComparesAgree
<1>3. QED
  BY <1>2, BothAgree DEF MaAlignment

LEMMA NewHighBreakoutsAgree ==
    ASSUME NEW n \in Nat, NEW df, NEW eg, SameHistory(df, eg, n), NEW c,
           c.field \in FrameColumns \ NextColumns, c.period \in Int
    PROVE  Agree(NewHighBreakout(df, c), NewHighBreakout(eg, c), n)
<1>1. Agree(df[c.field], eg[c.field], n)
  BY ColumnsAgree
<1>2. Agree(RollingMax(Shift(df[c.field], 1), c.period), RollingMax(Shift(eg[c.field], 1), c.period), n)
  BY <1>1, ShiftAgrees, RollingMaxesAgree
<1>3. QED
  BY <1>1, <1>2, ComparesAgree DEF NewHighBreakout

LEMMA GapPctsAgree ==
    ASSUME NEW n \in Nat, NEW df, NEW eg, SameHistory(df, eg, n), NEW c
    PROVE  Agree(GapPct(df, c), GapPct(eg, c), n)
BY PricesAgree, ShiftAgrees, PercentAgrees, MeetsAgree DEF GapPct, PreviousClose

LEMMA ChangesAgree ==
    ASSUME NEW n \in Nat, NEW x, NEW y, Agree(x, y, n), NEW k \in Nat
    PROVE  Agree(Change(x, k), Change(y, k), n)
BY ShiftAgrees, PercentAgrees DEF Change

LEMMA MomentumReturnsAgree ==
    ASSUME NEW n \in Nat, NEW df, NEW eg, SameHistory(df, eg, n), NEW c,
           c.price_field \in FrameColumns \ NextColumns, c.period \in Nat
    PROVE  Agree(MomentumReturn(df, c), MomentumReturn(eg, c), n)
BY ColumnsAgree, ChangesAgree, MeetsAgree DEF MomentumReturn

LEMMA PriceChangePctsAgree ==
    ASSUME NEW n \in Nat, NEW df, NEW eg, SameHistory(df, eg, n), NEW c,
           c.price_field \in FrameColumns \ NextColumns
    PROVE  Agree(PriceChangePct(df, c), PriceChangePct(eg, c), n)
BY ColumnsAgree, ChangesAgree, MeetsAgree DEF PriceChangePct

LEMMA BullishCandlesAgree ==
    ASSUME NEW n \in Nat, NEW df, NEW eg, SameHistory(df, eg, n), NEW c
    PROVE  Agree(BullishCandle(df, c), BullishCandle(eg, c), n)
<1> DEFINE body(f)  == Difference(f.adj_close, f.adj_open)
           range(f) == Difference(f.adj_high, f.adj_low)
           share(f) == [i \in DOMAIN body(f) |-> Over(Times(Num(100), body(f)[i]), range(f)[i])]
<1>1. Agree(body(df), body(eg), n) /\ Agree(range(df), range(eg), n)
  BY PricesAgree, DifferenceAgrees
<1>2. Agree(share(df), share(eg), n)
  <2> HIDE DEF body, range
  <2>1. QED
    BY <1>1 DEF Agree
<1>3. QED
  BY <1>1, <1>2, MeetsAgree, BothAgree DEF BullishCandle

LEMMA VolumeRatiosAgree ==
    ASSUME NEW n \in Nat, NEW df, NEW eg, SameHistory(df, eg, n), NEW c,
           c.volume_field \in FrameColumns \ NextColumns, c.period \in Int
    PROVE  Agree(VolumeRatio(df, c), VolumeRatio(eg, c), n)
<1>1. Agree(df[c.volume_field], eg[c.volume_field], n)
  BY ColumnsAgree
<1>2. QED
  BY <1>1, RollingMeansAgree, QuotientAgrees, MeetsAgree DEF VolumeRatio, MovingAverage

LEMMA AvgTradingValuesAgree ==
    ASSUME NEW n \in Nat, NEW df, NEW eg, SameHistory(df, eg, n), NEW c, c.period \in Int
    PROVE  Agree(AvgTradingValue(df, c), AvgTradingValue(eg, c), n)
<1> DEFINE value(f) == [i \in DOMAIN f.close |-> Over(Times(f.close[i], f.volume[i]), Num(Eok))]
<1>1. Agree(value(df), value(eg), n)
  <2>1. Agree(df.close, eg.close, n) /\ Agree(df.volume, eg.volume, n)
    BY PricesAgree
  <2>2. \A i \in 1..n : df.close[i] = eg.close[i] /\ df.volume[i] = eg.volume[i]
    BY <2>1 DEF Agree
  <2>3. \A i \in 1..n : value(df)[i] = value(eg)[i]
    BY <2>1, <2>2 DEF Agree
  <2>4. QED
    BY <2>1, <2>3 DEF Agree
<1>2. Agree(RollingMean(value(df), c.period), RollingMean(value(eg), c.period), n)
  <2> HIDE DEF value
  <2>1. QED
    BY <1>1, RollingMeansAgree
<1>3. QED
  BY <1>2, MeetsAgree DEF AvgTradingValue

LEMMA MarketIndexFiltersAgree ==
    ASSUME NEW n \in Nat, NEW df, NEW eg, SameHistory(df, eg, n), NEW c, c.index_col \notin NextColumns
    PROVE  Agree(MarketIndexFilter(df, c), MarketIndexFilter(eg, c), n)
<1>1. CASE c.index_col \in DOMAIN df
  <2>1. Agree(df[c.index_col], eg[c.index_col], n) /\ c.index_col \in DOMAIN eg
    BY <1>1 DEF SameHistory
  <2>2. QED
    BY <1>1, <2>1, MeetsAgree DEF MarketIndexFilter
<1>2. CASE c.index_col \notin DOMAIN df
  <2>1. c.index_col \notin DOMAIN eg
    BY <1>2 DEF SameHistory
  <2>2. QED
    BY <1>2, <2>1, ConstantsAgree DEF MarketIndexFilter
<1>3. QED
  BY <1>1, <1>2

LEMMA RsiLevelsAgree ==
    ASSUME NEW n \in Nat, NEW df, NEW eg, SameHistory(df, eg, n), NEW c,
           c.price_field \in FrameColumns \ NextColumns
    PROVE  Agree(RsiLevel(df, c), RsiLevel(eg, c), n)
BY ColumnsAgree, RsisAgree, MeetsAgree DEF RsiLevel

LEMMA RsiCrossesAgree ==
    ASSUME NEW n \in Nat, NEW df, NEW eg, SameHistory(df, eg, n), NEW c,
           c.price_field \in FrameColumns \ NextColumns
    PROVE  Agree(RsiCross(df, c), RsiCross(eg, c), n)
<1>1. Agree(Rsi(df[c.price_field], c.period), Rsi(eg[c.price_field], c.period), n)
  BY ColumnsAgree, RsisAgree
<1>2. QED
  BY <1>1, CrossesAgree DEF RsiCross

LEMMA MacdCrossesAgree ==
    ASSUME NEW n \in Nat, NEW df, NEW eg, SameHistory(df, eg, n), NEW c,
           c.price_field \in FrameColumns \ NextColumns
    PROVE  Agree(MacdCross(df, c), MacdCross(eg, c), n)
<1>1. Agree(Histogram(c, df[c.price_field]), Histogram(c, eg[c.price_field]), n)
  BY ColumnsAgree, HistogramsAgree
<1>2. QED
  BY <1>1, CrossesAgree DEF MacdCross

LEMMA MacdHistogramsAgree ==
    ASSUME NEW n \in Nat, NEW df, NEW eg, SameHistory(df, eg, n), NEW c,
           c.price_field \in FrameColumns \ NextColumns
    PROVE  Agree(MacdHistogram(df, c), MacdHistogram(eg, c), n)
BY ColumnsAgree, HistogramsAgree, MeetsAgree DEF MacdHistogram

\* What a condition that is evaluated without an error reads.
LEMMA ReadsAreInTheFrame ==
    ASSUME NEW c, "type" \in DOMAIN c, ~Raises(c), Backward(c)
    PROVE  /\ c.type \in TimeseriesTypes
           /\ \A key \in ColumnKeys \cap Reads(c.type) : Filled(c)[key] \in FrameColumns \ NextColumns
           /\ "index_col" \in Reads(c.type) => Filled(c).index_col \notin NextColumns
           /\ \A key \in WindowKeys \cap Reads(c.type) : Filled(c)[key] \in Int
           /\ c.type = "momentum_return" => Filled(c).period \in Nat
<1>1. c.type \in TimeseriesTypes /\ ~Refused(Filled(c)) /\ Filled(c).type = c.type
  BY FilledKeepsType DEF Raises
<1>2. \A key \in ColumnKeys \cap Reads(c.type) : Filled(c)[key] \in FrameColumns
  BY <1>1 DEF Refused
<1>3. ASSUME c.type = "momentum_return" PROVE Filled(c).period \in Nat
  <2>1. "period" \in Reads(c.type)
    BY <1>3, ReadsAre
  <2>2. ~(Filled(c).period < 1)
    BY <1>1, <1>3, <2>1 DEF Refused
  <2>3. QED
    BY <2>1, <2>2 DEF Backward, WindowKeys
<1>4. QED
  BY <1>1, <1>2, <1>3 DEF Backward

\* Condition by condition: a signal of a day is the same whatever comes after the day.
THEOREM ConditionsLookBack ==
    ASSUME NEW n \in Nat, NEW df, NEW eg, SameHistory(df, eg, n),
           NEW c, "type" \in DOMAIN c, ~Raises(c), Backward(c)
    PROVE  Agree(Evaluate(df, c), Evaluate(eg, c), n)
<1> DEFINE d == Filled(c)
<1>0. d.type = c.type
  BY FilledKeepsType
<1>1. /\ c.type \in TimeseriesTypes
      /\ \A key \in ColumnKeys \cap Reads(c.type) : d[key] \in FrameColumns \ NextColumns
      /\ "index_col" \in Reads(c.type) => d.index_col \notin NextColumns
      /\ \A key \in WindowKeys \cap Reads(c.type) : d[key] \in Int
      /\ c.type = "momentum_return" => d.period \in Nat
  BY ReadsAreInTheFrame
<1>2. \A f : Evaluate(f, c) =
         CASE d.type = "price_vs_ma" -> PriceVsMa(f, d)
           [] d.type = "ma_cross" -> MaCross(f, d)
           [] d.type = "ma_alignment" -> MaAlignment(f, d)
           [] d.type = "new_high_breakout" -> NewHighBreakout(f, d)
           [] d.type = "gap_pct" -> GapPct(f, d)
           [] d.type = "momentum_return" -> MomentumReturn(f, d)
           [] d.type = "price_change_pct" -> PriceChangePct(f, d)
           [] d.type = "bullish_candle" -> BullishCandle(f, d)
           [] d.type = "volume_ratio" -> VolumeRatio(f, d)
           [] d.type = "avg_trading_value" -> AvgTradingValue(f, d)
           [] d.type = "market_index_filter" -> MarketIndexFilter(f, d)
           [] d.type = "rsi_level" -> RsiLevel(f, d)
           [] d.type = "rsi_cross" -> RsiCross(f, d)
           [] d.type = "macd_cross" -> MacdCross(f, d)
           [] d.type = "macd_histogram" -> MacdHistogram(f, d)
  BY DEF Evaluate
<1> HIDE DEF d
<1>3. CASE c.type = "price_vs_ma"
  <2>1. d.price_field \in FrameColumns \ NextColumns /\ d.ma_period \in Int
    BY <1>1, <1>3, ReadsAre DEF ColumnKeys, WindowKeys
  <2>2. Agree(PriceVsMa(df, d), PriceVsMa(eg, d), n)
    BY <2>1, PriceVsMasAgree
  <2>3. QED
    BY <1>0, <1>2, <1>3, <2>2
<1>4. CASE c.type = "ma_cross"
  <2>1. /\ d.price_field \in FrameColumns \ NextColumns
         /\ d.short_period \in Int
         /\ d.long_period \in Int
    BY <1>1, <1>4, ReadsAre DEF ColumnKeys, WindowKeys
  <2>2. Agree(MaCross(df, d), MaCross(eg, d), n)
    BY <2>1, MaCrossesAgree
  <2>3. QED
    BY <1>0, <1>2, <1>4, <2>2
<1>5. CASE c.type = "ma_alignment"
  <2>1. /\ d.price_field \in FrameColumns \ NextColumns
         /\ d.short_period \in Int
         /\ d.mid_period \in Int
         /\ d.long_period \in Int
    BY <1>1, <1>5, ReadsAre DEF ColumnKeys, WindowKeys
  <2>2. Agree(MaAlignment(df, d), MaAlignment(eg, d), n)
    BY <2>1, MaAlignmentsAgree
  <2>3. QED
    BY <1>0, <1>2, <1>5, <2>2
<1>6. CASE c.type = "new_high_breakout"
  <2>1. d.field \in FrameColumns \ NextColumns /\ d.period \in Int
    BY <1>1, <1>6, ReadsAre DEF ColumnKeys, WindowKeys
  <2>2. Agree(NewHighBreakout(df, d), NewHighBreakout(eg, d), n)
    BY <2>1, NewHighBreakoutsAgree
  <2>3. QED
    BY <1>0, <1>2, <1>6, <2>2
<1>7. CASE c.type = "gap_pct"
  <2>2. Agree(GapPct(df, d), GapPct(eg, d), n)
    BY GapPctsAgree
  <2>3. QED
    BY <1>0, <1>2, <1>7, <2>2
<1>8. CASE c.type = "momentum_return"
  <2>1. d.price_field \in FrameColumns \ NextColumns /\ d.period \in Nat
    BY <1>1, <1>8, ReadsAre DEF ColumnKeys, WindowKeys
  <2>2. Agree(MomentumReturn(df, d), MomentumReturn(eg, d), n)
    BY <2>1, MomentumReturnsAgree
  <2>3. QED
    BY <1>0, <1>2, <1>8, <2>2
<1>9. CASE c.type = "price_change_pct"
  <2>1. d.price_field \in FrameColumns \ NextColumns
    BY <1>1, <1>9, ReadsAre DEF ColumnKeys, WindowKeys
  <2>2. Agree(PriceChangePct(df, d), PriceChangePct(eg, d), n)
    BY <2>1, PriceChangePctsAgree
  <2>3. QED
    BY <1>0, <1>2, <1>9, <2>2
<1>10. CASE c.type = "bullish_candle"
  <2>2. Agree(BullishCandle(df, d), BullishCandle(eg, d), n)
    BY BullishCandlesAgree
  <2>3. QED
    BY <1>0, <1>2, <1>10, <2>2
<1>11. CASE c.type = "volume_ratio"
  <2>1. d.volume_field \in FrameColumns \ NextColumns /\ d.period \in Int
    BY <1>1, <1>11, ReadsAre DEF ColumnKeys, WindowKeys
  <2>2. Agree(VolumeRatio(df, d), VolumeRatio(eg, d), n)
    BY <2>1, VolumeRatiosAgree
  <2>3. QED
    BY <1>0, <1>2, <1>11, <2>2
<1>12. CASE c.type = "avg_trading_value"
  <2>1. d.period \in Int
    BY <1>1, <1>12, ReadsAre DEF ColumnKeys, WindowKeys
  <2>2. Agree(AvgTradingValue(df, d), AvgTradingValue(eg, d), n)
    BY <2>1, AvgTradingValuesAgree
  <2>3. QED
    BY <1>0, <1>2, <1>12, <2>2
<1>13. CASE c.type = "market_index_filter"
  <2>1. d.index_col \notin NextColumns
    BY <1>1, <1>13, ReadsAre DEF ColumnKeys, WindowKeys
  <2>2. Agree(MarketIndexFilter(df, d), MarketIndexFilter(eg, d), n)
    BY <2>1, MarketIndexFiltersAgree
  <2>3. QED
    BY <1>0, <1>2, <1>13, <2>2
<1>14. CASE c.type = "rsi_level"
  <2>1. d.price_field \in FrameColumns \ NextColumns
    BY <1>1, <1>14, ReadsAre DEF ColumnKeys, WindowKeys
  <2>2. Agree(RsiLevel(df, d), RsiLevel(eg, d), n)
    BY <2>1, RsiLevelsAgree
  <2>3. QED
    BY <1>0, <1>2, <1>14, <2>2
<1>15. CASE c.type = "rsi_cross"
  <2>1. d.price_field \in FrameColumns \ NextColumns
    BY <1>1, <1>15, ReadsAre DEF ColumnKeys, WindowKeys
  <2>2. Agree(RsiCross(df, d), RsiCross(eg, d), n)
    BY <2>1, RsiCrossesAgree
  <2>3. QED
    BY <1>0, <1>2, <1>15, <2>2
<1>16. CASE c.type = "macd_cross"
  <2>1. d.price_field \in FrameColumns \ NextColumns
    BY <1>1, <1>16, ReadsAre DEF ColumnKeys, WindowKeys
  <2>2. Agree(MacdCross(df, d), MacdCross(eg, d), n)
    BY <2>1, MacdCrossesAgree
  <2>3. QED
    BY <1>0, <1>2, <1>16, <2>2
<1>17. CASE c.type = "macd_histogram"
  <2>1. d.price_field \in FrameColumns \ NextColumns
    BY <1>1, <1>17, ReadsAre DEF ColumnKeys, WindowKeys
  <2>2. Agree(MacdHistogram(df, d), MacdHistogram(eg, d), n)
    BY <2>1, MacdHistogramsAgree
  <2>3. QED
    BY <1>0, <1>2, <1>17, <2>2
<1>18. QED
  BY <1>1, <1>3, <1>4, <1>5, <1>6, <1>7, <1>8, <1>9, <1>10, <1>11, <1>12, <1>13, <1>14,
     <1>15, <1>16, <1>17, TypesAre

LEMMA CombinationsAgree ==
    ASSUME NEW n \in Nat, NEW signals, NEW others, NEW logic, NEW rows, NEW more,
           1..n \subseteq rows, rows \subseteq Nat \ {0}, 1..n \subseteq more, more \subseteq Nat \ {0},
           \A signal \in signals : \E other \in others : Agree(signal, other, n),
           \A other \in others : \E signal \in signals : Agree(signal, other, n)
    PROVE  Agree(Combined(signals, logic, rows), Combined(others, logic, more), n)
<1>1. \A i \in 1..n : {signal[i] : signal \in signals} = {other[i] : other \in others}
  BY DEF Agree
<1>2. \A i \in 1..n : Combined(signals, logic, rows)[i] = Combined(others, logic, more)[i]
  <2> SUFFICES ASSUME NEW i \in 1..n
               PROVE  Combined(signals, logic, rows)[i] = Combined(others, logic, more)[i]
    OBVIOUS
  <2>1. i \in rows /\ i \in more
    OBVIOUS
  <2>2. {signal[i] : signal \in signals} = {other[i] : other \in others}
    BY <1>1
  <2>3. QED
    BY ONLY <2>1, <2>2 DEF Combined
<1>3. QED
  BY <1>2 DEF Agree, Combined

\* The condition is evaluated without an error, and looks at no next day.
Clear(c) == "type" \in DOMAIN c /\ ~Raises(c) /\ Backward(c)

LEMMA PlainSignalsAgree ==
    ASSUME NEW n \in Nat, NEW df, NEW eg, SameHistory(df, eg, n),
           NEW part, \A c \in Range(part.conditions) : Clear(c)
    PROVE  Agree(PlainSignal(df, part), PlainSignal(eg, part), n)
<1>1. \A c \in Range(part.conditions) : Agree(Evaluate(df, c), Evaluate(eg, c), n)
  BY ConditionsLookBack DEF Clear
<1>2. /\ 1..n \subseteq DOMAIN df.close /\ DOMAIN df.close \subseteq Nat \ {0}
      /\ 1..n \subseteq DOMAIN eg.close /\ DOMAIN eg.close \subseteq Nat \ {0}
  BY PricesAgree DEF Agree
<1> DEFINE signals(f) == {Evaluate(f, c) : c \in Range(part.conditions)}
<1>3. /\ \A signal \in signals(df) : \E other \in signals(eg) : Agree(signal, other, n)
      /\ \A other \in signals(eg) : \E signal \in signals(df) : Agree(signal, other, n)
  BY <1>1
<1>4. Agree(Combined(signals(df), part.logic, DOMAIN df.close),
            Combined(signals(eg), part.logic, DOMAIN eg.close), n)
  <2> HIDE DEF signals
  <2>1. QED
    BY <1>2, <1>3, CombinationsAgree
<1>5. QED
  BY <1>4 DEF PlainSignal

LEMMA SectionSignalsAgree ==
    ASSUME NEW n \in Nat, NEW df, NEW eg, SameHistory(df, eg, n),
           NEW section, \A c \in InSection(section) : Clear(c)
    PROVE  Agree(SectionSignal(df, section), SectionSignal(eg, section), n)
<1> DEFINE parts      == IF IsGroup(section) THEN Range(section.groups) ELSE {section}
           logic      == IF IsGroup(section) THEN section.operator ELSE "AND"
           signals(f) == {PlainSignal(f, part) : part \in parts}
<1>1. \A part \in parts : \A c \in Range(part.conditions) : Clear(c)
  BY DEF InSection, Range
<1>2. \A part \in parts : Agree(PlainSignal(df, part), PlainSignal(eg, part), n)
  BY <1>1, PlainSignalsAgree
<1>3. /\ 1..n \subseteq DOMAIN df.close /\ DOMAIN df.close \subseteq Nat \ {0}
      /\ 1..n \subseteq DOMAIN eg.close /\ DOMAIN eg.close \subseteq Nat \ {0}
  BY PricesAgree DEF Agree
<1>4. /\ \A signal \in signals(df) : \E other \in signals(eg) : Agree(signal, other, n)
      /\ \A other \in signals(eg) : \E signal \in signals(df) : Agree(signal, other, n)
  <2> HIDE DEF parts
  <2>1. QED
    BY <1>2
<1>5. Agree(Combined(signals(df), logic, DOMAIN df.close),
            Combined(signals(eg), logic, DOMAIN eg.close), n)
  <2> HIDE DEF signals, logic
  <2>1. QED
    BY <1>3, <1>4, CombinationsAgree
<1>6. QED
  BY <1>5 DEF SectionSignal

LEMMA ValidConditionsHaveTypes ==
    ASSUME NEW doc, Valid(doc)
    PROVE  \A c \in Signalling(doc) : "type" \in DOMAIN c
<1>1. ASSUME NEW part, NEW section, ValidPlain(part, section)
      PROVE  /\ part.logic \in {"AND", "OR"}
             /\ \A c \in Range(part.conditions) : "type" \in DOMAIN c
  <2>1. "logic" \in DOMAIN part /\ "conditions" \in DOMAIN part
    BY <1>1 DEF ValidPlain, Get
  <2>2. QED
    BY <1>1, <2>1 DEF ValidPlain, ValidCondition, Get, Range
<1>2. ASSUME NEW part, NEW section, ValidSection(part, section)
      PROVE  \A c \in InSection(part) : "type" \in DOMAIN c
  <2>1. CASE Get(part, "logic", "none") = "GROUP"
    <3>1. IsGroup(part)
      BY <2>1 DEF Get, IsGroup
    <3>2. "groups" \in DOMAIN part /\ \A k \in DOMAIN part.groups : ValidPlain(part.groups[k], section)
      BY <1>2, <2>1 DEF ValidSection, Get
    <3>3. QED
      BY <1>1, <3>1, <3>2 DEF InSection
  <2>2. CASE Get(part, "logic", "none") # "GROUP"
    <3>1. ValidPlain(part, section)
      BY <1>2, <2>2 DEF ValidSection
    <3>2. ~IsGroup(part)
      BY <1>1, <3>1 DEF IsGroup
    <3>3. QED
      BY <1>1, <3>1, <3>2 DEF InSection
  <2>3. QED
    BY <2>1, <2>2
<1>3. QED
  BY <1>2 DEF Valid, Signalling, Sections

LEMMA SignalsAgree ==
    ASSUME NEW n \in Nat, NEW df, NEW eg, SameHistory(df, eg, n),
           NEW doc, Valid(doc), ~SignalsRaise(doc), \A c \in Signalling(doc) : Backward(c)
    PROVE  /\ Agree(GenerateSignals(df, doc).final_entry_signal,
                    GenerateSignals(eg, doc).final_entry_signal, n)
           /\ Agree(GenerateSignals(df, doc).exit_signal, GenerateSignals(eg, doc).exit_signal, n)
<1> DEFINE of(f, section, otherwise) ==
             IF section \in DOMAIN doc THEN SectionSignal(f, doc[section])
                                       ELSE Constantly(otherwise, DOMAIN f.close)
<1>1. \A c \in Signalling(doc) : Clear(c)
  BY ValidConditionsHaveTypes DEF SignalsRaise, Clear
<1>2. ASSUME NEW section \in TimeseriesSections, NEW otherwise
      PROVE  Agree(of(df, section, otherwise), of(eg, section, otherwise), n)
  <2>1. CASE section \in DOMAIN doc
    <3>1. \A c \in InSection(doc[section]) : Clear(c)
      BY <1>1, <2>1 DEF Signalling
    <3>2. QED
      BY <2>1, <3>1, SectionSignalsAgree
  <2>2. CASE section \notin DOMAIN doc
    <3>1. Agree(Constantly(otherwise, DOMAIN df.close), Constantly(otherwise, DOMAIN eg.close), n)
      BY ConstantsAgree
    <3>2. QED
      BY <2>2, <3>1
  <2>3. QED
    BY <2>1, <2>2
<1>3. \A f : /\ GenerateSignals(f, doc).final_entry_signal = Both(of(f, "entry", TRUE), of(f, "filters", TRUE))
             /\ GenerateSignals(f, doc).exit_signal = of(f, "exit_signal", FALSE)
  BY DEF GenerateSignals
<1> HIDE DEF of
<1>4. QED
  BY <1>2, <1>3, BothAgree DEF TimeseriesSections

\* The rows of a frame, in the order of their days.
LEMMA RowsAgree ==
    ASSUME ResearchTypeOK, NEW s \in Symbols, NEW day \in Nat
    PROVE  Agree(InOrder(Until(day)[s]), InOrder(prices[s]), Cardinality(DOMAIN Until(day)[s]))
<1> DEFINE all   == DOMAIN prices[s]
           early == DOMAIN Until(day)[s]
<1>1. early = {d \in all : d <= day} /\ \A d \in early : Until(day)[s][d] = prices[s][d]
  BY RowsUntil
<1>2. PICK N \in Nat : all \in SUBSET (0 .. N)
  <2>1. today \in Nat /\ \A d \in all : d \in Nat /\ d <= today
    BY MarketAssumption DEF ResearchTypeOK
  <2>2. QED
    BY <2>1
<1> HIDE DEF all, early
<1>3. early \in SUBSET (0 .. N) /\ early \subseteq all
  BY <1>1, <1>2
<1>4. /\ IsFiniteSet(all) /\ IsFiniteSet(early)
      /\ Cardinality(all) \in Nat /\ Cardinality(early) \in Nat
      /\ Cardinality(early) <= Cardinality(all)
  <2>1. IsFiniteSet(0 .. N)
    BY FS_Interval
  <2>2. IsFiniteSet(all)
    BY <1>2, <2>1, FS_Subset
  <2>3. QED
    BY <1>3, <2>2, FS_Subset, FS_CardinalityType
<1>5. ASSUME NEW i \in 1 .. Cardinality(early)
      PROVE  Nth(early, i) = Nth(all, i) /\ Nth(early, i) \in early
  <2>1. PICK d : d = Nth(early, i)
    OBVIOUS
  <2>2. d \in early /\ Cardinality({e \in early : e < d}) = i - 1
    BY <1>3, <2>1, NthIsThere
  <2>3. {e \in early : e < d} = {e \in all : e < d}
    BY <1>1, <1>2, <2>2
  <2>4. Cardinality({e \in all : e < d}) = i - 1 /\ d \in all
    BY <1>3, <2>2, <2>3
  <2>5. PICK b : b = Nth(all, i)
    OBVIOUS
  <2>6. b \in all /\ Cardinality({e \in all : e < b}) = i - 1
    BY <2>4, <2>5 DEF Nth
  <2>7. b = d
    BY <1>2, <1>4, <2>4, <2>6, NthIsUnique
  <2>8. QED
    BY <2>1, <2>2, <2>5, <2>7
<1>6. /\ DOMAIN InOrder(Until(day)[s]) = 1 .. Cardinality(early)
      /\ DOMAIN InOrder(prices[s]) = 1 .. Cardinality(all)
  BY DEF InOrder, early, all
<1>7. ASSUME NEW i \in 1 .. Cardinality(early) PROVE InOrder(Until(day)[s])[i] = InOrder(prices[s])[i]
  <2>1. i \in 1 .. Cardinality(all)
    BY <1>4
  <2>2. /\ InOrder(Until(day)[s])[i] = Until(day)[s][Nth(early, i)]
        /\ InOrder(prices[s])[i] = prices[s][Nth(all, i)]
    BY <2>1 DEF InOrder, early, all
  <2>3. QED
    BY <1>1, <1>5, <2>2
<1>8. QED
  <2>1. 1 .. Cardinality(early) \subseteq 1 .. Cardinality(all) /\ 1 .. Cardinality(all) \subseteq Nat \ {0}
    BY <1>4
  <2>2. QED
    BY <1>6, <1>7, <2>1 DEF Agree, early

\* What a frame makes of the rows, column by column.
LEMMA FramesAgree ==
    ASSUME NEW n \in Nat, NEW few, NEW many, Agree(InOrder(few), InOrder(many), n)
    PROVE  SameHistory(Frame(few), Frame(many), n)
<1>1. DOMAIN Frame(few) = FrameColumns /\ DOMAIN Frame(many) = FrameColumns
  BY DEF Frame, FrameColumns, NextColumns
<1> DEFINE raw(rows, name) == [i \in DOMAIN InOrder(rows) |-> Num(InOrder(rows)[i][name])]
           adj(rows, name) == [i \in DOMAIN InOrder(rows) |-> AdjustedPrice(InOrder(rows)[i], name)]
<1>2. \A name : /\ Agree(raw(few, name), raw(many, name), n)
                /\ Agree(adj(few, name), adj(many, name), n)
  BY DEF Agree
<1>3. /\ Agree([i \in DOMAIN InOrder(few) |-> AdjustedVolume(InOrder(few)[i])],
               [i \in DOMAIN InOrder(many) |-> AdjustedVolume(InOrder(many)[i])], n)
      /\ Agree(Frame(few).market_cap, Frame(many).market_cap, n)
  BY DEF Agree, Frame
<1>4. \A rows : /\ Frame(rows).open = raw(rows, "open") /\ Frame(rows).high = raw(rows, "high")
                /\ Frame(rows).low = raw(rows, "low") /\ Frame(rows).close = raw(rows, "close")
                /\ Frame(rows).volume = raw(rows, "volume")
                /\ Frame(rows).adj_open = adj(rows, "open") /\ Frame(rows).adj_high = adj(rows, "high")
                /\ Frame(rows).adj_low = adj(rows, "low") /\ Frame(rows).adj_close = adj(rows, "close")
                /\ Frame(rows).adj_volume = [i \in DOMAIN InOrder(rows) |-> AdjustedVolume(InOrder(rows)[i])]
  BY DEF Frame
<1> HIDE DEF raw, adj
<1>5. /\ Agree(Frame(few).open, Frame(many).open, n) /\ Agree(Frame(few).high, Frame(many).high, n)
      /\ Agree(Frame(few).low, Frame(many).low, n) /\ Agree(Frame(few).close, Frame(many).close, n)
      /\ Agree(Frame(few).volume, Frame(many).volume, n)
  BY <1>2, <1>4
<1>6. /\ Agree(Frame(few).adj_open, Frame(many).adj_open, n)
      /\ Agree(Frame(few).adj_high, Frame(many).adj_high, n)
      /\ Agree(Frame(few).adj_low, Frame(many).adj_low, n)
      /\ Agree(Frame(few).adj_close, Frame(many).adj_close, n)
      /\ Agree(Frame(few).adj_volume, Frame(many).adj_volume, n)
  BY <1>2, <1>3, <1>4
<1>7. FrameColumns \ NextColumns \subseteq
        {"open", "high", "low", "close", "volume", "market_cap",
         "adj_open", "adj_high", "adj_low", "adj_close", "adj_volume"}
  BY DEF FrameColumns
<1>8. QED
  BY <1>1, <1>3, <1>5, <1>6, <1>7 DEF SameHistory

\* What a strategy says of a day from the rows up to that day, it says of the day
\* from all the rows there are.
SignalsStand(doc) ==
    \A s \in Symbols, day \in Sessions :
      LET n    == Cardinality(DOMAIN Until(day)[s])
          then == GenerateSignals(Frame(Until(day)[s]), doc)
          now  == GenerateSignals(Frame(prices[s]), doc)
      IN  /\ Agree(then.final_entry_signal, now.final_entry_signal, n)
          /\ Agree(then.exit_signal, now.exit_signal, n)

\* No signal looks ahead, whatever is collected, filled in or rescaled: the entry
\* and exit signals of any valid strategy whose conditions are evaluated without
\* an error and name no next_* column, on any day, for any prices and periods.
THEOREM SignalsLookBack ==
    ASSUME NEW registered, NEW bars, NEW factors, NEW markets \in SUBSET STRING, NEW configs,
           registered \in [DOMAIN registered -> SymbolType], DOMAIN registered \subseteq Symbols,
           NEW doc, Valid(doc), ~SignalsRaise(doc), \A c \in Signalling(doc) : Backward(c)
    PROVE  ResearchSpec(registered, bars, factors, markets, configs) => []SignalsStand(doc)
<1>1. ASSUME ResearchTypeOK, NEW s \in Symbols, NEW day \in Nat
      PROVE  /\ Cardinality(DOMAIN Until(day)[s]) \in Nat
             /\ SameHistory(Frame(Until(day)[s]), Frame(prices[s]), Cardinality(DOMAIN Until(day)[s]))
  <2>1. Cardinality(DOMAIN Until(day)[s]) \in Nat
    <3>1. DOMAIN Until(day)[s] \subseteq Sessions
      BY <1>1, RowsUntil DEF ResearchTypeOK
    <3>2. QED
      BY <3>1, MarketAssumption, FS_Subset, FS_CardinalityType
  <2>2. QED
    BY <1>1, <2>1, RowsAgree, FramesAgree
<1>2. ResearchTypeOK => SignalsStand(doc)
  BY <1>1, MarketAssumption, SignalsAgree DEF SignalsStand
<1>3. QED
  BY <1>2, TablesStayTyped, PTL

-----------------------------------------------------------------------------
\* Nor does a later corporate action change a signal that compares prices with
\* prices.  What it leaves of the rows before it, row by row.

BarType == [open : Int, high : Int, low : Int, close : Int, volume : Int, cap : Int]
RowType == [open : Int, high : Int, low : Int, close : Int, volume : Int, cap : Int, factor : Unit]

RowsInv ==
    /\ prices = [s \in Symbols |-> prices[s]]
    /\ \A s \in Symbols : \A d \in DOMAIN prices[s] : prices[s][d] \in RowType

LEMMA PositiveFraction ==
    ASSUME NEW n \in Nat \ {0}, NEW d \in Nat \ {0}
    PROVE  Fraction(n, d) \in Unit
<1>1. n \in Int /\ d \in Int \ {0}
  OBVIOUS
<1>2. PICK u \in Int, v \in Nat \ {0} : Fraction(n, d) = <<u, v>> /\ u * d = n * v
  BY <1>1, FractionIs
<1>3. n * v > 0
  OBVIOUS
<1>4. u > 0
  <2>1. u * d > 0
    BY <1>2, <1>3
  <2>2. QED
    BY ONLY <2>1, u \in Int, d \in Nat \ {0}
<1>5. QED
  BY <1>1, <1>2, <1>4, FractionTyped DEF Unit

LEMMA UnitParts ==
    ASSUME NEW k \in Unit
    PROVE  \E a, b \in Nat \ {0} : a \in Int \ {0} /\ b \in Int \ {0} /\ k = Fraction(a, b)
<1>1. k \in Rational
  BY DEF Unit
<1>2. k[1] \in Nat \ {0} /\ k[2] \in Nat \ {0} /\ k = Fraction(k[1], k[2])
  BY <1>1, TimesTyped
<1>3. k[1] \in Int \ {0} /\ k[2] \in Int \ {0}
  BY <1>2
<1>4. QED
  BY <1>2, <1>3

LEMMA UnitsAreClosed ==
    /\ Num(1) \in Unit
    /\ \A k, l \in Unit : Times(k, l) \in Unit /\ Over(k, l) \in Unit
<1>1. Num(1) \in Unit
  BY NumIs, PositiveFraction
<1>2. ASSUME NEW k \in Unit, NEW l \in Unit PROVE Times(k, l) \in Unit /\ Over(k, l) \in Unit
  <2>1. PICK a, b \in Nat \ {0} : a \in Int \ {0} /\ b \in Int \ {0} /\ k = Fraction(a, b)
    BY UnitParts
  <2>2. PICK c, d \in Nat \ {0} : c \in Int \ {0} /\ d \in Int \ {0} /\ l = Fraction(c, d)
    BY UnitParts
  <2>3. Times(k, l) = Fraction(a * c, b * d)
    BY <2>1, <2>2, TimesIs
  <2>4. Over(k, l) = Fraction(a * d, b * c)
    BY <2>1, <2>2, OverIs
  <2>5. a * c \in Nat \ {0} /\ b * d \in Nat \ {0} /\ a * d \in Nat \ {0} /\ b * c \in Nat \ {0}
    OBVIOUS
  <2>6. QED
    BY <2>3, <2>4, <2>5, PositiveFraction
<1>3. QED
  BY <1>1, <1>2

LEMMA AdjustmentsScale ==
    ASSUME NEW p \in Int, NEW f \in Unit, NEW g \in Unit
    PROVE  /\ Times(Num(p), f) \in Numeric /\ Over(Num(p), f) \in Numeric
           /\ Times(Num(p), Over(f, g)) = Times(Over(Num(1), g), Times(Num(p), f))
           /\ Over(Num(p), Over(f, g)) = Times(g, Over(Num(p), f))
<1>1. PICK a, b \in Nat \ {0} : a \in Int \ {0} /\ b \in Int \ {0} /\ f = Fraction(a, b)
  BY UnitParts
<1>2. PICK c, d \in Nat \ {0} : c \in Int \ {0} /\ d \in Int \ {0} /\ g = Fraction(c, d)
  BY UnitParts
<1>3. Num(p) = Fraction(p, 1) /\ Num(1) = Fraction(1, 1)
  BY NumIs
<1>4. 1 \in Int \ {0} /\ a * d \in Int \ {0} /\ b * c \in Int \ {0} /\ c * b \in Int \ {0} /\ d * a \in Int \ {0}
  OBVIOUS
<1>5. Over(f, g) = Fraction(a * d, b * c)
  BY <1>1, <1>2, OverIs
<1>6. Times(Num(p), f) = Fraction(p * a, b)
  <2>1. Times(Fraction(p, 1), Fraction(a, b)) = Fraction(p * a, 1 * b)
    BY <1>1, <1>4, TimesIs
  <2>2. 1 * b = b
    OBVIOUS
  <2>3. QED
    BY <1>1, <1>3, <2>1, <2>2
<1>7. Over(Num(p), f) = Fraction(p * b, a)
  <2>1. Over(Fraction(p, 1), Fraction(a, b)) = Fraction(p * b, 1 * a)
    BY <1>1, <1>4, OverIs
  <2>2. 1 * a = a
    OBVIOUS
  <2>3. QED
    BY <1>1, <1>3, <2>1, <2>2
<1>8. Over(Num(1), g) = Fraction(d, c)
  <2>1. Over(Fraction(1, 1), Fraction(c, d)) = Fraction(1 * d, 1 * c)
    BY <1>2, <1>4, OverIs
  <2>2. 1 * d = d /\ 1 * c = c
    OBVIOUS
  <2>3. QED
    BY <1>2, <1>3, <2>1, <2>2
<1>9. Times(Num(p), Over(f, g)) = Fraction(p * (a * d), b * c)
  <2>1. Times(Fraction(p, 1), Fraction(a * d, b * c)) = Fraction(p * (a * d), 1 * (b * c))
    BY <1>4, TimesIs
  <2>2. 1 * (b * c) = b * c
    OBVIOUS
  <2>3. QED
    BY <1>3, <1>5, <2>1, <2>2
<1>10. Over(Num(p), Over(f, g)) = Fraction(p * (b * c), a * d)
  <2>1. Over(Fraction(p, 1), Fraction(a * d, b * c)) = Fraction(p * (b * c), 1 * (a * d))
    BY <1>4, OverIs
  <2>2. 1 * (a * d) = a * d
    OBVIOUS
  <2>3. QED
    BY <1>3, <1>5, <2>1, <2>2
<1>11. Times(Over(Num(1), g), Times(Num(p), f)) = Fraction(d * (p * a), c * b)
  <2>1. p * a \in Int
    OBVIOUS
  <2>2. QED
    BY <1>1, <1>2, <1>6, <1>8, <2>1, TimesIs
<1>12. Times(g, Over(Num(p), f)) = Fraction(c * (p * b), d * a)
  <2>1. p * b \in Int
    OBVIOUS
  <2>2. QED
    BY <1>1, <1>2, <1>7, <2>1, TimesIs
<1>13. /\ p * (a * d) = d * (p * a) /\ b * c = c * b
       /\ p * (b * c) = c * (p * b) /\ a * d = d * a
  OBVIOUS
<1>14. Times(Num(p), f) \in Numeric /\ Over(Num(p), f) \in Numeric
  <2>1. p * a \in Int /\ p * b \in Int
    OBVIOUS
  <2>2. QED
    BY <1>6, <1>7, <2>1, QuotientTyped
<1>15. QED
  BY <1>9, <1>10, <1>11, <1>12, <1>13, <1>14

LEMMA WrittenRows ==
    ASSUME RowsInv, NEW s \in Symbols, NEW day, NEW bar \in BarType
    PROVE  \A d \in DOMAIN With(s, day, bar) : With(s, day, bar)[d] \in RowType
<1>1. Row(bar) \in RowType
  BY UnitsAreClosed DEF Row, BarType, RowType
<1>2. QED
  BY <1>1 DEF With, RowsInv

LEMMA RowsStep ==
    ASSUME NEW bars \in SUBSET BarType, NEW factors \in SUBSET Unit, NEW markets, NEW configs,
           RowsInv, [ResearchNext(bars, factors, markets, configs)]_researchVars
    PROVE  RowsInv'
<1>1. CASE CollectDay(Symbols, bars)
  <2>1. PICK traded \in SUBSET Symbols : \E bar \in [traded -> bars] :
          prices' = [s \in Symbols |-> IF s \in traded THEN With(s, today', bar[s]) ELSE prices[s]]
    BY <1>1 DEF CollectDay
  <2>2. PICK bar \in [traded -> bars] :
          prices' = [s \in Symbols |-> IF s \in traded THEN With(s, today', bar[s]) ELSE prices[s]]
    BY <2>1
  <2>3. PICK day : day = today'
    OBVIOUS
  <2>4. \A s \in Symbols : prices'[s] = IF s \in traded THEN With(s, day, bar[s]) ELSE prices[s]
    BY <2>2, <2>3
  <2>5. \A s \in traded : bar[s] \in BarType
    BY <2>2
  <2>6. ASSUME NEW s \in Symbols, NEW d \in DOMAIN prices'[s] PROVE prices'[s][d] \in RowType
    <3>1. CASE s \in traded
      BY <2>4, <2>5, <2>6, <3>1, WrittenRows
    <3>2. CASE s \notin traded
      BY <2>4, <2>6, <3>2 DEF RowsInv
    <3>3. QED
      BY <3>1, <3>2
  <2>7. prices' = [s \in Symbols |-> prices'[s]]
    BY <2>2
  <2>8. QED
    BY <2>6, <2>7 DEF RowsInv
<1>2. CASE FillRow(Symbols, bars)
  <2>1. PICK s \in Symbols, bar \in bars, day \in {d \in Sessions : d < today} :
          prices' = [prices EXCEPT ![s] = With(s, day, bar)]
    BY <1>2 DEF FillRow
  <2>2. \A r \in Symbols : prices'[r] = IF r = s THEN With(s, day, bar) ELSE prices[r]
    BY <2>1 DEF RowsInv
  <2>3. bar \in BarType
    OBVIOUS
  <2>4. \A r \in Symbols : \A d \in DOMAIN prices'[r] : prices'[r][d] \in RowType
    BY <2>2, <2>3, WrittenRows DEF RowsInv
  <2>5. prices' = [r \in Symbols |-> prices'[r]]
    BY <2>1 DEF RowsInv
  <2>6. QED
    BY <2>4, <2>5 DEF RowsInv
<1>3. ASSUME NEW factor \in factors, Rescale(factor) PROVE RowsInv'
  <2>1. PICK s \in Symbols :
          prices' = [prices EXCEPT ![s] = [d \in DOMAIN prices[s] |->
                       IF d < today THEN Rescaled(prices[s][d], factor) ELSE prices[s][d]]]
    BY <1>3 DEF Rescale
  <2>2. factor \in Unit
    OBVIOUS
  <2>3. ASSUME NEW row \in RowType PROVE Rescaled(row, factor) \in RowType
    <3>1. row.factor \in Unit
      BY DEF RowType
    <3>2. Times(row.factor, factor) \in Unit
      BY <2>2, <3>1, UnitsAreClosed
    <3>3. QED
      BY <3>2 DEF Rescaled, RowType
  <2>4. \A r \in Symbols : r # s => prices'[r] = prices[r]
    BY <2>1 DEF RowsInv
  <2>5. /\ DOMAIN prices'[s] = DOMAIN prices[s]
        /\ \A d \in DOMAIN prices[s] :
             prices'[s][d] = prices[s][d] \/ prices'[s][d] = Rescaled(prices[s][d], factor)
    BY <2>1 DEF RowsInv
  <2>6. \A r \in Symbols : \A d \in DOMAIN prices'[r] : prices'[r][d] \in RowType
    BY <2>3, <2>4, <2>5 DEF RowsInv
  <2>7. prices' = [r \in Symbols |-> prices'[r]]
    BY <2>1 DEF RowsInv
  <2>8. QED
    BY <2>6, <2>7 DEF RowsInv
<1>4. ASSUME UNCHANGED prices PROVE RowsInv'
  BY <1>4 DEF RowsInv
<1>5. CASE ~ \/ CollectDay(Symbols, bars)
             \/ FillRow(Symbols, bars)
             \/ \E factor \in factors : Rescale(factor)
  BY <1>4, <1>5 DEF ResearchNext, CollectSymbols, SnapshotReads, SnapshotLooks, SnapshotWrites,
                    IndexBegins, IndexFetchFails, IndexUpserts, IndexEnds, IndexAborts, Restart, researchVars, marketVars
<1>6. QED
  BY <1>1, <1>2, <1>3, <1>5

\* The frame of rows whose factors have all been divided by one of them.
LEMMA FramesReadjusted ==
    ASSUME NEW n \in Nat, NEW few, NEW seen, NEW g \in Unit,
           DOMAIN InOrder(few) = 1 .. n, DOMAIN InOrder(seen) = 1 .. n,
           \A i \in 1 .. n : /\ InOrder(few)[i] \in RowType
                             /\ InOrder(seen)[i] = [InOrder(few)[i] EXCEPT !.factor = Over(@, g)]
    PROVE  Readjusted(Frame(few), Frame(seen), n)
<1> DEFINE names          == {"open", "high", "low", "close"}
           raw(rows, name) == [i \in DOMAIN InOrder(rows) |-> Num(InOrder(rows)[i][name])]
           adj(rows, name) == [i \in DOMAIN InOrder(rows) |-> AdjustedPrice(InOrder(rows)[i], name)]
           volume(rows)    == [i \in DOMAIN InOrder(rows) |-> AdjustedVolume(InOrder(rows)[i])]
           cap(rows)       == [i \in DOMAIN InOrder(rows) |->
                                 IF InOrder(rows)[i].cap = NoCap THEN NaN ELSE Num(InOrder(rows)[i].cap)]
<1>1. PICK k : k = Over(Num(1), g)
  OBVIOUS
<1>2. k \in Unit
  BY <1>1, UnitsAreClosed
<1>3. ASSUME NEW i \in 1 .. n
      PROVE  /\ \A name \in names \cup {"volume", "cap"} :
                  InOrder(few)[i][name] \in Int /\ InOrder(seen)[i][name] = InOrder(few)[i][name]
             /\ InOrder(few)[i].factor \in Unit
             /\ InOrder(seen)[i].factor = Over(InOrder(few)[i].factor, g)
  BY DEF RowType
<1>4. ASSUME NEW name \in names
      PROVE  /\ Column(adj(few, name), n) /\ adj(seen, name) = Scaled(adj(few, name), k)
             /\ raw(seen, name) = raw(few, name)
  <2>1. \A i \in 1 .. n : /\ AdjustedPrice(InOrder(few)[i], name) \in Numeric
                          /\ AdjustedPrice(InOrder(seen)[i], name)
                               = Times(k, AdjustedPrice(InOrder(few)[i], name))
    <3>1. SUFFICES ASSUME NEW i \in 1 .. n
                   PROVE  /\ AdjustedPrice(InOrder(few)[i], name) \in Numeric
                          /\ AdjustedPrice(InOrder(seen)[i], name)
                               = Times(k, AdjustedPrice(InOrder(few)[i], name))
      OBVIOUS
    <3>2. PICK p, f : p = InOrder(few)[i][name] /\ f = InOrder(few)[i].factor
      OBVIOUS
    <3>3. p \in Int /\ f \in Unit
      BY <1>3, <3>2
    <3>4. /\ AdjustedPrice(InOrder(few)[i], name) = Times(Num(p), f)
          /\ AdjustedPrice(InOrder(seen)[i], name) = Times(Num(p), Over(f, g))
      BY <1>3, <3>2 DEF AdjustedPrice
    <3>5. QED
      BY <1>1, <3>3, <3>4, AdjustmentsScale
  <2>2. \A i \in 1 .. n : Num(InOrder(seen)[i][name]) = Num(InOrder(few)[i][name])
    BY <1>3
  <2>3. QED
    BY <2>1, <2>2 DEF Column, Scaled
<1>5. Column(volume(few), n) /\ volume(seen) = Scaled(volume(few), g)
  <2>1. \A i \in 1 .. n : /\ AdjustedVolume(InOrder(few)[i]) \in Numeric
                          /\ AdjustedVolume(InOrder(seen)[i])
                               = Times(g, AdjustedVolume(InOrder(few)[i]))
    <3>1. SUFFICES ASSUME NEW i \in 1 .. n
                   PROVE  /\ AdjustedVolume(InOrder(few)[i]) \in Numeric
                          /\ AdjustedVolume(InOrder(seen)[i])
                               = Times(g, AdjustedVolume(InOrder(few)[i]))
      OBVIOUS
    <3>2. PICK p, f : p = InOrder(few)[i]["volume"] /\ f = InOrder(few)[i].factor
      OBVIOUS
    <3>3. p \in Int /\ f \in Unit /\ InOrder(seen)[i]["volume"] = p
      BY <1>3, <3>2
    <3>4. /\ AdjustedVolume(InOrder(few)[i]) = Over(Num(p), f)
          /\ AdjustedVolume(InOrder(seen)[i]) = Over(Num(p), Over(f, g))
      BY <1>3, <3>2, <3>3 DEF AdjustedVolume
    <3>5. QED
      BY <3>3, <3>4, AdjustmentsScale
  <2>2. QED
    BY <2>1 DEF Column, Scaled
<1>6. raw(seen, "volume") = raw(few, "volume") /\ cap(seen) = cap(few)
  <2>1. \A i \in 1 .. n : /\ InOrder(seen)[i]["volume"] = InOrder(few)[i]["volume"]
                          /\ InOrder(seen)[i]["cap"] = InOrder(few)[i]["cap"]
    BY <1>3
  <2>2. QED
    BY <2>1
<1>7. \A rows :
        Frame(rows) =
          [open |-> raw(rows, "open"), high |-> raw(rows, "high"), low |-> raw(rows, "low"),
           close |-> raw(rows, "close"), volume |-> raw(rows, "volume"), market_cap |-> cap(rows),
           adj_open |-> adj(rows, "open"), adj_high |-> adj(rows, "high"), adj_low |-> adj(rows, "low"),
           adj_close |-> adj(rows, "close"), adj_volume |-> volume(rows),
           next_open |-> Shift(adj(rows, "open"), -1), adj_next_open |-> Shift(adj(rows, "open"), -1),
           next_close |-> Shift(adj(rows, "close"), -1), adj_next_close |-> Shift(adj(rows, "close"), -1),
           next_volume |-> Shift(volume(rows), -1)]
  BY DEF Frame
<1> HIDE DEF raw, adj, volume, cap
<1>8. PICK ao, ac, av :
        /\ ao = adj(few, "open") /\ Column(ao, n) /\ adj(seen, "open") = Scaled(ao, k)
        /\ ac = adj(few, "close") /\ Column(ac, n) /\ adj(seen, "close") = Scaled(ac, k)
        /\ av = volume(few) /\ Column(av, n) /\ volume(seen) = Scaled(av, g)
  BY <1>4, <1>5
<1>9. /\ Column(Shift(ao, -1), n) /\ Shift(Scaled(ao, k), -1) = Scaled(Shift(ao, -1), k)
      /\ Column(Shift(ac, -1), n) /\ Shift(Scaled(ac, k), -1) = Scaled(Shift(ac, -1), k)
      /\ Column(Shift(av, -1), n) /\ Shift(Scaled(av, g), -1) = Scaled(Shift(av, -1), g)
  BY <1>2, <1>8, ShiftScales
<1>10. PICK df : df = Frame(few)
  OBVIOUS
<1>11. PICK eg : eg = Frame(seen)
  OBVIOUS
<1>12. \A col \in PriceColumns : Column(df[col], n) /\ eg[col] = Scaled(df[col], k)
  <2>1. /\ df.adj_open = ao /\ eg.adj_open = Scaled(ao, k)
        /\ df.adj_close = ac /\ eg.adj_close = Scaled(ac, k)
        /\ Column(df.adj_high, n) /\ eg.adj_high = Scaled(df.adj_high, k)
        /\ Column(df.adj_low, n) /\ eg.adj_low = Scaled(df.adj_low, k)
    BY <1>4, <1>7, <1>8, <1>10, <1>11
  <2>2. /\ df.next_open = Shift(ao, -1) /\ eg.next_open = Shift(Scaled(ao, k), -1)
        /\ df.adj_next_open = Shift(ao, -1) /\ eg.adj_next_open = Shift(Scaled(ao, k), -1)
        /\ df.next_close = Shift(ac, -1) /\ eg.next_close = Shift(Scaled(ac, k), -1)
        /\ df.adj_next_close = Shift(ac, -1) /\ eg.adj_next_close = Shift(Scaled(ac, k), -1)
    BY <1>7, <1>8, <1>10, <1>11
  <2>3. QED
    BY <1>8, <1>9, <2>1, <2>2 DEF PriceColumns
<1>13. \A col \in VolumeColumns : Column(df[col], n) /\ eg[col] = Scaled(df[col], g)
  <2>1. /\ df.adj_volume = av /\ eg.adj_volume = Scaled(av, g)
        /\ df.next_volume = Shift(av, -1) /\ eg.next_volume = Shift(Scaled(av, g), -1)
    BY <1>7, <1>8, <1>10, <1>11
  <2>2. QED
    BY <1>8, <1>9, <2>1 DEF VolumeColumns
<1>14. DOMAIN df = FrameColumns /\ DOMAIN eg = FrameColumns
  BY <1>7, <1>10, <1>11 DEF FrameColumns, NextColumns
<1>15. \A col \in DOMAIN df \ (PriceColumns \cup VolumeColumns) : eg[col] = df[col]
  <2>1. /\ eg.open = df.open /\ eg.high = df.high /\ eg.low = df.low /\ eg.close = df.close
        /\ eg.volume = df.volume /\ eg.market_cap = df.market_cap
    BY <1>4, <1>6, <1>7, <1>10, <1>11
  <2>2. DOMAIN df \ (PriceColumns \cup VolumeColumns)
          \subseteq {"open", "high", "low", "close", "volume", "market_cap"}
    BY <1>14 DEF FrameColumns, NextColumns, PriceColumns, VolumeColumns
  <2>3. QED
    BY <2>1, <2>2
<1>16. QED
  BY <1>2, <1>10, <1>11, <1>12, <1>13, <1>14, <1>15 DEF Readjusted

\* The rows as they were seen on a day, and those up to that day as they are now.
LEMMA SeenRows ==
    ASSUME ResearchTypeOK, RowsInv, NEW s \in Symbols, NEW day \in DOMAIN prices[s]
    PROVE  LET n == Cardinality(DOMAIN Until(day)[s])
           IN  /\ n \in Nat /\ n \in 1 .. n
               /\ Cardinality(DOMAIN SeenOn(s, day)) = n
               /\ Readjusted(Frame(Until(day)[s]), Frame(SeenOn(s, day)), n)
<1> DEFINE early == DOMAIN Until(day)[s]
           n     == Cardinality(early)
           few   == Until(day)[s]
           seen  == SeenOn(s, day)
<1>1. PICK N \in Nat : day \in Nat /\ early \in SUBSET (0 .. N) /\ day \in early
  <2>1. today \in Nat /\ \A d \in DOMAIN prices[s] : d \in 0 .. today
    BY MarketAssumption DEF ResearchTypeOK
  <2>2. early \subseteq DOMAIN prices[s] /\ day \in early
    <3>1. day <= day
      BY <2>1
    <3>2. QED
      BY <3>1, RowsUntil
  <2>3. QED
    BY <2>1, <2>2
<1>2. IsFiniteSet(early) /\ n \in Nat /\ n # 0
  <2>1. IsFiniteSet(0 .. N)
    BY FS_Interval
  <2>2. IsFiniteSet(early)
    BY <1>1, <2>1, FS_Subset
  <2>3. QED
    BY <1>1, <2>2, FS_CardinalityType, FS_EmptySet
<1>3. PICK g \in Unit : g = prices[s][day].factor
  BY DEF RowsInv, RowType
<1>4. /\ DOMAIN seen = early
      /\ \A d \in early : few[d] \in RowType /\ seen[d] = [few[d] EXCEPT !.factor = Over(@, g)]
  BY <1>3, RowsUntil DEF SeenOn, RowsInv
<1> HIDE DEF early, few, seen
<1>5. DOMAIN few = early
  BY DEF early, few
<1>6. /\ DOMAIN InOrder(few) = 1 .. n /\ DOMAIN InOrder(seen) = 1 .. n
      /\ \A i \in 1 .. n : InOrder(few)[i] = few[Nth(early, i)] /\ InOrder(seen)[i] = seen[Nth(early, i)]
  BY <1>4, <1>5 DEF InOrder
<1>7. \A i \in 1 .. n : Nth(early, i) \in early
  BY <1>1, NthIsThere
<1>8. \A i \in 1 .. n : /\ InOrder(few)[i] \in RowType
                        /\ InOrder(seen)[i] = [InOrder(few)[i] EXCEPT !.factor = Over(@, g)]
  BY <1>4, <1>6, <1>7
<1>9. Readjusted(Frame(few), Frame(seen), n)
  <2> HIDE DEF n
  <2>1. QED
    BY <1>2, <1>6, <1>8, FramesReadjusted
<1>10. n \in 1 .. n
  BY <1>2
<1>11. QED
  BY <1>2, <1>4, <1>9, <1>10 DEF early, few, seen

LEMMA SectionsAreRelative ==
    ASSUME NEW df, NEW eg, DOMAIN eg.close = DOMAIN df.close,
           NEW section, \A c \in InSection(section) : Evaluate(eg, c) = Evaluate(df, c)
    PROVE  SectionSignal(eg, section) = SectionSignal(df, section)
<1> DEFINE parts == IF IsGroup(section) THEN Range(section.groups) ELSE {section}
<1>1. ASSUME NEW part \in parts PROVE PlainSignal(eg, part) = PlainSignal(df, part)
  <2>1. \A c \in Range(part.conditions) : c \in InSection(section)
    BY DEF InSection, Range
  <2>2. {Evaluate(eg, c) : c \in Range(part.conditions)} = {Evaluate(df, c) : c \in Range(part.conditions)}
    BY <2>1
  <2>3. QED
    BY <2>2 DEF PlainSignal
<1>2. {PlainSignal(eg, part) : part \in parts} = {PlainSignal(df, part) : part \in parts}
  BY <1>1
<1>3. QED
  BY <1>2 DEF SectionSignal

LEMMA SignalsAreRelative ==
    ASSUME NEW n \in Nat, NEW df, NEW eg, Readjusted(df, eg, n),
           NEW doc, Valid(doc), ~SignalsRaise(doc), \A c \in Signalling(doc) : Relative(c)
    PROVE  GenerateSignals(eg, doc) = GenerateSignals(df, doc)
<1>1. \A c \in Signalling(doc) : Evaluate(eg, c) = Evaluate(df, c)
  BY ValidConditionsHaveTypes, ConditionsAreRelative DEF SignalsRaise
<1>2. DOMAIN eg.close = DOMAIN df.close
  BY DEF Readjusted, FrameColumns, PriceColumns, VolumeColumns
<1>3. ASSUME NEW section \in TimeseriesSections, section \in DOMAIN doc
      PROVE  SectionSignal(eg, doc[section]) = SectionSignal(df, doc[section])
  <2>1. \A c \in InSection(doc[section]) : Evaluate(eg, c) = Evaluate(df, c)
    BY <1>1, <1>3 DEF Signalling
  <2>2. QED
    BY <1>2, <2>1, SectionsAreRelative
<1> DEFINE of(f, section, otherwise) ==
             IF section \in DOMAIN doc THEN SectionSignal(f, doc[section])
                                       ELSE Constantly(otherwise, DOMAIN f.close)
<1>4. \A section \in TimeseriesSections : \A otherwise : of(eg, section, otherwise) = of(df, section, otherwise)
  BY <1>2, <1>3
<1>5. \A f : GenerateSignals(f, doc) =
               [final_entry_signal |-> Both(of(f, "entry", TRUE), of(f, "filters", TRUE)),
                exit_signal        |-> of(f, "exit_signal", FALSE)]
  BY DEF GenerateSignals
<1> HIDE DEF of
<1>6. QED
  BY <1>4, <1>5 DEF TimeseriesSections

\* The strategy is accepted, its conditions are evaluated without an error, name no
\* next_* column and compare prices with prices.
Steady(doc) ==
    /\ Valid(doc) /\ ~SignalsRaise(doc)
    /\ \A c \in Signalling(doc) : Backward(c) /\ Relative(c)

LEMMA SignalsStandStill ==
    ASSUME ResearchTypeOK, RowsInv,
           \A c \in Studied : Clear(c) /\ Relative(c), \A doc \in Followed : Steady(doc)
    PROVE  SignalsAsSeenThen
<1>1. SUFFICES ASSUME NEW s \in Symbols, NEW now \in Verdicts(prices[s]),
                      NEW day \in DOMAIN prices[s], NEW then \in Verdicts(SeenOn(s, day)),
                      NEW n, n = Cardinality(DOMAIN SeenOn(s, day))
               PROVE  /\ \A c \in Studied : now.conditions[c][n] = then.conditions[c][n]
                      /\ \A doc \in Followed :
                           /\ now.signals[doc].final_entry_signal[n] = then.signals[doc].final_entry_signal[n]
                           /\ now.signals[doc].exit_signal[n] = then.signals[doc].exit_signal[n]
  BY DEF SignalsAsSeenThen
<1>2. PICK few, seen, all : few = Frame(Until(day)[s]) /\ seen = Frame(SeenOn(s, day)) /\ all = Frame(prices[s])
  OBVIOUS
<1>3. day \in Nat
  BY MarketAssumption DEF ResearchTypeOK
<1>4. n = Cardinality(DOMAIN Until(day)[s]) /\ n \in Nat /\ n \in 1 .. n /\ Readjusted(few, seen, n)
  BY <1>1, <1>2, SeenRows
<1>5. SameHistory(few, all, n)
  BY <1>2, <1>3, <1>4, RowsAgree, FramesAgree
<1>6. /\ now = [conditions |-> [c \in Studied |-> Evaluate(all, c)],
                signals    |-> [doc \in Followed |-> GenerateSignals(all, doc)]]
      /\ then = [conditions |-> [c \in Studied |-> Evaluate(seen, c)],
                 signals    |-> [doc \in Followed |-> GenerateSignals(seen, doc)]]
  BY <1>2 DEF Verdicts
<1>7. ASSUME NEW c \in Studied PROVE now.conditions[c][n] = then.conditions[c][n]
  <2>1. Evaluate(seen, c) = Evaluate(few, c)
    BY <1>4, ConditionsAreRelative DEF Clear
  <2>2. Agree(Evaluate(few, c), Evaluate(all, c), n)
    BY <1>4, <1>5, ConditionsLookBack DEF Clear
  <2>3. QED
    BY <1>4, <1>6, <2>1, <2>2 DEF Agree
<1>8. ASSUME NEW doc \in Followed
      PROVE  /\ now.signals[doc].final_entry_signal[n] = then.signals[doc].final_entry_signal[n]
             /\ now.signals[doc].exit_signal[n] = then.signals[doc].exit_signal[n]
  <2>1. GenerateSignals(seen, doc) = GenerateSignals(few, doc)
    BY <1>4, SignalsAreRelative DEF Steady
  <2>2. /\ Agree(GenerateSignals(few, doc).final_entry_signal,
                 GenerateSignals(all, doc).final_entry_signal, n)
        /\ Agree(GenerateSignals(few, doc).exit_signal, GenerateSignals(all, doc).exit_signal, n)
    BY <1>4, <1>5, SignalsAgree DEF Steady
  <2>3. QED
    BY <1>4, <1>6, <2>1, <2>2 DEF Agree
<1>9. QED
  BY <1>7, <1>8

\* No signal of the past ever changes: neither a row that is collected later nor a
\* corporate action that rescales the rows before it gives a day another signal
\* than the one its own rows gave, for any prices, factors, conditions and
\* strategies that compare prices with prices.
THEOREM SignalsStandAsSeen ==
    ASSUME NEW registered, NEW bars \in SUBSET BarType, NEW factors \in SUBSET Unit,
           NEW markets \in SUBSET STRING, NEW configs,
           registered \in [DOMAIN registered -> SymbolType], DOMAIN registered \subseteq Symbols,
           \A c \in Studied : Clear(c) /\ Relative(c), \A doc \in Followed : Steady(doc)
    PROVE  ResearchSpec(registered, bars, factors, markets, configs) => []SignalsAsSeenThen
<1>1. ResearchInit(registered) => RowsInv
  BY DEF ResearchInit, RowsInv
<1>2. RowsInv /\ [ResearchNext(bars, factors, markets, configs)]_researchVars => RowsInv'
  BY RowsStep
<1>3. ResearchTypeOK /\ RowsInv => SignalsAsSeenThen
  BY SignalsStandStill
<1>4. ResearchSpec(registered, bars, factors, markets, configs) => []ResearchTypeOK
  BY TablesStayTyped
<1>5. QED
  BY <1>1, <1>2, <1>3, <1>4, PTL DEF ResearchSpec
=============================================================================
