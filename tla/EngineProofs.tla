----------------------------- MODULE EngineProofs -----------------------------
(***************************************************************************)
(* What BacktestEngine keeps for any symbols, rows, configuration, rules   *)
(* and number of days: one lot to a position and no more positions than    *)
(* max_positions, no symbol bought on the day it was sold, no holding left *)
(* behind beyond its stop or target line, buys within the day's limits,    *)
(* and an account that is never overdrawn.                                 *)
(*                                                                         *)
(* The slots are counted once, from the holdings at the open, and the      *)
(* candidates are bought long after.  The invariant therefore says at each *)
(* phase of the day what the holdings, the holdings at the open and the    *)
(* queue of candidates have to do with each other (Counted, SlotsKept,     *)
(* KeptOut).                                                               *)
(***************************************************************************)
EXTENDS BacktestEngine, Amounts, SequenceTheorems

Forced == {"force_sell_delisted", "force_sell_delisting_estimated"}

Opened  == phase \in {"holdings", "entries", "limits"}
Ordered == phase \in {"buying", "ordering"}

\* The account: trade groups with ids that were handed out, one to a position.
Account ==
    /\ nextId \in Nat \ {0}
    /\ Live \subseteq 1..(nextId - 1)
    /\ \A g \in Live : "symbol" \in DOMAIN groups[g] /\ groups[g].symbol \in Symbols
    /\ \A g, h \in Live : groups[g].symbol = groups[h].symbol => g = h
    /\ Held = {groups[g].symbol : g \in Live}

\* The trades are in the order of their days.
LogInOrder ==
    /\ log \in Seq({log[i] : i \in DOMAIN log})
    /\ \A i \in DOMAIN log : log[i].signal \in Nat /\ log[i].signal <= day

\* What comes next lies ahead.
Calendar ==
    /\ day \in Nat
    /\ DOMAIN row \subseteq Symbols /\ DOMAIN next \subseteq Symbols
    /\ \A s \in DOMAIN next : next[s].date \in Nat /\ next[s].date > day

\* No symbol is twice among the candidates.
Candidates ==
    /\ openHeld \subseteq Symbols
    /\ queue \in Seq(Symbols)
    /\ \A i, j \in DOMAIN queue : queue[i] = queue[j] => i = j

\* A candidate that is held was held at the open, except for what was bought
\* today, and that has left the queue.
Counted ==
    /\ Opened => todo \subseteq Held /\ Held \subseteq openHeld
    /\ Ordered => \A i \in DOMAIN queue : queue[i] \in Held => queue[i] \in openHeld
    /\ phase = "ordering" => queue # << >> /\ Head(queue) \notin openHeld /\ Head(queue) \notin Held

\* Every candidate left has a slot.
SlotsKept ==
    Config.maxPositions > 0 =>
        /\ Cardinality(Held) <= Config.maxPositions
        /\ Opened => Cardinality(openHeld) <= Config.maxPositions
        /\ Ordered => Cardinality(Held) + Len(queue) <= Config.maxPositions

\* Entry i is a sale of today that a rule, a signal or the cash manager made.
SoldToday(i) == log[i].signal = day /\ log[i].kind # "BUY" /\ log[i].reason \notin Forced

\* What was sold today is not among the candidates that can still be bought.
KeptOut ==
    \A i \in DOMAIN log : SoldToday(i) =>
        /\ phase # "delisting"
        /\ Opened => log[i].symbol \in openHeld
        /\ Ordered => \/ log[i].symbol \in openHeld
                      \/ \A k \in DOMAIN queue : queue[k] # log[i].symbol

EngineInv ==
    /\ phase \in Phases
    /\ Account /\ LogInOrder /\ Calendar /\ Candidates
    /\ Counted /\ SlotsKept /\ KeptOut
    /\ NoSameDayRotation

-----------------------------------------------------------------------------
\* Numbers, finite sets and sequences.

\* The larger of two numbers.
LEMMA LargerOfTwo ==
    ASSUME NEW a \in Int, NEW b \in Int
    PROVE  Max({a, b}) \in {a, b} /\ Max({a, b}) >= a /\ Max({a, b}) >= b
<1>1. \E x \in {a, b} : \A y \in {a, b} : x >= y
  OBVIOUS
<1>2. QED
  BY <1>1 DEF Max

\* Any set of symbols can be counted.
LEMMA SymbolsCount ==
    ASSUME NEW S \in SUBSET Symbols
    PROVE  /\ IsFiniteSet(S) /\ Cardinality(S) \in Nat
           /\ \A T \in SUBSET S : Cardinality(T) <= Cardinality(S)
<1>1. IsFiniteSet(S)
  BY FS_Subset, BarsAssumption
<1>2. QED
  BY <1>1, FS_CardinalityType, FS_Subset

\* Adding an entry to the log.
LEMMA AppendedEntry ==
    ASSUME LogInOrder, NEW e, log' = Append(log, e)
    PROVE  /\ Len(log) \in Nat /\ DOMAIN log = 1..Len(log)
           /\ Len(log') = Len(log) + 1 /\ DOMAIN log' = 1..(Len(log) + 1)
           /\ log'[Len(log) + 1] = e
           /\ \A i \in DOMAIN log : log'[i] = log[i]
           /\ log' \in Seq({log'[i] : i \in DOMAIN log'})
<1> DEFINE R == {log[i] : i \in DOMAIN log}
<1> DEFINE S == R \cup {e}
<1>1. log \in Seq(R)
  BY DEF LogInOrder
<1> HIDE DEF R
<1>2. log \in Seq(S)
  BY <1>1, SeqMonotonic
<1> HIDE DEF S
<1>3. e \in S
  BY DEF S
<1>4. /\ Len(log) \in Nat /\ DOMAIN log = 1..Len(log)
      /\ log' \in Seq(S) /\ Len(log') = Len(log) + 1
      /\ log'[Len(log) + 1] = e
      /\ \A i \in 1..Len(log) : log'[i] = log[i]
  BY <1>2, <1>3
<1>5. log' \in [1..Len(log') -> S] /\ DOMAIN log' = 1..(Len(log) + 1)
  BY <1>4, LenProperties
<1> DEFINE T == {log'[i] : i \in DOMAIN log'}
<1>6. log' \in [1..Len(log') -> T]
  BY <1>4, <1>5, LenProperties
<1>7. log' \in Seq(T)
  BY <1>4, <1>6, SeqDef, SMTT(30)
<1>8. QED
  BY <1>4, <1>5, <1>7

-----------------------------------------------------------------------------
\* The two operations of the account.

\* The only lot of a position.
LEMMA TheLot ==
    ASSUME Account, NEW s \in Held
    PROVE  /\ Lot(s) \in Live /\ groups[Lot(s)].symbol = s
           /\ \A g \in Live : groups[g].symbol = s => g = Lot(s)
<1>1. \E g \in Live : groups[g].symbol = s
  BY DEF Account
<1>2. Lot(s) \in Live /\ groups[Lot(s)].symbol = s
  BY <1>1 DEF Lot
<1>3. QED
  BY <1>2 DEF Account

\* A sale of shares of a held symbol: what stays, and what it is logged as.
SaleOf(s, reason) ==
    /\ Held \ {s} \subseteq Held' /\ Held' \subseteq Held
    /\ \A h \in Held' : quote'[h] = quote[h]
    /\ \A g \in Live' : groups'[g].symbol = groups[g].symbol /\ g \in Live
    /\ \A g \in Live' : groups[g].symbol # s => groups'[g] = groups[g]
    /\ \E e : /\ log' = Append(log, e)
              /\ e.kind # "BUY" /\ e.symbol = s /\ e.signal = day /\ e.reason = reason

LEMMA SellLeaves ==
    ASSUME Account, NEW s \in Held, NEW q, NEW cent, NEW date, NEW reason,
           Sell(s, q, cent, date, reason)
    PROVE  Account' /\ SaleOf(s, reason)
<1> DEFINE g == Lot(s)
           kept == KeptAfter(g, q)
<1>1. /\ g \in Live /\ groups[g].symbol = s
      /\ \A h \in Live : groups[h].symbol = s => h = g
  BY TheLot
<1>2. kept \subseteq Live /\ Live \ {g} \subseteq kept
  BY <1>1 DEF KeptAfter
<1>3. PICK price, net :
        /\ groups' = [h \in kept |-> IF h = g THEN [groups[g] EXCEPT !.remaining = LeftOf(g, q)]
                                     ELSE groups[h]]
        /\ quote' = [t \in {groups[h].symbol : h \in kept} |-> quote[t]]
        /\ nextId' = nextId
        /\ \E kind \in {"PARTIAL_SELL", "SELL"} :
             log' = Append(log, Trade(g, kind, groups[g].symbol, price, q, net, date, day, reason))
  BY DEF Sell, SellTradeGroup
<1> HIDE DEF g, kept
<1>4. Live' = kept /\ Held' = {groups[h].symbol : h \in kept}
  BY <1>3 DEF Live, Held
<1>5. ASSUME NEW h \in kept
      PROVE  /\ "symbol" \in DOMAIN groups'[h] /\ groups'[h].symbol = groups[h].symbol
             /\ h # g => groups'[h] = groups[h]
  <2>1. "symbol" \in DOMAIN groups[h]
    BY <1>2, <1>5 DEF Account
  <2>2. CASE h = g
    <3>1. groups'[h] = [groups[g] EXCEPT !.remaining = LeftOf(g, q)]
      BY <1>3, <1>5, <2>2
    <3>2. QED
      BY <2>1, <2>2, <3>1
  <2>3. CASE h # g
    BY <1>3, <1>5, <2>1, <2>3
  <2>4. QED
    BY <2>2, <2>3
<1>6. Account'
  <2>1. nextId' \in Nat \ {0} /\ Live' \subseteq 1..(nextId' - 1)
    BY <1>2, <1>3, <1>4 DEF Account
  <2>2. \A h \in Live' : "symbol" \in DOMAIN groups'[h] /\ groups'[h].symbol \in Symbols
    BY <1>2, <1>4, <1>5 DEF Account
  <2>3. \A h, k \in Live' : groups'[h].symbol = groups'[k].symbol => h = k
    BY <1>2, <1>4, <1>5 DEF Account
  <2>4. Held' = {groups'[h].symbol : h \in Live'}
    BY <1>4, <1>5
  <2>5. QED
    BY <2>1, <2>2, <2>3, <2>4 DEF Account
<1>7. Held \ {s} \subseteq Held' /\ Held' \subseteq Held
  BY <1>1, <1>2, <1>4 DEF Account
<1>8. \A h \in Held' : quote'[h] = quote[h]
  BY <1>3 DEF Held
<1>9. \E e : /\ log' = Append(log, e)
             /\ e.kind # "BUY" /\ e.symbol = s /\ e.signal = day /\ e.reason = reason
  <2>1. PICK kind \in {"PARTIAL_SELL", "SELL"} :
          log' = Append(log, Trade(g, kind, groups[g].symbol, price, q, net, date, day, reason))
    BY <1>3
  <2>2. PICK e : e = Trade(g, kind, groups[g].symbol, price, q, net, date, day, reason)
    OBVIOUS
  <2>3. e.kind = kind /\ e.symbol = s /\ e.signal = day /\ e.reason = reason
    BY <1>1, <2>2 DEF Trade
  <2>4. e.kind # "BUY"
    BY <2>3, <2>1
  <2>5. QED
    BY <2>1, <2>2, <2>3, <2>4
<1>10. \A h \in Live' : /\ groups'[h].symbol = groups[h].symbol /\ h \in Live
                        /\ groups[h].symbol # s => groups'[h] = groups[h]
  BY <1>1, <1>2, <1>4, <1>5
<1>11. QED
  BY <1>6, <1>7, <1>8, <1>9, <1>10 DEF SaleOf

\* A buy of a symbol that is not held opens its position.
LEMMA BuyOpens ==
    ASSUME Account, NEW s \in Symbols, s \notin Held,
           NEW price, NEW q, NEW cost, NEW date, Buy(s, price, q, cost, date, day)
    PROVE  /\ Account'
           /\ Held' = Held \cup {s}
           /\ \E e : log' = Append(log, e) /\ e.kind = "BUY" /\ e.symbol = s /\ e.signal = day
<1> DEFINE lot == [symbol |-> s, entryDate |-> date, entryPrice |-> price,
                   entryQty |-> q, remaining |-> q]
<1>1. /\ groups' = [g \in Live \cup {nextId} |-> IF g = nextId THEN lot ELSE groups[g]]
      /\ Held' = Held \cup {s}
      /\ nextId' = nextId + 1
      /\ log' = Append(log, Trade(nextId, "BUY", s, price, q, cost, date, day, "entry_signal"))
  BY DEF Buy, Held
<1>2. lot.symbol = s /\ "symbol" \in DOMAIN lot
  OBVIOUS
<1> HIDE DEF lot
<1>3. Live' = Live \cup {nextId} /\ nextId \notin Live
  BY <1>1 DEF Live, Account
<1>4. groups'[nextId] = lot /\ \A g \in Live : groups'[g] = groups[g]
  BY <1>1, <1>3
<1>5. nextId' \in Nat \ {0} /\ Live' \subseteq 1..(nextId' - 1)
  BY <1>1, <1>3 DEF Account
<1>6. \A g \in Live' : "symbol" \in DOMAIN groups'[g] /\ groups'[g].symbol \in Symbols
  BY <1>2, <1>3, <1>4 DEF Account
<1>7. \A g, h \in Live' : groups'[g].symbol = groups'[h].symbol => g = h
  <2>1. \A g \in Live : groups[g].symbol # s
    BY DEF Account
  <2>2. QED
    BY <1>2, <1>3, <1>4, <2>1 DEF Account
<1>8. Held' = {groups'[g].symbol : g \in Live'}
  BY <1>1, <1>2, <1>3, <1>4 DEF Account
<1>9. \E e : log' = Append(log, e) /\ e.kind = "BUY" /\ e.symbol = s /\ e.signal = day
  <2>1. PICK e : e = Trade(nextId, "BUY", s, price, q, cost, date, day, "entry_signal")
    OBVIOUS
  <2>2. e.kind = "BUY" /\ e.symbol = s /\ e.signal = day
    BY <2>1 DEF Trade
  <2>3. QED
    BY <1>1, <2>1, <2>2
<1>10. QED
  BY <1>1, <1>5, <1>6, <1>7, <1>8, <1>9 DEF Account
-----------------------------------------------------------------------------
\* What a sale and a buy of today do to the parts of the invariant that speak
\* of the log.

\* A sale keeps the log in order, and what it adds to today's sales is s.
LEMMA SaleLogged ==
    ASSUME LogInOrder, NoSameDayRotation, NEW s, NEW reason, SaleOf(s, reason),
           day' = day, day \in Nat
    PROVE  /\ LogInOrder' /\ NoSameDayRotation'
           /\ \A i \in DOMAIN log' : SoldToday(i)' =>
                \/ i \in DOMAIN log /\ SoldToday(i) /\ log'[i].symbol = log[i].symbol
                \/ log'[i].symbol = s /\ reason \notin Forced
<1>1. PICK e : /\ log' = Append(log, e)
               /\ e.kind # "BUY" /\ e.symbol = s /\ e.signal = day /\ e.reason = reason
  BY DEF SaleOf
<1>2. /\ Len(log) \in Nat /\ DOMAIN log = 1..Len(log) /\ DOMAIN log' = 1..(Len(log) + 1)
      /\ log'[Len(log) + 1] = e
      /\ \A i \in DOMAIN log : log'[i] = log[i]
      /\ log' \in Seq({log'[i] : i \in DOMAIN log'})
  BY <1>1, AppendedEntry
<1>3. \A i \in DOMAIN log' : i \in DOMAIN log \/ i = Len(log) + 1
  BY <1>2
<1>4. LogInOrder'
  BY <1>1, <1>2, <1>3 DEF LogInOrder
<1>5. NoSameDayRotation'
  <2> SUFFICES ASSUME NEW i \in DOMAIN log', NEW j \in DOMAIN log', i < j,
                      log'[i].kind # "BUY", log'[j].kind = "BUY",
                      log'[i].symbol = log'[j].symbol, log'[i].signal = log'[j].signal
               PROVE  log'[i].reason \in {"force_sell_delisted", "force_sell_delisting_estimated"}
    BY DEF NoSameDayRotation
  <2>1. j \in DOMAIN log
    BY <1>1, <1>2, <1>3
  <2>2. i \in DOMAIN log
    BY <1>2, <2>1
  <2>3. QED
    BY <1>2, <2>1, <2>2 DEF NoSameDayRotation
<1>6. ASSUME NEW i \in DOMAIN log', SoldToday(i)'
      PROVE  \/ i \in DOMAIN log /\ SoldToday(i) /\ log'[i].symbol = log[i].symbol
             \/ log'[i].symbol = s /\ reason \notin Forced
  <2>1. CASE i \in DOMAIN log
    BY <1>2, <1>6, <2>1 DEF SoldToday
  <2>2. CASE i = Len(log) + 1
    BY <1>1, <1>2, <1>6, <2>2 DEF SoldToday
  <2>3. QED
    BY <1>3, <2>1, <2>2
<1>7. QED
  BY <1>4, <1>5, <1>6

\* A buy of what was not sold today keeps the log in order too.
LEMMA BuyLogged ==
    ASSUME LogInOrder, NoSameDayRotation, NEW s, day' = day, day \in Nat,
           \E e : log' = Append(log, e) /\ e.kind = "BUY" /\ e.symbol = s /\ e.signal = day,
           \A i \in DOMAIN log : SoldToday(i) => log[i].symbol # s
    PROVE  /\ LogInOrder' /\ NoSameDayRotation'
           /\ \A i \in DOMAIN log' : SoldToday(i)' =>
                i \in DOMAIN log /\ SoldToday(i) /\ log'[i].symbol = log[i].symbol
<1>1. PICK e : log' = Append(log, e) /\ e.kind = "BUY" /\ e.symbol = s /\ e.signal = day
  OBVIOUS
<1>2. /\ Len(log) \in Nat /\ DOMAIN log = 1..Len(log) /\ DOMAIN log' = 1..(Len(log) + 1)
      /\ log'[Len(log) + 1] = e
      /\ \A i \in DOMAIN log : log'[i] = log[i]
      /\ log' \in Seq({log'[i] : i \in DOMAIN log'})
  BY <1>1, AppendedEntry
<1>3. \A i \in DOMAIN log' : i \in DOMAIN log \/ i = Len(log) + 1
  BY <1>2
<1>4. LogInOrder'
  BY <1>1, <1>2, <1>3 DEF LogInOrder
<1>5. NoSameDayRotation'
  <2> SUFFICES ASSUME NEW i \in DOMAIN log', NEW j \in DOMAIN log', i < j,
                      log'[i].kind # "BUY", log'[j].kind = "BUY",
                      log'[i].symbol = log'[j].symbol, log'[i].signal = log'[j].signal
               PROVE  log'[i].reason \in {"force_sell_delisted", "force_sell_delisting_estimated"}
    BY DEF NoSameDayRotation
  <2>1. i \in DOMAIN log
    BY <1>2
  <2>2. CASE j \in DOMAIN log
    BY <1>2, <2>1, <2>2 DEF NoSameDayRotation
  <2>3. CASE j = Len(log) + 1
    <3>1. log[i].symbol = s /\ log[i].signal = day /\ log[i].kind # "BUY"
      BY <1>1, <1>2, <2>1, <2>3
    <3>2. log[i].reason \in Forced
      BY <2>1, <3>1 DEF SoldToday
    <3>3. QED
      BY <1>2, <2>1, <3>2 DEF Forced
  <2>4. QED
    BY <1>3, <2>2, <2>3
<1>6. ASSUME NEW i \in DOMAIN log', SoldToday(i)'
      PROVE  i \in DOMAIN log /\ SoldToday(i) /\ log'[i].symbol = log[i].symbol
  <2>1. i \in DOMAIN log
    BY <1>1, <1>2, <1>3, <1>6 DEF SoldToday
  <2>2. QED
    BY <1>2, <1>6, <2>1 DEF SoldToday
<1>7. QED
  BY <1>4, <1>5, <1>6

\* A step that leaves the account and the day alone.
LEMMA LedgerAlone ==
    ASSUME EngineInv, Held' = Held, UNCHANGED <<groups, log, nextId, day>>
    PROVE  /\ Account' /\ LogInOrder' /\ NoSameDayRotation'
           /\ \A i \in DOMAIN log : SoldToday(i)' <=> SoldToday(i)
<1>1. Live' = Live
  BY DEF Live
<1>2. Account'
  BY <1>1 DEF EngineInv, Account
<1>3. LogInOrder' /\ NoSameDayRotation'
  BY DEF EngineInv, LogInOrder, NoSameDayRotation
<1>4. \A i \in DOMAIN log : SoldToday(i)' <=> SoldToday(i)
  BY DEF SoldToday
<1>5. QED
  BY <1>1, <1>2, <1>3, <1>4

-----------------------------------------------------------------------------
\* The steps of the day.

\* Wherever in the day something is sold, the invariant survives the sale.
LEMMA SaleKeeps ==
    ASSUME EngineInv, NEW s \in Held, NEW reason, SaleOf(s, reason), Account',
           UNCHANGED <<phase, day, row, next, openHeld, queue>>,
           \/ phase = "delisting" /\ reason \in Forced
           \/ phase = "holdings" /\ todo' = todo \ {s}
           \/ phase = "ordering"
    PROVE  EngineInv'
<1>1. /\ LogInOrder' /\ NoSameDayRotation'
      /\ \A i \in DOMAIN log' : SoldToday(i)' =>
           \/ i \in DOMAIN log /\ SoldToday(i) /\ log'[i].symbol = log[i].symbol
           \/ log'[i].symbol = s /\ reason \notin Forced
  BY SaleLogged DEF EngineInv, Calendar
<1>2. Held \ {s} \subseteq Held' /\ Held' \subseteq Held
  BY DEF SaleOf
<1>3. Calendar' /\ Candidates' /\ phase' \in Phases
  BY DEF EngineInv, Calendar, Candidates
<1>4. Counted'
  BY <1>2 DEF EngineInv, Counted, Opened, Ordered
<1>5. SlotsKept'
  <2>1. Held \in SUBSET Symbols
    BY DEF EngineInv, Account
  <2>2. Cardinality(Held') <= Cardinality(Held) /\ Cardinality(Held) \in Nat
        /\ Cardinality(Held') \in Nat
    BY <1>2, <2>1, SymbolsCount
  <2>3. Len(queue) \in Nat /\ Config.maxPositions \in Nat
    BY ConfigAssumption DEF EngineInv, Candidates
  <2>4. QED
    BY <2>2, <2>3 DEF EngineInv, SlotsKept, Opened, Ordered
<1>6. KeptOut'
  <2> SUFFICES ASSUME NEW i \in DOMAIN log', SoldToday(i)'
               PROVE  /\ phase # "delisting"
                      /\ Opened => log'[i].symbol \in openHeld
                      /\ Ordered => \/ log'[i].symbol \in openHeld
                                    \/ \A k \in DOMAIN queue : queue[k] # log'[i].symbol
    BY DEF KeptOut, Opened, Ordered
  <2>1. CASE i \in DOMAIN log /\ SoldToday(i) /\ log'[i].symbol = log[i].symbol
    BY <2>1 DEF EngineInv, KeptOut
  <2>2. CASE log'[i].symbol = s /\ reason \notin Forced
    BY <2>2 DEF EngineInv, Counted, Opened, Ordered
  <2>3. QED
    BY <1>1, <2>1, <2>2
<1>7. QED
  BY <1>1, <1>3, <1>4, <1>5, <1>6 DEF EngineInv

\* The next day is after today, and nothing was sold on it yet.
LEMMA StartDayKeeps ==
    ASSUME EngineInv, StartDay
    PROVE  EngineInv'
<1> DEFINE dates == {next[s].date : s \in DOMAIN next}
           today == Min(dates)
<1>1. today \in dates /\ \A d \in dates : today <= d
  <2>1. dates \in SUBSET Nat /\ dates # {}
    BY DEF EngineInv, Calendar, StartDay
  <2> HIDE DEF dates
  <2>2. QED
    BY <2>1, LeastNatural
<1>2. today \in Nat /\ today > day
  BY <1>1 DEF EngineInv, Calendar
<1> DEFINE trading == {s \in DOMAIN next : next[s].date = today}
<1>3. PICK more \in SUBSET trading : \E r :
        /\ \A s \in more : r[s] \in Upcoming(s, today)
        /\ next' = [s \in (DOMAIN next \ trading) \cup more |-> IF s \in more THEN r[s] ELSE next[s]]
  BY DEF StartDay
<1>4. /\ day' = today /\ DOMAIN row' = trading
      /\ phase = "overnight" /\ phase' = "delisting"
      /\ UNCHANGED <<ledgerVars, openHeld, todo, queue>>
  BY DEF StartDay
<1>5. \A s \in DOMAIN next : next[s].date \in Nat /\ today <= next[s].date
  BY <1>1 DEF EngineInv, Calendar
<1> HIDE DEF today
<1>6. ASSUME NEW s \in DOMAIN next' PROVE next'[s].date \in Nat /\ next'[s].date > today
  <2>1. CASE s \in more
    <3>1. next'[s] \in Upcoming(s, today)
      BY <1>3, <1>6, <2>1
    <3>2. PICK gap \in Gaps : next'[s].date = today + gap
      BY <3>1 DEF Upcoming
    <3>3. QED
      BY <1>2, <3>2, BarsAssumption
  <2>2. CASE s \notin more
    <3>1. s \in DOMAIN next /\ next'[s] = next[s] /\ next[s].date # today
      BY <1>3, <1>6, <2>2
    <3>2. QED
      BY <1>2, <1>5, <3>1
  <2>3. QED
    BY <2>1, <2>2
<1>7. Calendar'
  BY <1>2, <1>3, <1>4, <1>6 DEF EngineInv, Calendar
<1>8. Held' = Held /\ Live' = Live /\ UNCHANGED <<groups, log, nextId>>
  BY <1>4 DEF ledgerVars, Held, Live
<1>9. Account' /\ NoSameDayRotation' /\ Candidates' /\ phase' \in Phases
  BY <1>4, <1>8 DEF EngineInv, Account, NoSameDayRotation, Candidates, Phases
<1>10. LogInOrder' /\ \A i \in DOMAIN log' : log'[i].signal # day'
  BY <1>2, <1>4, <1>8 DEF EngineInv, LogInOrder, Calendar
<1>11. Counted' /\ SlotsKept'
  BY <1>4, <1>8 DEF EngineInv, Counted, SlotsKept, Opened, Ordered
<1>12. KeptOut'
  BY <1>10 DEF KeptOut, SoldToday
<1>13. QED
  BY <1>7, <1>9, <1>10, <1>11, <1>12 DEF EngineInv

\* A forced sale is one of a whole held position, for one of two reasons.
LEMMA ForcedSale ==
    ASSUME Account, ForceSellDelisted \/ ForceSellEstimated
    PROVE  \E s \in Held, reason \in Forced : \E cent : SellAll(s, cent, day, reason)
<1>1. Held \subseteq Symbols /\ Symbols \subseteq Nat
  BY BarsAssumption DEF Account
<1>2. CASE ForceSellDelisted
  <2>1. Due(Delisted) \in SUBSET Nat /\ Due(Delisted) # {} /\ Due(Delisted) \subseteq Held
    BY <1>1, <1>2 DEF ForceSellDelisted, Due
  <2>2. Min(Due(Delisted)) \in Held
    BY <2>1, LeastNatural
  <2>3. QED
    BY <1>2, <2>2 DEF ForceSellDelisted, Forced
<1>3. CASE ForceSellEstimated
  <2>1. Due(Estimated) \in SUBSET Nat /\ Due(Estimated) # {} /\ Due(Estimated) \subseteq Held
    BY <1>1, <1>3 DEF ForceSellEstimated, Due
  <2>2. Min(Due(Estimated)) \in Held
    BY <2>1, LeastNatural
  <2>3. QED
    BY <1>3, <2>2 DEF ForceSellEstimated, Forced
<1>4. QED
  BY <1>2, <1>3

\* Holdings whose delisting date has come are sold before the day's holdings
\* are counted.
LEMMA ForceSellKeeps ==
    ASSUME EngineInv, ForceSellDelisted \/ ForceSellEstimated
    PROVE  EngineInv'
<1>1. PICK s \in Held, reason \in Forced : \E cent : SellAll(s, cent, day, reason)
  BY ForcedSale DEF EngineInv
<1>2. Account' /\ SaleOf(s, reason)
  BY <1>1, SellLeaves DEF EngineInv, SellAll
<1>3. phase = "delisting" /\ UNCHANGED dayVars
  BY DEF ForceSellDelisted, ForceSellEstimated
<1>4. UNCHANGED <<phase, day, row, next, openHeld, queue>>
  BY <1>3 DEF dayVars
<1>5. QED
  BY <1>1, <1>2, <1>3, <1>4, SaleKeeps

\* The holdings as they are after the delistings are today's holdings.
LEMMA OpenHoldingsKeeps ==
    ASSUME EngineInv, OpenHoldings
    PROVE  EngineInv'
<1>1. /\ openHeld' = Held /\ todo' = Held /\ phase = "delisting" /\ phase' = "holdings"
      /\ UNCHANGED <<groups, log, nextId, day, row, next, queue>> /\ Held' = Held
  BY DEF OpenHoldings, ledgerVars, Held
<1>2. /\ Account' /\ LogInOrder' /\ NoSameDayRotation'
      /\ \A i \in DOMAIN log : SoldToday(i)' <=> SoldToday(i)
  BY <1>1, LedgerAlone
<1>3. Held \subseteq Symbols
  BY DEF EngineInv, Account
<1>4. Calendar' /\ Candidates' /\ phase' \in Phases
  BY <1>1, <1>3 DEF EngineInv, Calendar, Candidates, Phases
<1>5. Counted' /\ SlotsKept'
  BY <1>1 DEF EngineInv, Counted, SlotsKept, Opened, Ordered
<1>6. KeptOut'
  BY <1>1, <1>2 DEF EngineInv, KeptOut
<1>7. QED
  BY <1>2, <1>4, <1>5, <1>6 DEF EngineInv

\* One held symbol is evaluated, and sold or kept.
LEMMA EvaluationKeeps ==
    ASSUME EngineInv, NEW s \in todo,
           HoldUntraded(s) \/ SellOnRule(s) \/ SellOnSignal(s) \/ Hold(s)
    PROVE  EngineInv'
<1>1. /\ phase = "holdings" /\ todo' = todo \ {s}
      /\ UNCHANGED <<phase, day, row, next, openHeld, queue>>
  BY DEF HoldUntraded, SellOnRule, SellOnSignal, Hold, Evaluating
<1>2. s \in Held
  BY <1>1 DEF EngineInv, Counted, Opened
<1>3. CASE HoldUntraded(s) \/ Hold(s)
  <2>1. UNCHANGED <<groups, log, nextId>> /\ Held' = Held
    BY <1>3 DEF HoldUntraded, Hold, ledgerVars, Held
  <2>2. /\ Account' /\ LogInOrder' /\ NoSameDayRotation'
        /\ \A i \in DOMAIN log : SoldToday(i)' <=> SoldToday(i)
    BY <1>1, <2>1, LedgerAlone
  <2>3. Calendar' /\ Candidates' /\ phase' \in Phases
    BY <1>1 DEF EngineInv, Calendar, Candidates
  <2>4. Counted' /\ SlotsKept'
    BY <1>1, <2>1 DEF EngineInv, Counted, SlotsKept, Opened, Ordered
  <2>5. KeptOut'
    BY <1>1, <2>1, <2>2 DEF EngineInv, KeptOut, Opened, Ordered
  <2>6. QED
    BY <2>2, <2>3, <2>4, <2>5 DEF EngineInv
<1>4. CASE SellOnRule(s) \/ SellOnSignal(s)
  <2>1. \E q, cent, date, reason : Sell(s, q, cent, date, reason)
    BY <1>4 DEF SellOnRule, SellOnSignal, SellAll
  <2>2. PICK q, cent, date, reason : Sell(s, q, cent, date, reason)
    BY <2>1
  <2>3. Account' /\ SaleOf(s, reason)
    BY <1>2, <2>2, SellLeaves DEF EngineInv
  <2>4. QED
    BY <1>1, <1>2, <2>3, SaleKeeps
<1>5. QED
  BY <1>3, <1>4

LEMMA CloseHoldingsKeeps ==
    ASSUME EngineInv, CloseHoldings
    PROVE  EngineInv'
<1>1. /\ phase = "holdings" /\ phase' = "entries" /\ Held' = Held
      /\ UNCHANGED <<groups, log, nextId, day, row, next, openHeld, todo, queue>>
  BY DEF CloseHoldings, ledgerVars, Held
<1>2. /\ Account' /\ LogInOrder' /\ NoSameDayRotation'
      /\ \A i \in DOMAIN log : SoldToday(i)' <=> SoldToday(i)
  BY <1>1, LedgerAlone
<1>3. Calendar' /\ Candidates' /\ phase' \in Phases
  BY <1>1 DEF EngineInv, Calendar, Candidates, Phases
<1>4. Counted' /\ SlotsKept'
  BY <1>1 DEF EngineInv, Counted, SlotsKept, Opened, Ordered
<1>5. KeptOut'
  BY <1>1, <1>2 DEF EngineInv, KeptOut, Opened, Ordered
<1>6. QED
  BY <1>2, <1>3, <1>4, <1>5 DEF EngineInv

\* The candidates are traded symbols, each once.
LEMMA CollectKeeps ==
    ASSUME EngineInv, CollectCandidates
    PROVE  EngineInv'
<1>1. /\ phase = "entries" /\ phase' = "limits" /\ Held' = Held
      /\ UNCHANGED <<groups, log, nextId, day, row, next, openHeld, todo>>
  BY DEF CollectCandidates, ledgerVars, Held
<1>2. PICK chosen \in SUBSET DOMAIN row : \E order \in SetToSeqs(chosen) :
        queue' = << >> \/ queue' = order
  BY DEF CollectCandidates
<1>3. queue' \in Seq(Symbols) /\ \A i, j \in DOMAIN queue' : queue'[i] = queue'[j] => i = j
  <2>1. CASE queue' = << >>
    BY <2>1
  <2>2. CASE queue' \in SetToSeqs(chosen)
    <3>1. chosen \subseteq Symbols
      BY DEF EngineInv, Calendar
    <3>2. Cardinality(chosen) \in Nat
      BY <3>1, SymbolsCount
    <3>3. /\ queue' \in [1..Cardinality(chosen) -> chosen]
          /\ \A i, j \in 1..Cardinality(chosen) : i # j => queue'[i] # queue'[j]
      BY <2>2 DEF SetToSeqs
    <3>4. queue' \in [1..Cardinality(chosen) -> Symbols]
      BY <3>1, <3>3
    <3>5. queue' \in Seq(Symbols)
      BY <3>2, <3>4, SeqDef
    <3>6. QED
      BY <3>3, <3>5
  <2>3. QED
    BY <1>2, <2>1, <2>2
<1>4. /\ Account' /\ LogInOrder' /\ NoSameDayRotation'
      /\ \A i \in DOMAIN log : SoldToday(i)' <=> SoldToday(i)
  BY <1>1, LedgerAlone
<1>5. Calendar' /\ Candidates' /\ phase' \in Phases
  BY <1>1, <1>3 DEF EngineInv, Calendar, Candidates, Phases
<1>6. Counted' /\ SlotsKept'
  BY <1>1 DEF EngineInv, Counted, SlotsKept, Opened, Ordered
<1>7. KeptOut'
  BY <1>1, <1>4 DEF EngineInv, KeptOut, Opened, Ordered
<1>8. QED
  BY <1>4, <1>5, <1>6, <1>7 DEF EngineInv

\* The cutoff of _apply_position_limits: what it leaves fits the free slots and
\* the entries of a day.
LEMMA Cutoff ==
    ASSUME EngineInv, ApplyPositionLimits
    PROVE  \E cutoff \in Nat :
             /\ cutoff <= Len(queue)
             /\ Config.maxPositions > 0 => cutoff <= FreeSlots
             /\ Config.maxDailyEntries > 0 => cutoff <= Config.maxDailyEntries
             /\ FreeSlots \in Nat
             /\ Cardinality(openHeld) <= Config.maxPositions =>
                  Cardinality(openHeld) + FreeSlots <= Config.maxPositions
             /\ queue' \in Seq(Symbols) /\ Len(queue') = cutoff
             /\ DOMAIN queue' = 1..cutoff /\ DOMAIN queue = 1..Len(queue)
             /\ \A i \in 1..cutoff : queue'[i] = queue[i]
<1> DEFINE cuts == {Len(queue)}
                     \cup (IF Config.maxPositions > 0 THEN {FreeSlots} ELSE {})
                     \cup (IF Config.maxDailyEntries > 0 THEN {Config.maxDailyEntries} ELSE {})
           cutoff == Min(cuts)
<1>1. queue' = SubSeq(queue, 1, cutoff)
  BY DEF ApplyPositionLimits
<1>2. /\ Config.maxPositions \in Nat /\ Config.maxDailyEntries \in Nat
      /\ openHeld \in SUBSET Symbols /\ queue \in Seq(Symbols)
  BY ConfigAssumption DEF EngineInv, Candidates
<1>3. Cardinality(openHeld) \in Nat
  BY <1>2, SymbolsCount
<1>4. /\ FreeSlots \in Nat
      /\ Cardinality(openHeld) <= Config.maxPositions =>
           Cardinality(openHeld) + FreeSlots <= Config.maxPositions
  <2> DEFINE free == Config.maxPositions - Cardinality(openHeld)
  <2>1. free \in Int
    BY <1>2, <1>3
  <2>2. FreeSlots = Max({0, free})
    BY DEF FreeSlots
  <2> HIDE DEF free
  <2>3. FreeSlots \in {0, free} /\ FreeSlots >= 0
    BY <2>1, <2>2, LargerOfTwo
  <2>4. FreeSlots \in Nat
    BY <2>1, <2>3
  <2>5. QED
    BY <1>2, <1>3, <2>3, <2>4 DEF free
<1>5. /\ cutoff \in Nat /\ cutoff <= Len(queue)
      /\ Config.maxPositions > 0 => cutoff <= FreeSlots
      /\ Config.maxDailyEntries > 0 => cutoff <= Config.maxDailyEntries
  <2>1. Len(queue) \in Nat
    BY <1>2
  <2>2. cuts \in SUBSET Nat /\ cuts # {}
    BY <1>2, <1>4, <2>1
  <2>3. cutoff \in cuts /\ \A y \in cuts : cutoff <= y
    <3> HIDE DEF cuts
    <3>1. QED
      BY <2>2, LeastNatural
  <2> HIDE DEF cutoff
  <2>4. QED
    BY <2>2, <2>3
<1> HIDE DEF cutoff
<1>6. /\ queue' \in Seq(Symbols) /\ Len(queue') = cutoff
      /\ DOMAIN queue' = 1..cutoff /\ DOMAIN queue = 1..Len(queue)
      /\ \A i \in 1..cutoff : queue'[i] = queue[i]
  <2>1. \A i \in 1..cutoff : queue[i] \in Symbols
    BY <1>2, <1>5
  <2>2. /\ queue' \in Seq(Symbols)
        /\ Len(queue') = IF 1 <= cutoff THEN cutoff - 1 + 1 ELSE 0
        /\ \A i \in 1..(cutoff - 1 + 1) : queue'[i] = queue[1 + i - 1]
    BY <1>1, <1>5, <2>1, SubSeqProperties
  <2>3. QED
    BY <1>2, <1>5, <2>2, LenProperties
<1>7. QED
  BY <1>4, <1>5, <1>6

\* The cutoff leaves every candidate a slot.
LEMMA LimitsKeep ==
    ASSUME EngineInv, ApplyPositionLimits
    PROVE  EngineInv'
<1>1. /\ phase = "limits" /\ phase' = "buying" /\ Held' = Held
      /\ UNCHANGED <<groups, log, nextId, day, row, next, openHeld, todo>>
  BY DEF ApplyPositionLimits, ledgerVars, Held
<1>2. /\ Config.maxPositions \in Nat
      /\ openHeld \in SUBSET Symbols /\ Held \in SUBSET openHeld
  BY <1>1, ConfigAssumption DEF EngineInv, Candidates, Counted, Opened
<1>3. /\ Cardinality(openHeld) \in Nat /\ Cardinality(Held) \in Nat
      /\ Cardinality(Held) <= Cardinality(openHeld)
  <2>1. Held \in SUBSET Symbols
    BY <1>2
  <2>2. QED
    BY <1>2, <2>1, SymbolsCount
<1>4. PICK cutoff \in Nat :
             /\ cutoff <= Len(queue)
             /\ Config.maxPositions > 0 => cutoff <= FreeSlots
             /\ FreeSlots \in Nat
             /\ Cardinality(openHeld) <= Config.maxPositions =>
                  Cardinality(openHeld) + FreeSlots <= Config.maxPositions
             /\ queue' \in Seq(Symbols) /\ Len(queue') = cutoff
             /\ DOMAIN queue' = 1..cutoff /\ DOMAIN queue = 1..Len(queue)
             /\ \A i \in 1..cutoff : queue'[i] = queue[i]
  BY Cutoff
<1>5. Len(queue) \in Nat
  BY DEF EngineInv, Candidates
<1>7. Candidates'
  <2>1. \A i, j \in 1..cutoff : queue'[i] = queue'[j] => i = j
    BY <1>4, <1>5 DEF EngineInv, Candidates
  <2>2. QED
    BY <1>1, <1>2, <1>4, <2>1 DEF Candidates
<1>8. /\ Account' /\ LogInOrder' /\ NoSameDayRotation'
      /\ \A i \in DOMAIN log : SoldToday(i)' <=> SoldToday(i)
  BY <1>1, LedgerAlone
<1>9. Calendar' /\ phase' \in Phases
  BY <1>1 DEF EngineInv, Calendar, Phases
<1>10. Counted'
  BY <1>1, <1>2 DEF Counted, Opened, Ordered
<1>11. SlotsKept'
  <2>1. Config.maxPositions > 0 => Cardinality(openHeld) <= Config.maxPositions
    BY <1>1 DEF EngineInv, SlotsKept, Opened
  <2>2. Config.maxPositions > 0 => Cardinality(Held) + cutoff <= Config.maxPositions
    BY <1>2, <1>3, <1>4, <2>1
  <2>3. Config.maxPositions > 0 => Cardinality(Held) <= Config.maxPositions
    BY <1>2, <1>3, <2>1
  <2>4. QED
    BY <1>1, <1>4, <2>2, <2>3 DEF SlotsKept, Opened, Ordered
<1>12. KeptOut'
  BY <1>1, <1>8 DEF EngineInv, KeptOut, Opened, Ordered
<1>13. QED
  BY <1>7, <1>8, <1>9, <1>10, <1>11, <1>12 DEF EngineInv

\* The queue moves on by one.
LEMMA TailOfQueue ==
    ASSUME Candidates, queue # << >>, queue' = Tail(queue), openHeld' = openHeld
    PROVE  /\ Candidates'
           /\ Len(queue) \in Nat /\ Len(queue') = Len(queue) - 1
           /\ 1 \in DOMAIN queue /\ queue[1] = Head(queue) /\ Head(queue) \in Symbols
           /\ \A i \in DOMAIN queue' : \E j \in DOMAIN queue : j # 1 /\ queue'[i] = queue[j]
           /\ \A i \in DOMAIN queue' : queue'[i] # Head(queue)
<1>1. queue \in Seq(Symbols) /\ openHeld \subseteq Symbols
  BY DEF Candidates
<1>2. /\ Len(queue) \in Nat \ {0} /\ DOMAIN queue = 1..Len(queue)
      /\ queue' \in Seq(Symbols) /\ Len(queue') = Len(queue) - 1
      /\ Head(queue) \in Symbols /\ queue[1] = Head(queue)
      /\ \A i \in 1..Len(queue') : queue'[i] = queue[i + 1]
  BY <1>1, HeadTailProperties, EmptySeq, LenProperties
<1>3. DOMAIN queue' = 1..(Len(queue) - 1)
  BY <1>2, LenProperties
<1>4. \A i \in DOMAIN queue' : i + 1 \in DOMAIN queue /\ i + 1 # 1 /\ queue'[i] = queue[i + 1]
  BY <1>2, <1>3
<1>5. 1 \in DOMAIN queue
  BY <1>2
<1>6. \A i \in DOMAIN queue' : queue'[i] # Head(queue)
  BY <1>2, <1>4, <1>5 DEF Candidates
<1>7. \A i, j \in DOMAIN queue' : queue'[i] = queue'[j] => i = j
  <2>1. ASSUME NEW i \in DOMAIN queue', NEW j \in DOMAIN queue', queue'[i] = queue'[j]
        PROVE  i = j
    <3>1. i + 1 = j + 1
      BY <1>4, <2>1 DEF Candidates
    <3>2. i \in Int /\ j \in Int
      BY <1>3
    <3>3. QED
      BY <3>1, <3>2
  <2>2. QED
    BY <2>1
<1>8. \A i \in DOMAIN queue' : \E j \in DOMAIN queue : j # 1 /\ queue'[i] = queue[j]
  BY <1>4
<1>9. QED
  BY <1>1, <1>2, <1>5, <1>6, <1>7, <1>8 DEF Candidates

\* A candidate is passed over, or its order is dropped.
LEMMA PassedOver ==
    ASSUME EngineInv, Ordered, queue # << >>, queue' = Tail(queue), phase' = "buying",
           Held' = Held, UNCHANGED <<groups, log, nextId, day, row, next, openHeld, todo>>
    PROVE  EngineInv'
<1>1. /\ Candidates'
      /\ Len(queue) \in Nat /\ Len(queue') = Len(queue) - 1
      /\ \A i \in DOMAIN queue' : \E j \in DOMAIN queue : j # 1 /\ queue'[i] = queue[j]
  BY TailOfQueue DEF EngineInv
<1>2. /\ Account' /\ LogInOrder' /\ NoSameDayRotation'
      /\ \A i \in DOMAIN log : SoldToday(i)' <=> SoldToday(i)
  BY LedgerAlone
<1>3. Calendar' /\ phase' \in Phases
  BY DEF EngineInv, Calendar, Phases
<1>4. Counted'
  BY <1>1 DEF EngineInv, Counted, Opened, Ordered
<1>5. SlotsKept'
  <2>1. Held \in SUBSET Symbols
    BY DEF EngineInv, Account
  <2>2. Cardinality(Held) \in Nat /\ Config.maxPositions \in Nat
    BY <2>1, SymbolsCount, ConfigAssumption
  <2>3. QED
    BY <1>1, <2>2 DEF EngineInv, SlotsKept, Opened, Ordered
<1>6. KeptOut'
  BY <1>1, <1>2 DEF EngineInv, KeptOut, Opened, Ordered
<1>7. QED
  BY <1>1, <1>2, <1>3, <1>4, <1>5, <1>6 DEF EngineInv

\* A candidate is bought: it was neither held at the open nor sold today, and it
\* takes one of the slots that were counted for the queue.
LEMMA BoughtKeeps ==
    ASSUME EngineInv, phase = "ordering", queue' = Tail(queue), phase' = "buying",
           UNCHANGED <<day, row, next, openHeld, todo>>,
           NEW price, NEW q, NEW cost, NEW date, Buy(Head(queue), price, q, cost, date, day)
    PROVE  EngineInv'
<1>1. queue # << >> /\ Head(queue) \notin openHeld /\ Head(queue) \notin Held
  BY DEF EngineInv, Counted
<1>2. /\ Candidates'
      /\ Len(queue) \in Nat /\ Len(queue') = Len(queue) - 1
      /\ 1 \in DOMAIN queue /\ queue[1] = Head(queue) /\ Head(queue) \in Symbols
      /\ \A i \in DOMAIN queue' : \E j \in DOMAIN queue : j # 1 /\ queue'[i] = queue[j]
      /\ \A i \in DOMAIN queue' : queue'[i] # Head(queue)
  BY <1>1, TailOfQueue DEF EngineInv
<1>3. /\ Account' /\ Held' = Held \cup {Head(queue)}
      /\ \E e : log' = Append(log, e) /\ e.kind = "BUY" /\ e.symbol = Head(queue) /\ e.signal = day
  BY <1>1, <1>2, BuyOpens DEF EngineInv
<1>4. \A i \in DOMAIN log : SoldToday(i) => log[i].symbol # Head(queue)
  BY <1>1, <1>2 DEF EngineInv, KeptOut, Ordered
<1>5. /\ LogInOrder' /\ NoSameDayRotation'
      /\ \A i \in DOMAIN log' : SoldToday(i)' =>
           i \in DOMAIN log /\ SoldToday(i) /\ log'[i].symbol = log[i].symbol
  BY <1>3, <1>4, BuyLogged DEF EngineInv, Calendar
<1>6. Calendar' /\ phase' \in Phases
  BY DEF EngineInv, Calendar, Phases
<1>7. Counted'
  BY <1>2, <1>3 DEF EngineInv, Counted, Opened, Ordered
<1>8. SlotsKept'
  <2>1. Held \in SUBSET Symbols
    BY DEF EngineInv, Account
  <2>2. IsFiniteSet(Held) /\ Cardinality(Held) \in Nat /\ Config.maxPositions \in Nat
    BY <2>1, SymbolsCount, ConfigAssumption
  <2>3. Cardinality(Held') = Cardinality(Held) + 1
    BY <1>1, <1>3, <2>2, FS_AddElement
  <2>4. Len(queue) # 0
    BY <1>1, EmptySeq DEF EngineInv, Candidates
  <2>5. QED
    BY <1>2, <2>2, <2>3, <2>4 DEF EngineInv, SlotsKept, Opened, Ordered
<1>9. KeptOut'
  <2> SUFFICES ASSUME NEW i \in DOMAIN log', SoldToday(i)'
               PROVE  \/ log'[i].symbol \in openHeld
                      \/ \A k \in DOMAIN queue' : queue'[k] # log'[i].symbol
    BY DEF KeptOut, Opened, Ordered
  <2>1. i \in DOMAIN log /\ SoldToday(i) /\ log'[i].symbol = log[i].symbol
    BY <1>5
  <2>2. \/ log[i].symbol \in openHeld
        \/ \A k \in DOMAIN queue : queue[k] # log[i].symbol
    BY <2>1 DEF EngineInv, KeptOut, Ordered
  <2>3. QED
    BY <1>2, <2>1, <2>2
<1>10. QED
  BY <1>2, <1>3, <1>5, <1>6, <1>7, <1>8, <1>9 DEF EngineInv

\* The loop over the candidates.
LEMMA BuyingKeeps ==
    ASSUME EngineInv, SkipCandidate \/ StartOrder \/ RaiseCash \/ PlaceOrder
    PROVE  EngineInv'
<1>1. CASE SkipCandidate
  <2>1. Held' = Held
    BY <1>1 DEF SkipCandidate, ledgerVars, Held
  <2>2. QED
    BY <1>1, <2>1, PassedOver DEF SkipCandidate, ledgerVars, Ordered
<1>2. CASE StartOrder
  <2>1. /\ phase = "buying" /\ phase' = "ordering" /\ Held' = Held
        /\ queue # << >> /\ Head(queue) \notin openHeld /\ Head(queue) \notin Held
        /\ UNCHANGED <<groups, log, nextId, day, row, next, openHeld, todo, queue>>
    BY <1>2 DEF StartOrder, AlreadyHeld, ledgerVars, Held
  <2>2. /\ Account' /\ LogInOrder' /\ NoSameDayRotation'
        /\ \A i \in DOMAIN log : SoldToday(i)' <=> SoldToday(i)
    BY <2>1, LedgerAlone
  <2>3. Calendar' /\ Candidates' /\ phase' \in Phases
    BY <2>1 DEF EngineInv, Calendar, Candidates, Phases
  <2>4. Counted' /\ SlotsKept'
    BY <2>1 DEF EngineInv, Counted, SlotsKept, Opened, Ordered
  <2>5. KeptOut'
    BY <2>1, <2>2 DEF EngineInv, KeptOut, Opened, Ordered
  <2>6. QED
    BY <2>2, <2>3, <2>4, <2>5 DEF EngineInv
<1>3. CASE RaiseCash
  <2>1. /\ phase = "ordering"
        /\ UNCHANGED <<phase, day, row, next, openHeld, todo, queue>>
        /\ \E s \in Held : \E q, cent, date, reason : Sell(s, q, cent, date, reason)
    BY <1>3 DEF RaiseCash
  <2>2. PICK s \in Held : \E q, cent, date, reason : Sell(s, q, cent, date, reason)
    BY <2>1
  <2>3. PICK q, cent, date, reason : Sell(s, q, cent, date, reason)
    BY <2>2
  <2>4. Account' /\ SaleOf(s, reason)
    BY <2>3, SellLeaves DEF EngineInv
  <2>5. QED
    BY <2>1, <2>4, SaleKeeps
<1>4. CASE PlaceOrder
  <2>1. /\ phase = "ordering" /\ phase' = "buying" /\ queue' = Tail(queue)
        /\ UNCHANGED <<day, row, next, openHeld, todo>>
        /\ \/ UNCHANGED ledgerVars
           \/ \E price, q, cost, date : Buy(Head(queue), price, q, cost, date, day)
    BY <1>4 DEF PlaceOrder
  <2>2. CASE UNCHANGED ledgerVars
    <3>1. Held' = Held /\ queue # << >> /\ Ordered
      BY <2>1, <2>2 DEF ledgerVars, Held, EngineInv, Counted, Ordered
    <3>2. QED
      BY <2>1, <2>2, <3>1, PassedOver DEF ledgerVars
  <2>3. CASE \E price, q, cost, date : Buy(Head(queue), price, q, cost, date, day)
    BY <2>1, <2>3, BoughtKeeps
  <2>4. QED
    BY <2>1, <2>2, <2>3
<1>5. QED
  BY <1>1, <1>2, <1>3, <1>4

\* Outside the day nothing is asked of the queue or of the day's sales.
LEMMA DayEnds ==
    ASSUME EngineInv, CloseDay \/ Finish
    PROVE  EngineInv'
<1>1. /\ phase' \in {"overnight", "over"} /\ Held' = Held
      /\ UNCHANGED <<groups, log, nextId, day, row, next, openHeld, todo, queue>>
  BY DEF CloseDay, Finish, ledgerVars, Held
<1>2. /\ Account' /\ LogInOrder' /\ NoSameDayRotation'
      /\ \A i \in DOMAIN log : SoldToday(i)' <=> SoldToday(i)
  BY <1>1, LedgerAlone
<1>3. Calendar' /\ Candidates' /\ phase' \in Phases
  BY <1>1 DEF EngineInv, Calendar, Candidates, Phases
<1>4. Counted' /\ SlotsKept' /\ KeptOut'
  BY <1>1 DEF EngineInv, Counted, SlotsKept, KeptOut, Opened, Ordered
<1>5. QED
  BY <1>2, <1>3, <1>4 DEF EngineInv

LEMMA EngineStep ==
    EngineInv /\ [Next]_vars => EngineInv'
<1> SUFFICES ASSUME EngineInv, [Next]_vars PROVE EngineInv'
  OBVIOUS
<1>1. CASE UNCHANGED vars
  <2>1. UNCHANGED <<groups, quote, log, nextId, phase, day, row, next, openHeld, todo, queue>>
    BY <1>1 DEF vars, ledgerVars, dayVars
  <2>2. Held' = Held
    BY <2>1 DEF Held
  <2>3. /\ Account' /\ LogInOrder' /\ NoSameDayRotation'
        /\ \A i \in DOMAIN log : SoldToday(i)' <=> SoldToday(i)
    BY <2>1, <2>2, LedgerAlone
  <2>4. Calendar' /\ Candidates' /\ Counted' /\ SlotsKept' /\ phase' \in Phases
    BY <2>1, <2>2 DEF EngineInv, Calendar, Candidates, Counted, SlotsKept, Opened, Ordered
  <2>5. KeptOut'
    BY <2>1, <2>3 DEF EngineInv, KeptOut, Opened, Ordered
  <2>6. QED
    BY <2>3, <2>4, <2>5 DEF EngineInv
<1>2. CASE \E s \in todo : HoldUntraded(s) \/ SellOnRule(s) \/ SellOnSignal(s) \/ Hold(s)
  BY <1>2, EvaluationKeeps
<1>3. QED
  BY <1>1, <1>2, StartDayKeeps, ForceSellKeeps, OpenHoldingsKeeps, CloseHoldingsKeeps,
     CollectKeeps, LimitsKeep, BuyingKeeps, DayEnds DEF Next

\* The account and the day keep in step through the whole backtest.
THEOREM EngineInvHolds == Safety => []EngineInv
<1>1. Init => EngineInv
  <2> SUFFICES ASSUME Init PROVE EngineInv
    OBVIOUS
  <2>1. /\ Live = {} /\ Held = {} /\ log = << >> /\ nextId = 1 /\ phase = "overnight"
        /\ day = 0 /\ openHeld = {} /\ queue = << >> /\ DOMAIN row = {}
    BY DEF Init, LedgerInit, Live, Held
  <2>2. Account /\ Candidates /\ phase \in Phases
    BY <2>1 DEF Account, Candidates, Phases
  <2>3. LogInOrder /\ NoSameDayRotation /\ KeptOut
    BY <2>1 DEF LogInOrder, NoSameDayRotation, KeptOut
  <2>4. Calendar
    <3>1. /\ DOMAIN next = Symbols
          /\ \A s \in Symbols : next[s] \in Upcoming(s, 0)
      BY DEF Init
    <3>2. ASSUME NEW s \in Symbols PROVE next[s].date \in Nat /\ next[s].date > 0
      <4>1. PICK gap \in Gaps : next[s].date = 0 + gap
        BY <3>1 DEF Upcoming
      <4>2. QED
        BY <4>1, BarsAssumption
    <3>3. QED
      BY <2>1, <3>1, <3>2 DEF Calendar
  <2>5. Counted /\ SlotsKept
    BY <2>1, FS_EmptySet, ConfigAssumption DEF Counted, SlotsKept, Opened, Ordered
  <2>6. QED
    BY <2>2, <2>3, <2>4, <2>5 DEF EngineInv
<1>2. QED
  BY <1>1, EngineStep, PTL DEF Safety

\* However sales and buys follow each other within a day, a position is one
\* trade group and max_positions holds at every moment.
THEOREM PositionsStayWithinLimit == Spec => []PositionsWithinLimit
<1>1. EngineInv => PositionsWithinLimit
  <2> SUFFICES ASSUME EngineInv PROVE PositionsWithinLimit
    OBVIOUS
  <2>1. ASSUME NEW s \in Symbols PROVE Cardinality(GroupsOf(s)) <= 1
    <3>1. CASE GroupsOf(s) = {}
      BY <3>1, FS_EmptySet
    <3>2. CASE GroupsOf(s) # {}
      <4>1. PICK g : GroupsOf(s) = {g}
        BY <3>2 DEF GroupsOf, EngineInv, Account
      <4>2. QED
        BY <4>1, FS_Singleton
    <3>3. QED
      BY <3>1, <3>2
  <2>2. QED
    BY <2>1 DEF PositionsWithinLimit, EngineInv, SlotsKept
<1>2. QED
  BY <1>1, EngineInvHolds, PTL DEF Spec, Safety

\* A symbol sold today by a rule, a signal or the cash manager is not bought
\* today.
THEOREM NothingIsBoughtBack == Spec => []NoSameDayRotation
  BY EngineInvHolds, PTL DEF Spec, Safety, EngineInv

-----------------------------------------------------------------------------
(* What the evaluation of the day leaves in the account. *)

LotType ==
    [symbol : Symbols, entryDate : Nat, entryPrice : Int, entryQty : Nat, remaining : Nat]

\* Prices are numbers, rows are rows of the data, and what is ordered has a
\* next row to be executed on.
Priced ==
    /\ groups \in [Live -> LotType]
    /\ \A s \in DOMAIN row : row[s] \in Bars
    /\ \A s \in DOMAIN next : next[s].bar \in Bars
    /\ phase = "ordering" => Head(queue) \in DOMAIN next

BetweenItsLines(s) ==
    /\ StopSet => 100 * quote[s].cur > StopLine(s)
    /\ TakeSet => 100 * quote[s].cur < TargetLine(s)

\* LossIsCapped for the part of the holdings that the day has been through.
CappedSoFar ==
    /\ phase = "entries" => todo = {}
    /\ phase \in {"holdings", "entries"} =>
         \A s \in Held \ todo : ~NoTradeToday(s) => BetweenItsLines(s)

LossInv == Priced /\ CappedSoFar

\* What a fold adds up over a position with one lot.
LEMMA QuantityOfOneLot ==
    ASSUME NEW s, NEW g, GroupsOf(s) = {g}, groups[g].remaining \in Int
    PROVE  Quantity(s) = groups[g].remaining
<1> DEFINE F(it) == [S \in SUBSET {g} |->
              IF S = {} THEN 0
              ELSE LET x == CHOOSE x \in S : TRUE IN groups[x].remaining + it[S \ {x}]]
           sum == CHOOSE it : it = F(it)
<1>1. F([S \in SUBSET {g} |-> IF S = {} THEN 0 ELSE groups[g].remaining])
        = [S \in SUBSET {g} |-> IF S = {} THEN 0 ELSE groups[g].remaining]
  <2> DEFINE h == [S \in SUBSET {g} |-> IF S = {} THEN 0 ELSE groups[g].remaining]
  <2>1. ASSUME NEW S \in SUBSET {g} PROVE F(h)[S] = h[S]
    <3>1. CASE S = {}
      BY <3>1
    <3>2. CASE S = {g}
      <4>1. (CHOOSE x \in S : TRUE) = g
        BY <3>2
      <4>2. h[S \ {g}] = 0 /\ h[S] = groups[g].remaining
        BY <3>2
      <4> HIDE DEF h
      <4>3. F(h)[S] = groups[g].remaining + h[S \ {g}]
        BY <3>2, <4>1
      <4>4. QED
        BY <4>2, <4>3
    <3>3. QED
      BY <3>1, <3>2
  <2>2. QED
    BY <2>1
<1>2. sum = F(sum)
  BY <1>1
<1>3. sum[{g}] = groups[g].remaining
  <2> HIDE DEF sum
  <2>1. sum[{}] = 0
    BY <1>2
  <2>2. (CHOOSE x \in {g} : TRUE) = g
    OBVIOUS
  <2>3. sum[{g}] = groups[g].remaining + sum[{g} \ {g}]
    BY <1>2, <2>2
  <2>4. QED
    BY <2>1, <2>3
<1>4. Quantity(s) = sum[{g}]
  BY DEF Quantity, MapThenSumSet, MapThenFoldSet
<1>5. QED
  BY <1>3, <1>4

\* A sale of a whole position, and of a part of one, by the types.
LEMMA SaleKeepsTypes ==
    ASSUME Account, Account', groups \in [Live -> LotType], NEW s \in Held,
           NEW q, NEW cent, NEW date, NEW reason, Sell(s, q, cent, date, reason)
    PROVE  groups' \in [Live' -> LotType]
<1> DEFINE g == Lot(s)
           kept == KeptAfter(g, q)
<1>1. g \in Live /\ groups[g] \in LotType
  BY TheLot
<1>2. /\ groups' = [h \in kept |-> IF h = g THEN [groups[g] EXCEPT !.remaining = LeftOf(g, q)]
                                   ELSE groups[h]]
      /\ q \in 1..groups[g].remaining
  BY DEF Sell, SellTradeGroup
<1> HIDE DEF g
<1>3. LeftOf(g, q) \in Nat
  BY <1>1, <1>2 DEF LeftOf, LotType
<1>4. [groups[g] EXCEPT !.remaining = LeftOf(g, q)] \in LotType
  BY <1>1, <1>3 DEF LotType
<1>5. kept \subseteq Live
  BY DEF KeptAfter
<1>6. QED
  BY <1>2, <1>4, <1>5 DEF Live

LEMMA WholePositionGoes ==
    ASSUME Account, groups \in [Live -> LotType], NEW s \in Held,
           NEW cent, NEW date, NEW reason, SellAll(s, cent, date, reason)
    PROVE  s \notin Held'
<1> DEFINE g == Lot(s)
           q == Quantity(s)
<1>1. /\ g \in Live /\ groups[g].symbol = s
      /\ \A h \in Live : groups[h].symbol = s => h = g
  BY TheLot
<1>2. GroupsOf(s) = {g} /\ groups[g].remaining \in Int
  BY <1>1 DEF GroupsOf, LotType
<1> HIDE DEF g
<1>3. q = groups[g].remaining
  BY <1>2, QuantityOfOneLot
<1>4. quote' = [t \in {groups[h].symbol : h \in KeptAfter(g, q)} |-> quote[t]]
  BY DEF SellAll, Sell, SellTradeGroup, g
<1>5. KeptAfter(g, q) = Live \ {g}
  BY <1>2, <1>3 DEF KeptAfter, LeftOf
<1>6. QED
  BY <1>1, <1>4, <1>5 DEF Held

\* A holding that a step leaves alone keeps its lot and its lines.
LEMMA LinesStay ==
    ASSUME Account, Account', NEW s \in Held, s \in Held', quote'[s] = quote[s],
           \A g \in Live' : groups'[g].symbol = groups[g].symbol /\ g \in Live,
           \A g \in Live' : groups[g].symbol = s => groups'[g] = groups[g]
    PROVE  BetweenItsLines(s)' <=> BetweenItsLines(s)
<1>1. /\ Lot(s) \in Live /\ groups[Lot(s)].symbol = s
      /\ \A g \in Live : groups[g].symbol = s => g = Lot(s)
  BY TheLot
<1>2. \E g \in Live' : groups'[g].symbol = s
  BY DEF Account
<1>3. Lot(s)' \in Live' /\ groups'[Lot(s)'].symbol = s
  BY <1>2 DEF Lot
<1>4. Lot(s)' = Lot(s) /\ groups'[Lot(s)'] = groups[Lot(s)]
  BY <1>1, <1>3
<1>5. StopLine(s)' = StopLine(s) /\ TargetLine(s)' = TargetLine(s)
  BY <1>4 DEF StopLine, TargetLine
<1>6. QED
  BY <1>5 DEF BetweenItsLines, StopSet, TakeSet

\* Rows move up as they are.
LEMMA NextRowsArePriced ==
    ASSUME EngineInv, Priced, StartDay
    PROVE  Priced'
<1> DEFINE today == Min({next[s].date : s \in DOMAIN next})
           trading == {s \in DOMAIN next : next[s].date = today}
<1>1. PICK more \in SUBSET trading : \E r :
        /\ \A s \in more : r[s] \in Upcoming(s, today)
        /\ next' = [s \in (DOMAIN next \ trading) \cup more |-> IF s \in more THEN r[s] ELSE next[s]]
  BY DEF StartDay
<1>2. row' = [s \in trading |-> next[s].bar] /\ UNCHANGED groups /\ phase' = "delisting"
  BY DEF StartDay, ledgerVars
<1> HIDE DEF today
<1>3. \A s \in DOMAIN row' : row'[s] \in Bars
  BY <1>2 DEF Priced
<1>4. ASSUME NEW s \in DOMAIN next' PROVE next'[s].bar \in Bars
  <2>1. CASE s \in more
    <3>1. next'[s] \in Upcoming(s, today)
      BY <1>1, <1>4, <2>1
    <3>2. QED
      BY <3>1 DEF Upcoming
  <2>2. CASE s \notin more
    BY <1>1, <1>4, <2>2 DEF Priced
  <2>3. QED
    BY <2>1, <2>2
<1>5. QED
  BY <1>2, <1>3, <1>4 DEF Priced, Live

\* A holding that no rule is due for has closed between its lines.
LEMMA NothingDue ==
    ASSUME EngineInv, Priced, NEW s \in Held, s \in DOMAIN row, ExitsDue(s) = {}
    PROVE  /\ StopSet => 100 * row[s].close > StopLine(s)
           /\ TakeSet => 100 * row[s].close < TargetLine(s)
<1> DEFINE bar == row[s]
<1>1. /\ bar.low \in Int /\ bar.high \in Int /\ bar.close \in Int
      /\ bar.low <= bar.close /\ bar.close <= bar.high
  BY BarsAssumption DEF Priced
<1>2. groups[Lot(s)].entryPrice \in Int
  BY TheLot DEF EngineInv, Priced, LotType
<1>3. Rules.stop_loss.percent \in Int /\ Rules.take_profit.percent \in Int
  BY ConfigAssumption
<1>4. StopLine(s) \in Int /\ TargetLine(s) \in Int
  BY <1>2, <1>3 DEF StopLine, TargetLine
<1>5. ~(StopSet /\ Lowest(bar, Rules.stop_loss.on) <= StopLine(s))
  <2> SUFFICES ASSUME StopSet, Lowest(bar, Rules.stop_loss.on) <= StopLine(s) PROVE FALSE
    OBVIOUS
  <2>1. [rank |-> 3, cent |-> StopLine(s), reason |-> "stop_loss"] \in ExitsDue(s)
    BY DEF ExitsDue
  <2>2. QED
    BY <2>1
<1>6. ~(TakeSet /\ Highest(bar, Rules.take_profit.on) >= TargetLine(s))
  <2> SUFFICES ASSUME TakeSet, Highest(bar, Rules.take_profit.on) >= TargetLine(s) PROVE FALSE
    OBVIOUS
  <2>1. [rank |-> 4, cent |-> TargetLine(s), reason |-> "take_profit"] \in ExitsDue(s)
    BY DEF ExitsDue
  <2>2. QED
    BY <2>1
<1>7. /\ Lowest(bar, Rules.stop_loss.on) \in Int
      /\ Lowest(bar, Rules.stop_loss.on) <= 100 * bar.close
  BY <1>1 DEF Lowest
<1>8. /\ Highest(bar, Rules.take_profit.on) \in Int
      /\ 100 * bar.close <= Highest(bar, Rules.take_profit.on)
  BY <1>1 DEF Highest
<1> HIDE DEF bar
<1>9. StopSet => 100 * bar.close > StopLine(s)
  BY <1>1, <1>4, <1>5, <1>7
<1>10. TakeSet => 100 * bar.close < TargetLine(s)
  BY <1>1, <1>4, <1>6, <1>8
<1>11. QED
  BY <1>9, <1>10 DEF bar

\* One held symbol is evaluated: it is gone, or untraded, or between its lines.
LEMMA EvaluationCaps ==
    ASSUME EngineInv, EngineInv', LossInv, NEW s \in todo,
           HoldUntraded(s) \/ SellOnRule(s) \/ SellOnSignal(s) \/ Hold(s)
    PROVE  LossInv'
<1>1. /\ phase = "holdings" /\ todo' = todo \ {s}
      /\ UNCHANGED <<phase, day, row, next, openHeld, queue>>
  BY DEF HoldUntraded, SellOnRule, SellOnSignal, Hold, Evaluating
<1>2. s \in Held /\ Account /\ Account'
  BY <1>1 DEF EngineInv, Counted, Opened
<1>3. \A t : NoTradeToday(t)' <=> NoTradeToday(t)
  BY <1>1 DEF NoTradeToday
<1>4. CASE SellOnRule(s) \/ SellOnSignal(s)
  <2>1. PICK cent, date, reason : SellAll(s, cent, date, reason)
    BY <1>4 DEF SellOnRule, SellOnSignal
  <2>2. groups' \in [Live' -> LotType] /\ SaleOf(s, reason)
    BY <1>2, <2>1, SaleKeepsTypes, SellLeaves DEF LossInv, Priced, SellAll
  <2>3. s \notin Held'
    BY <1>2, <2>1, WholePositionGoes DEF LossInv, Priced
  <2>4. Priced'
    BY <1>1, <2>2 DEF LossInv, Priced
  <2>5. ASSUME NEW t \in Held' \ todo', ~NoTradeToday(t)
        PROVE  BetweenItsLines(t)'
    <3>1. t \in Held /\ t # s /\ t \in Held' /\ quote'[t] = quote[t]
      BY <2>2, <2>3, <2>5 DEF SaleOf
    <3>2. BetweenItsLines(t)
      BY <1>1, <2>5, <3>1 DEF LossInv, CappedSoFar
    <3>3. \A g \in Live' : groups[g].symbol = t => groups'[g] = groups[g]
      BY <2>2, <3>1 DEF SaleOf
    <3>4. QED
      BY <1>2, <2>2, <3>1, <3>2, <3>3, LinesStay DEF SaleOf
  <2>6. QED
    BY <1>1, <1>3, <2>4, <2>5 DEF LossInv, CappedSoFar
<1>5. CASE HoldUntraded(s) \/ Hold(s)
  <2>1. /\ UNCHANGED groups /\ Held' = Held /\ Live' = Live
        /\ \A t \in Held : t # s => quote'[t] = quote[t]
    BY <1>5 DEF HoldUntraded, Hold, ledgerVars, Held, Live
  <2>2. Priced'
    BY <1>1, <2>1 DEF LossInv, Priced
  <2>3. ASSUME NEW t \in Held' \ todo', ~NoTradeToday(t), t # s
        PROVE  BetweenItsLines(t)'
    <3>1. BetweenItsLines(t)
      BY <1>1, <2>1, <2>3 DEF LossInv, CappedSoFar
    <3>2. QED
      BY <1>2, <2>1, <2>3, <3>1, LinesStay
  <2>4. ASSUME ~NoTradeToday(s) PROVE BetweenItsLines(s)'
    <3>1. Hold(s) /\ ExitsDue(s) = {} /\ s \in DOMAIN row
      BY <1>5, <2>4 DEF HoldUntraded, Hold, NoTradeToday
    <3>2. quote'[s].cur = row[s].close
      BY <1>2, <3>1 DEF Hold, Held
    <3>3. /\ StopSet => 100 * row[s].close > StopLine(s)
          /\ TakeSet => 100 * row[s].close < TargetLine(s)
      BY <1>2, <3>1, NothingDue DEF LossInv
    <3>4. StopLine(s)' = StopLine(s) /\ TargetLine(s)' = TargetLine(s)
      BY <2>1 DEF StopLine, TargetLine, Lot
    <3>5. QED
      BY <3>2, <3>3, <3>4 DEF BetweenItsLines, StopSet, TakeSet
  <2>5. QED
    BY <1>1, <1>3, <2>2, <2>3, <2>4 DEF LossInv, CappedSoFar
<1>6. QED
  BY <1>4, <1>5

\* The trades outside the evaluation keep the types.
LEMMA OtherTradesArePriced ==
    ASSUME EngineInv, EngineInv', Priced,
           ForceSellDelisted \/ ForceSellEstimated \/ RaiseCash \/ PlaceOrder
    PROVE  Priced'
<1>1. Account /\ Account'
  BY DEF EngineInv
<1>2. CASE ForceSellDelisted \/ ForceSellEstimated
  <2>1. PICK s \in Held : \E cent, reason : SellAll(s, cent, day, reason)
    BY <1>1, <1>2, ForcedSale
  <2>2. groups' \in [Live' -> LotType]
    BY <1>1, <2>1, SaleKeepsTypes DEF Priced, SellAll
  <2>3. phase = "delisting" /\ UNCHANGED <<phase, row, next>>
    BY <1>2 DEF ForceSellDelisted, ForceSellEstimated, dayVars
  <2>4. QED
    BY <2>2, <2>3 DEF Priced
<1>3. CASE RaiseCash
  <2>1. /\ UNCHANGED <<phase, row, next, queue>>
        /\ \E s \in Held : \E q, cent, date, reason : Sell(s, q, cent, date, reason)
    BY <1>3 DEF RaiseCash
  <2>2. groups' \in [Live' -> LotType]
    BY <1>1, <2>1, SaleKeepsTypes DEF Priced
  <2>3. QED
    BY <2>1, <2>2 DEF Priced
<1>4. CASE PlaceOrder
  <2> DEFINE s     == Head(queue)
             price == EntryPrice(s)
  <2>1. phase = "ordering" /\ phase' = "buying" /\ UNCHANGED <<row, next>>
    BY <1>4 DEF PlaceOrder
  <2>2. s \in DOMAIN next /\ s \in Symbols
    BY <2>1 DEF Priced, EngineInv, Calendar
  <2>3. next[s].date \in Nat /\ price \in Int
    <3>1. next[s].bar \in Bars
      BY <2>2 DEF Priced
    <3>2. next[s].bar.open \in Int
      BY <3>1, BarsAssumption
    <3>3. QED
      BY <2>2, <3>2, BuyPriceIsANumber DEF EntryPrice, EngineInv, Calendar
  <2>4. CASE UNCHANGED ledgerVars
    BY <2>1, <2>4 DEF Priced, ledgerVars, Live
  <2>5. CASE \E q, cost : Buy(s, price, q, cost, next[s].date, day)
    <3> HIDE DEF s, price
    <3>1. PICK q \in Nat \ {0} :
            groups' = [g \in Live \cup {nextId} |->
                        IF g = nextId
                        THEN [symbol |-> s, entryDate |-> next[s].date, entryPrice |-> price,
                              entryQty |-> q, remaining |-> q]
                        ELSE groups[g]]
      BY <2>5 DEF Buy
    <3>2. [symbol |-> s, entryDate |-> next[s].date, entryPrice |-> price,
           entryQty |-> q, remaining |-> q] \in LotType
      BY <2>2, <2>3 DEF LotType
    <3>3. groups' \in [Live' -> LotType]
      BY <3>1, <3>2 DEF Priced, Live
    <3>4. QED
      BY <2>1, <3>3 DEF Priced
  <2>6. QED
    BY <1>4, <2>4, <2>5 DEF PlaceOrder
<1>5. QED
  BY <1>2, <1>3, <1>4

LEMMA LossStep ==
    EngineInv /\ EngineInv' /\ LossInv /\ [Next]_vars => LossInv'
<1> SUFFICES ASSUME EngineInv, EngineInv', LossInv, [Next]_vars PROVE LossInv'
  OBVIOUS
<1>1. CASE UNCHANGED vars
  BY <1>1 DEF vars, ledgerVars, dayVars, LossInv, Priced, CappedSoFar, Held, Live,
              NoTradeToday, BetweenItsLines, StopLine, TargetLine, Lot
<1>2. CASE \E s \in todo : HoldUntraded(s) \/ SellOnRule(s) \/ SellOnSignal(s) \/ Hold(s)
  BY <1>2, EvaluationCaps
<1>3. CASE StartDay
  <2>1. Priced' /\ phase' = "delisting"
    BY <1>3, NextRowsArePriced DEF LossInv, StartDay
  <2>2. QED
    BY <2>1 DEF LossInv, CappedSoFar
<1>4. CASE ForceSellDelisted \/ ForceSellEstimated \/ RaiseCash \/ PlaceOrder
  <2>1. Priced'
    BY <1>4, OtherTradesArePriced DEF LossInv
  <2>2. phase' \in {"delisting", "ordering", "buying"}
    BY <1>4 DEF ForceSellDelisted, ForceSellEstimated, RaiseCash, PlaceOrder, dayVars
  <2>3. QED
    BY <2>1, <2>2 DEF LossInv, CappedSoFar
<1>5. CASE OpenHoldings
  <2>1. /\ phase' = "holdings" /\ todo' = Held /\ Held' = Held
        /\ UNCHANGED <<groups, row, next>>
    BY <1>5 DEF OpenHoldings, ledgerVars, Held
  <2>2. QED
    BY <2>1 DEF LossInv, Priced, CappedSoFar, Live
<1>6. CASE CloseHoldings
  <2>1. /\ phase = "holdings" /\ phase' = "entries" /\ todo' = {} /\ todo = {}
        /\ UNCHANGED <<groups, quote, row, next>>
    BY <1>6 DEF CloseHoldings, ledgerVars
  <2>2. ASSUME NEW s \in Held' \ todo', ~NoTradeToday(s)'
        PROVE  BetweenItsLines(s)'
    <3>1. BetweenItsLines(s)
      BY <2>1, <2>2 DEF LossInv, CappedSoFar, Held, NoTradeToday
    <3>2. QED
      BY <2>1, <3>1 DEF BetweenItsLines, StopLine, TargetLine, Lot, StopSet, TakeSet, Live
  <2>3. QED
    BY <2>1, <2>2 DEF LossInv, Priced, CappedSoFar, Live
<1>7. CASE StartOrder
  <2>1. /\ phase' = "ordering" /\ UNCHANGED <<groups, row, next, queue>>
        /\ Head(queue) \in DOMAIN next
    BY <1>7 DEF StartOrder, CannotEnter, ledgerVars
  <2>2. QED
    BY <2>1 DEF LossInv, Priced, CappedSoFar, Live
<1>8. CASE CollectCandidates \/ ApplyPositionLimits \/ SkipCandidate \/ CloseDay \/ Finish
  <2>1. /\ phase' \in {"limits", "buying", "overnight", "over"}
        /\ UNCHANGED <<groups, row, next>>
    BY <1>8 DEF CollectCandidates, ApplyPositionLimits, SkipCandidate, CloseDay, Finish, ledgerVars
  <2>2. QED
    BY <2>1 DEF LossInv, Priced, CappedSoFar, Live
<1>9. QED
  BY <1>1, <1>2, <1>3, <1>4, <1>5, <1>6, <1>7, <1>8 DEF Next

LEMMA LossInvHolds == Safety => []LossInv
<1>1. Init => LossInv
  <2> SUFFICES ASSUME Init PROVE LossInv
    OBVIOUS
  <2>1. groups = << >> /\ DOMAIN row = {} /\ phase = "overnight"
    BY DEF Init, LedgerInit
  <2>2. \A s \in DOMAIN next : next[s].bar \in Bars
    BY DEF Init, Upcoming
  <2>3. QED
    BY <2>1, <2>2 DEF LossInv, Priced, CappedSoFar, Live
<1>2. EngineInv /\ EngineInv' /\ LossInv /\ [Next]_vars => LossInv'
  BY LossStep
<1>3. QED
  BY <1>1, <1>2, EngineInvHolds, PTL DEF Safety

\* What a day's evaluation leaves in the account has closed strictly between
\* its stop line and its target line.
THEOREM LossesAreCapped == Spec => []LossIsCapped
<1>1. LossInv => LossIsCapped
  BY DEF LossInv, CappedSoFar, LossIsCapped, BetweenItsLines
<1>2. QED
  BY <1>1, LossInvHolds, PTL DEF Spec, Safety

-----------------------------------------------------------------------------
(* The prices of the rules. *)

\* The exit that is taken is one that is due, and none that is due comes before.
Exit(s) == CHOOSE e \in ExitsDue(s) : \A f \in ExitsDue(s) : ComesFirst(e, f)

LEMMA FirstExitIsDue ==
    ASSUME NEW s, ExitsDue(s) # {}
    PROVE  Exit(s) \in ExitsDue(s) /\ \A f \in ExitsDue(s) : Exit(s).rank <= f.rank
<1> DEFINE ranks == {e.rank : e \in ExitsDue(s)}
<1>1. \A e \in ExitsDue(s) : e.rank \in Nat
  BY DEF ExitsDue
<1>2. ranks \in SUBSET Nat /\ ranks # {}
  BY <1>1
<1>3. Min(ranks) \in ranks /\ \A r \in ranks : Min(ranks) <= r
  <2> HIDE DEF ranks
  <2>1. QED
    BY <1>2, LeastNatural
<1>4. \E e \in ExitsDue(s) : \A f \in ExitsDue(s) : ComesFirst(e, f)
  BY <1>3 DEF ComesFirst
<1>5. QED
  BY <1>4 DEF Exit, ComesFirst

\* The last entry of the log after a sale.
LEMMA SaleIsLast ==
    ASSUME EngineInv, NEW s \in Held, NEW q, NEW cent, NEW date, NEW reason,
           Sell(s, q, cent, date, reason)
    PROVE  LastTrade.symbol = s /\ LastTrade.price = SellPrice(cent) /\ LastTrade.reason = reason
<1>1. groups[Lot(s)].symbol = s
  BY TheLot DEF EngineInv
<1>2. PICK kind, net :
        log' = Append(log, Trade(Lot(s), kind, s, SellPrice(cent), q, net, date, day, reason))
  BY <1>1 DEF Sell, SellTradeGroup
<1>3. PICK e : e = Trade(Lot(s), kind, s, SellPrice(cent), q, net, date, day, reason)
  OBVIOUS
<1>4. log' = Append(log, e) /\ e.symbol = s /\ e.price = SellPrice(cent) /\ e.reason = reason
  BY <1>2, <1>3 DEF Trade
<1>5. LastTrade = e
  BY <1>4, AppendedEntry DEF EngineInv, LastTrade
<1>6. QED
  BY <1>4, <1>5

\* Only a rule trades for a rule's reason.
RuleReasons == {"gap_down_stop_loss", "stop_loss", "gap_up_take_profit", "take_profit",
                "trailing_stop"}

LEMMA RulesTradeForRules ==
    ASSUME EngineInv, [Next]_vars, Traded(RuleReasons)
    PROVE  \E s \in Held :
             /\ ExitsDue(s) # {} /\ s \in DOMAIN row
             /\ LastTrade.symbol = s
             /\ LastTrade.price = SellPrice(Exit(s).cent) /\ LastTrade.reason = Exit(s).reason
<1>1. Len(log) \in Nat
  BY DEF EngineInv, LogInOrder
<1>2. log' # log
  BY <1>1 DEF Traded
<1>3. ASSUME ForceSellDelisted \/ ForceSellEstimated PROVE FALSE
  <2>1. \E s \in Held, reason \in Forced : \E cent : SellAll(s, cent, day, reason)
    BY <1>3, ForcedSale DEF EngineInv
  <2>2. LastTrade.reason \in Forced
    BY <2>1, SaleIsLast DEF SellAll
  <2>3. QED
    BY <2>2 DEF Traded, RuleReasons, Forced
<1>4. ASSUME RaiseCash PROVE FALSE
  <2>1. \E s \in Held : \E q, cent, date : Sell(s, q, cent, date, "cash_shortage_partial_sell")
    BY <1>4 DEF RaiseCash
  <2>2. LastTrade.reason = "cash_shortage_partial_sell"
    BY <2>1, SaleIsLast
  <2>3. QED
    BY <2>2 DEF Traded, RuleReasons
<1>5. ASSUME PlaceOrder PROVE FALSE
  <2>1. \E s, price, q, cost, date : Buy(s, price, q, cost, date, day)
    BY <1>2, <1>5 DEF PlaceOrder, ledgerVars
  <2>2. PICK s, price, q, cost, date :
          log' = Append(log, Trade(nextId, "BUY", s, price, q, cost, date, day, "entry_signal"))
    BY <2>1 DEF Buy
  <2>3. PICK e : e = Trade(nextId, "BUY", s, price, q, cost, date, day, "entry_signal")
    OBVIOUS
  <2>4. log' = Append(log, e) /\ e.reason = "entry_signal"
    BY <2>2, <2>3 DEF Trade
  <2>5. LastTrade = e
    BY <2>4, AppendedEntry DEF EngineInv, LastTrade
  <2>6. QED
    BY <2>4, <2>5 DEF Traded, RuleReasons
<1>6. PICK s \in todo : SellOnRule(s) \/ SellOnSignal(s)
  BY <1>2, <1>3, <1>4, <1>5 DEF Next, vars, ledgerVars, StartDay, Finish, OpenHoldings, HoldUntraded,
     Hold, CloseHoldings, CollectCandidates, ApplyPositionLimits, SkipCandidate, StartOrder, CloseDay
<1>7. s \in Held
  BY <1>6 DEF SellOnRule, SellOnSignal, Evaluating, EngineInv, Counted, Opened
<1>8. ~SellOnSignal(s)
  <2>1. SellOnSignal(s) => LastTrade.reason = "exit_signal"
    BY <1>7, SaleIsLast DEF SellOnSignal, SellAll
  <2>2. QED
    BY <2>1 DEF Traded, RuleReasons
<1>9. ExitsDue(s) # {} /\ s \in DOMAIN row /\ SellAll(s, Exit(s).cent, day, Exit(s).reason)
  BY <1>6, <1>8 DEF SellOnRule, NoTradeToday, Exit
<1>10. QED
  BY <1>7, <1>9, SaleIsLast DEF SellAll

\* A trailing stop is filled at the line of the peak before today.
THEOREM TrailingLooksBack == Spec => TrailingUsesYesterday
<1>1. ASSUME EngineInv, [Next]_vars, Traded({"trailing_stop"})
      PROVE  LastTrade.price = SellPrice(quote[LastTrade.symbol].peak
                                           * (100 - Rules.trailing_stop.percent))
  <2>1. Traded(RuleReasons)
    BY <1>1 DEF Traded, RuleReasons
  <2>2. PICK s \in Held :
          /\ ExitsDue(s) # {} /\ LastTrade.symbol = s
          /\ LastTrade.price = SellPrice(Exit(s).cent) /\ LastTrade.reason = Exit(s).reason
    BY <1>1, <2>1, RulesTradeForRules
  <2>3. Exit(s) \in ExitsDue(s) /\ Exit(s).reason = "trailing_stop"
    BY <1>1, <2>2, FirstExitIsDue DEF Traded
  <2>4. \A e \in ExitsDue(s) : e.reason = "trailing_stop" => e.cent = TrailLine(s)
    BY DEF ExitsDue
  <2>5. QED
    BY <2>2, <2>3, <2>4 DEF TrailLine
<1>2. QED
  BY <1>1, EngineInvHolds, PTL DEF Spec, Safety, TrailingUsesYesterday

\* Rounding to a tick keeps the order of prices, across the bounds of the tick
\* table too: a bound is a multiple of the ticks on both of its sides.

\* n in whole units, rounded as TickRounding says for a sale.
Units(n, u) == IF TickRounding = "nearest" THEN RoundHalfEven(n, u) ELSE n \div u

LEMMA QuotientsInOrder ==
    ASSUME NEW a \in Int, NEW b \in Int, a <= b, NEW u \in Nat \ {0}
    PROVE  a \div u \in Int /\ b \div u \in Int /\ a \div u <= b \div u
<1> DEFINE x == a \div u
           y == b \div u
<1>1. /\ x \in Int /\ y \in Int
      /\ a % u \in 0..(u - 1) /\ b % u \in 0..(u - 1)
      /\ a = u * x + (a % u) /\ b = u * y + (b % u)
  BY Division
<1> HIDE DEF x, y
<1>2. ASSUME x > y PROVE FALSE
  <2>1. x - y - 1 \in Nat
    BY <1>1, <1>2
  <2>2. u * (x - y - 1) >= 0 /\ u * x \in Int /\ u * y \in Int
        /\ u * (x - y - 1) = u * x - u * y - u
    BY <1>1, <2>1
  <2>3. QED
    BY <1>1, <2>2
<1>3. QED
  BY <1>1, <1>2 DEF x, y

LEMMA NearestUnit ==
    ASSUME NEW n \in Int, NEW u \in Nat \ {0}
    PROVE  /\ RoundHalfEven(n, u) \in Int
           /\ 2 * n <= 2 * (u * RoundHalfEven(n, u)) + u
           /\ 2 * n >= 2 * (u * RoundHalfEven(n, u)) - u
<1> DEFINE q == n \div u
           r == n % u
<1>1. q \in Int /\ r \in 0..(u - 1) /\ n = u * q + r
  BY Division
<1>2. RoundHalfEven(n, u) = IF 2 * r < u \/ (2 * r = u /\ q % 2 = 0) THEN q ELSE q + 1
  BY DEF RoundHalfEven
<1> HIDE DEF q, r
<1>3. u * (q + 1) = u * q + u /\ u * q \in Int
  BY <1>1
<1>4. CASE RoundHalfEven(n, u) = q /\ 2 * r <= u
  BY <1>1, <1>3, <1>4
<1>5. CASE RoundHalfEven(n, u) = q + 1 /\ 2 * r >= u
  BY <1>1, <1>3, <1>5
<1>6. QED
  BY <1>1, <1>2, <1>4, <1>5

LEMMA UnitsInOrder ==
    ASSUME NEW a \in Int, NEW b \in Int, a <= b, NEW u \in Nat \ {0}
    PROVE  Units(a, u) \in Int /\ Units(b, u) \in Int /\ Units(a, u) <= Units(b, u)
<1>1. CASE TickRounding = "nearest"
  <2> DEFINE x == RoundHalfEven(a, u)
             y == RoundHalfEven(b, u)
  <2>1. /\ x \in Int /\ y \in Int
        /\ 2 * a >= 2 * (u * x) - u /\ 2 * b <= 2 * (u * y) + u
    BY NearestUnit
  <2>2. a = b => x = y
    OBVIOUS
  <2> HIDE DEF x, y
  <2>3. ASSUME x > y PROVE FALSE
    <3>1. x - y - 1 \in Nat
      BY <2>1, <2>3
    <3>2. u * (x - y - 1) >= 0 /\ u * x \in Int /\ u * y \in Int
          /\ u * (x - y - 1) = u * x - u * y - u
      BY <2>1, <3>1
    <3>3. a = b
      BY <2>1, <3>2
    <3>4. QED
      BY <2>1, <2>2, <2>3, <3>3
  <2>4. QED
    BY <1>1, <2>1, <2>3 DEF Units, x, y
<1>2. CASE TickRounding # "nearest"
  BY <1>2, QuotientsInOrder DEF Units
<1>3. QED
  BY <1>1, <1>2

LEMMA WholeUnits ==
    ASSUME NEW k \in Int, NEW u \in Nat \ {0}
    PROVE  Units(k * u, u) = k
<1>1. k * u \in Int
  OBVIOUS
<1>2. (k * u) \div u = k /\ (k * u) % u = 0
  <2> DEFINE q == (k * u) \div u
             r == (k * u) % u
  <2>1. q \in Int /\ r \in 0..(u - 1) /\ k * u = u * q + r
    BY <1>1, Division
  <2> HIDE DEF q, r
  <2>2. u * (k - q) = r
    BY <2>1
  <2>3. CASE k - q = 0
    BY <2>1, <2>2, <2>3 DEF q, r
  <2>4. CASE k - q >= 1
    <3>1. u * (k - q) >= u
      BY <2>1, <2>4
    <3>2. QED
      BY <2>1, <2>2, <3>1
  <2>5. CASE k - q <= -1
    <3>1. u * (k - q) <= 0 - u
      BY <2>1, <2>5
    <3>2. QED
      BY <2>1, <2>2, <3>1
  <2>6. QED
    BY <2>1, <2>3, <2>4, <2>5
<1>3. QED
  BY <1>2 DEF Units, RoundHalfEven

\* Between two prices with different ticks lies a bound of the tick table.
LEMMA TickBound ==
    ASSUME NEW p \in Int, NEW r \in Int, p <= r, TickSize(p) # TickSize(r)
    PROVE  \E bound \in Nat :
             /\ p < bound /\ bound <= r
             /\ bound = (bound \div TickSize(p)) * TickSize(p)
             /\ bound = (bound \div TickSize(r)) * TickSize(r)
<1> DEFINE Good(b) == /\ p < b /\ b <= r
                      /\ b = (b \div TickSize(p)) * TickSize(p)
                      /\ b = (b \div TickSize(r)) * TickSize(r)
<1>1. CASE r < 2000
  BY <1>1 DEF TickSize
<1>2. CASE r >= 2000 /\ r < 5000
  <2>1. Good(2000)
    BY <1>2 DEF TickSize
  <2>2. QED
    BY <2>1
<1>3. CASE r >= 5000 /\ r < 20000
  <2>1. Good(5000)
    BY <1>3 DEF TickSize
  <2>2. QED
    BY <2>1
<1>4. CASE r >= 20000 /\ r < 50000
  <2>1. Good(20000)
    BY <1>4 DEF TickSize
  <2>2. QED
    BY <2>1
<1>5. CASE r >= 50000 /\ r < 200000
  <2>1. Good(50000)
    BY <1>5 DEF TickSize
  <2>2. QED
    BY <2>1
<1>6. CASE r >= 200000 /\ r < 500000
  <2>1. Good(200000)
    BY <1>6 DEF TickSize
  <2>2. QED
    BY <2>1
<1>7. CASE r >= 500000
  <2>1. Good(500000)
    BY <1>7 DEF TickSize
  <2>2. QED
    BY <2>1
<1>8. QED
  BY <1>1, <1>2, <1>3, <1>4, <1>5, <1>6, <1>7

LEMMA SellPricesInOrder ==
    ASSUME NEW a \in Int, NEW b \in Int, a <= b
    PROVE  SellPrice(a) \in Int /\ SellPrice(b) \in Int /\ SellPrice(a) <= SellPrice(b)
<1> DEFINE n == a * (1000 - Slippage)
           m == b * (1000 - Slippage)
           p == n \div 100000
           r == m \div 100000
           s == TickSize(p)
           t == TickSize(r)
           x == Units(n, 100000 * s)
           y == Units(m, 100000 * t)
<1>1. n \in Int /\ m \in Int /\ n <= m
  <2>1. 1000 - Slippage \in Nat \ {0} /\ b - a \in Nat
    BY RatesAssumption
  <2>2. (b - a) * (1000 - Slippage) >= 0
    BY <2>1
  <2>3. QED
    BY <2>1, <2>2
<1>2. SellPrice(a) = s * x /\ SellPrice(b) = t * y
  BY DEF SellPrice, RoundToTick, Units
<1>3. s \in Nat \ {0} /\ t \in Nat \ {0}
  BY DEF TickSize
<1> HIDE DEF n, m
<1>4. p \in Int /\ r \in Int /\ p <= r
  BY <1>1, QuotientsInOrder
<1>5. n < 100000 * p + 100000 /\ m >= 100000 * r
  BY <1>1
<1>6. s # t => \E bound \in Nat :
                  /\ p < bound /\ bound <= r
                  /\ bound = (bound \div s) * s /\ bound = (bound \div t) * t
  BY <1>4, TickBound
<1> HIDE DEF p, r, s, t
<1>7. 100000 * s \in Nat \ {0} /\ 100000 * t \in Nat \ {0}
  BY <1>3
<1>8. x \in Int /\ y \in Int
  BY <1>1, <1>7, UnitsInOrder
<1>9. CASE s = t
  <2>1. x <= y
    BY <1>1, <1>7, <1>9, UnitsInOrder
  <2> HIDE DEF x, y
  <2>2. s * (y - x) >= 0
    BY <1>3, <1>8, <2>1
  <2>3. QED
    BY <1>2, <1>3, <1>8, <1>9, <2>2
<1>10. CASE s # t
  <2>1. PICK bound \in Nat : /\ p < bound /\ bound <= r
                             /\ bound = (bound \div s) * s /\ bound = (bound \div t) * t
    BY <1>6, <1>10
  <2> DEFINE j == bound \div s
             k == bound \div t
  <2>2. j \in Int /\ k \in Int /\ bound = j * s /\ bound = k * t
    BY <1>3, <2>1
  <2> HIDE DEF j, k
  <2>3. n <= 100000 * bound /\ 100000 * bound <= m
    BY <1>1, <1>4, <1>5, <2>1
  <2>4. j * (100000 * s) = 100000 * bound /\ k * (100000 * t) = 100000 * bound
    BY <1>3, <2>2
  <2>5. x <= j
    <3> DEFINE u == 100000 * s
    <3>1. u \in Nat \ {0} /\ j * u \in Int /\ n <= j * u
      BY <1>1, <1>7, <2>2, <2>3, <2>4
    <3> HIDE DEF u
    <3>2. Units(j * u, u) = j /\ Units(n, u) <= Units(j * u, u)
      BY <1>1, <2>2, <3>1, UnitsInOrder, WholeUnits
    <3>3. QED
      BY <3>2 DEF u
  <2>6. k <= y
    <3> DEFINE u == 100000 * t
    <3>1. u \in Nat \ {0} /\ k * u \in Int /\ k * u <= m
      BY <1>1, <1>7, <2>2, <2>3, <2>4
    <3> HIDE DEF u
    <3>2. Units(k * u, u) = k /\ Units(k * u, u) <= Units(m, u)
      BY <1>1, <2>2, <3>1, UnitsInOrder, WholeUnits
    <3>3. QED
      BY <3>2 DEF u
  <2> HIDE DEF x, y
  <2>7. s * (j - x) >= 0 /\ t * (y - k) >= 0
    BY <1>3, <1>8, <2>2, <2>5, <2>6
  <2>8. s * x <= bound /\ bound <= t * y /\ s * x \in Int /\ t * y \in Int
    BY <1>3, <1>8, <2>2, <2>7
  <2>9. QED
    BY <1>2, <2>1, <2>8
<1>11. QED
  BY <1>9, <1>10

\* A stop or a target that is due is due at a price of the day: a gap over the
\* line has come first.
LEMMA ExitsAreWithinTheDay ==
    ASSUME EngineInv, Priced, NEW s \in Held, s \in DOMAIN row, ExitsDue(s) # {},
           Exit(s).reason \in {"gap_down_stop_loss", "stop_loss", "gap_up_take_profit", "take_profit"}
    PROVE  Exit(s).cent \in (100 * row[s].low)..(100 * row[s].high)
<1> DEFINE bar == row[s]
           e == Exit(s)
<1>1. /\ bar.low \in Int /\ bar.high \in Int /\ bar.open \in Int /\ bar.close \in Int
      /\ bar.low <= bar.close /\ bar.close <= bar.high
      /\ bar.low <= bar.open /\ bar.open <= bar.high
  BY BarsAssumption DEF Priced
<1>2. StopLine(s) \in Int /\ TargetLine(s) \in Int
  <2>1. groups[Lot(s)].entryPrice \in Int
    BY TheLot DEF EngineInv, Priced, LotType
  <2>2. QED
    BY <2>1, ConfigAssumption DEF StopLine, TargetLine
<1>3. e \in ExitsDue(s) /\ \A f \in ExitsDue(s) : e.rank <= f.rank
  BY FirstExitIsDue
<1>4. /\ e.reason \in {"gap_down_stop_loss", "gap_up_take_profit"} => e.cent = 100 * bar.open
      /\ e.reason = "stop_loss" =>
           /\ e.rank = 3 /\ StopSet /\ e.cent = StopLine(s)
           /\ Lowest(bar, Rules.stop_loss.on) <= StopLine(s)
      /\ e.reason = "take_profit" =>
           /\ e.rank = 4 /\ TakeSet /\ e.cent = TargetLine(s)
           /\ Highest(bar, Rules.take_profit.on) >= TargetLine(s)
  <2> HIDE DEF e
  <2>1. QED
    BY <1>3 DEF ExitsDue
<1>5. StopSet /\ 100 * bar.open <= StopLine(s) => e.rank <= 1
  <2> SUFFICES ASSUME StopSet, 100 * bar.open <= StopLine(s) PROVE e.rank <= 1
    OBVIOUS
  <2>1. [rank |-> 1, cent |-> 100 * bar.open, reason |-> "gap_down_stop_loss"] \in ExitsDue(s)
    BY DEF ExitsDue
  <2>2. QED
    BY <1>3, <2>1
<1>6. TakeSet /\ 100 * bar.open >= TargetLine(s) => e.rank <= 2
  <2> SUFFICES ASSUME TakeSet, 100 * bar.open >= TargetLine(s) PROVE e.rank <= 2
    OBVIOUS
  <2>1. [rank |-> 2, cent |-> 100 * bar.open, reason |-> "gap_up_take_profit"] \in ExitsDue(s)
    BY DEF ExitsDue
  <2>2. QED
    BY <1>3, <2>1
<1>7. /\ 100 * bar.low <= Lowest(bar, Rules.stop_loss.on) /\ Lowest(bar, Rules.stop_loss.on) \in Int
      /\ Highest(bar, Rules.take_profit.on) <= 100 * bar.high
      /\ Highest(bar, Rules.take_profit.on) \in Int
  BY <1>1 DEF Lowest, Highest
<1>8. e.reason \in {"gap_down_stop_loss", "stop_loss", "gap_up_take_profit", "take_profit"}
  OBVIOUS
<1> HIDE DEF bar, e
<1>9. e.cent \in (100 * bar.low)..(100 * bar.high)
  <2>1. CASE e.reason \in {"gap_down_stop_loss", "gap_up_take_profit"}
    BY <1>1, <1>4, <2>1
  <2>2. CASE e.reason = "stop_loss"
    BY <1>1, <1>2, <1>4, <1>5, <1>7, <2>2
  <2>3. CASE e.reason = "take_profit"
    BY <1>1, <1>2, <1>4, <1>6, <1>7, <2>3
  <2>4. QED
    BY <1>8, <2>1, <2>2, <2>3
<1>10. QED
  BY <1>9 DEF bar, e

\* Stop and target sales are filled at prices the day really had.
THEOREM FillsAreOfTheDay == Spec => FillsWithinTheDay
<1> DEFINE Reasons == {"gap_down_stop_loss", "stop_loss", "gap_up_take_profit", "take_profit"}
<1>1. ASSUME EngineInv, LossInv, [Next]_vars, Traded(Reasons)
      PROVE  /\ LastTrade.price >= SellPrice(100 * row[LastTrade.symbol].low)
             /\ LastTrade.price <= SellPrice(100 * row[LastTrade.symbol].high)
  <2>1. Traded(RuleReasons) /\ LastTrade.reason \in Reasons
    BY <1>1 DEF Traded, RuleReasons
  <2>2. PICK s \in Held :
          /\ ExitsDue(s) # {} /\ s \in DOMAIN row /\ LastTrade.symbol = s
          /\ LastTrade.price = SellPrice(Exit(s).cent) /\ LastTrade.reason = Exit(s).reason
    BY <1>1, <2>1, RulesTradeForRules
  <2>3. Exit(s).cent \in (100 * row[s].low)..(100 * row[s].high)
    BY <1>1, <2>1, <2>2, ExitsAreWithinTheDay DEF LossInv
  <2>4. 100 * row[s].low \in Int /\ 100 * row[s].high \in Int
    BY <1>1, <2>2, BarsAssumption DEF LossInv, Priced
  <2>5. /\ SellPrice(100 * row[s].low) <= SellPrice(Exit(s).cent)
        /\ SellPrice(Exit(s).cent) <= SellPrice(100 * row[s].high)
        /\ SellPrice(100 * row[s].low) \in Int /\ SellPrice(Exit(s).cent) \in Int
    BY <2>3, <2>4, SellPricesInOrder
  <2>6. QED
    BY <2>2, <2>5
<1>2. QED
  BY <1>1, EngineInvHolds, LossInvHolds, PTL DEF Spec, Safety, FillsWithinTheDay

-----------------------------------------------------------------------------
(* The limits of a day: what is counted when the queue is cut, and added up in
   spent while it is worked off, is what the log says of the day. *)

Nets       == [i \in DOMAIN log |-> log[i].net]
PaidOn(d)  == Total(Nets, BuysOf(d))
Unbought   == phase \in {"delisting", "holdings", "entries", "limits"}

DayWithin(d) ==
    /\ Config.maxDailyEntries > 0 => Cardinality(BuysOf(d)) <= Config.maxDailyEntries
    /\ Config.dailyBuyBudget > 0 => PaidOn(d) <= Config.dailyBuyBudget

LimitsInv ==
    /\ \A i \in DOMAIN log : log[i].kind = "BUY" => log[i].net \in Int
    /\ \A d \in 1..day : DayWithin(d)
    /\ Unbought => BuysOf(day) = {}
    /\ Ordered => /\ PaidOn(day) = spent
                  /\ Config.maxDailyEntries > 0 =>
                       Cardinality(BuysOf(day)) + Len(queue) <= Config.maxDailyEntries

\* The buys of a day are finitely many, and their total is a number.
LEMMA BuysCount ==
    ASSUME EngineInv, LimitsInv, NEW d
    PROVE  /\ IsFiniteSet(BuysOf(d)) /\ Cardinality(BuysOf(d)) \in Nat
           /\ PaidOn(d) \in Int
           /\ BuysOf(d) \subseteq DOMAIN log /\ DOMAIN log = 1..Len(log) /\ Len(log) \in Nat
<1>1. DOMAIN log = 1..Len(log) /\ Len(log) \in Nat
  BY LenProperties DEF EngineInv, LogInOrder
<1>2. BuysOf(d) \subseteq DOMAIN log
  BY DEF BuysOf
<1>3. IsFiniteSet(BuysOf(d)) /\ Cardinality(BuysOf(d)) \in Nat
  <2>1. IsFiniteSet(1..Len(log))
    BY <1>1, FS_Interval
  <2>2. QED
    BY <1>1, <1>2, <2>1, FS_Subset, FS_CardinalityType
<1>4. \A i \in BuysOf(d) : Nets[i] \in Int
  BY DEF BuysOf, Nets, LimitsInv
<1>5. PaidOn(d) \in Int
  BY <1>3, <1>4, TotalTyped DEF PaidOn
<1>6. QED
  BY <1>1, <1>2, <1>3, <1>5

\* A step that buys nothing leaves every day's buys as they are.
LEMMA SameBuys ==
    ASSUME EngineInv, LimitsInv,
           log' = log \/ \E e : log' = Append(log, e) /\ e.kind # "BUY"
    PROVE  /\ \A i \in DOMAIN log' : log'[i].kind = "BUY" => log'[i].net \in Int
           /\ \A d : BuysOf(d)' = BuysOf(d) /\ PaidOn(d)' = PaidOn(d)
<1>1. CASE log' = log
  BY <1>1 DEF LimitsInv, BuysOf, PaidOn, Nets
<1>2. CASE \E e : log' = Append(log, e) /\ e.kind # "BUY"
  <2>1. PICK e : log' = Append(log, e) /\ e.kind # "BUY"
    BY <1>2
  <2>2. /\ Len(log) \in Nat /\ DOMAIN log = 1..Len(log)
        /\ DOMAIN log' = 1..(Len(log) + 1)
        /\ log'[Len(log) + 1] = e
        /\ \A i \in DOMAIN log : log'[i] = log[i]
    BY <2>1, AppendedEntry DEF EngineInv
  <2>3. \A i \in DOMAIN log' : i \in DOMAIN log \/ i = Len(log) + 1
    BY <2>2
  <2>4. \A i \in DOMAIN log : i \in DOMAIN log'
    BY <2>2
  <2>5. \A i \in DOMAIN log' : log'[i].kind = "BUY" => log'[i].net \in Int
    BY <2>1, <2>2, <2>3 DEF LimitsInv
  <2>6. ASSUME NEW d PROVE BuysOf(d)' = BuysOf(d) /\ PaidOn(d)' = PaidOn(d)
    <3>1. BuysOf(d)' = BuysOf(d)
      BY <2>1, <2>2, <2>3, <2>4 DEF BuysOf
    <3>2. \A i \in BuysOf(d) : Nets[i] = Nets'[i]
      BY <2>2, <2>4 DEF Nets, BuysOf
    <3> DEFINE f == Nets
               g == Nets'
               S == BuysOf(d)
    <3>3. IsFiniteSet(S) /\ \A i \in S : f[i] = g[i]
      BY <3>2, BuysCount
    <3> HIDE DEF f, g, S
    <3>4. Total(f, S) = Total(g, S)
      BY <3>3, TotalOfEqual
    <3>5. QED
      BY <3>1, <3>4 DEF f, g, S, PaidOn
  <2>7. QED
    BY <2>5, <2>6
<1>3. QED
  BY <1>1, <1>2

\* Such a step within a day keeps the limits if it lets the queue be.
LEMMA LimitsAlone ==
    ASSUME EngineInv, EngineInv', LimitsInv, day' = day,
           log' = log \/ \E e : log' = Append(log, e) /\ e.kind # "BUY",
           Unbought' => Unbought,
           Ordered' => Ordered /\ spent' = spent /\ Len(queue') <= Len(queue)
    PROVE  LimitsInv'
<1>1. /\ \A i \in DOMAIN log' : log'[i].kind = "BUY" => log'[i].net \in Int
      /\ \A d : BuysOf(d)' = BuysOf(d) /\ PaidOn(d)' = PaidOn(d)
  BY SameBuys
<1>2. \A d \in 1..day' : DayWithin(d)'
  BY <1>1 DEF LimitsInv, DayWithin
<1>3. Unbought' => BuysOf(day)' = {}
  BY <1>1 DEF LimitsInv
<1>4. BuysOf(day)' = BuysOf(day) /\ PaidOn(day)' = PaidOn(day)
  <2>1. PICK d : d = day
    OBVIOUS
  <2>2. BuysOf(d)' = BuysOf(d) /\ PaidOn(d)' = PaidOn(d)
    BY <1>1
  <2>3. QED
    BY <2>1, <2>2 DEF BuysOf, PaidOn
<1>5. ASSUME Ordered', Config.maxDailyEntries > 0
      PROVE  Cardinality(BuysOf(day)') + Len(queue') <= Config.maxDailyEntries
  <2>1. /\ Len(queue) \in Nat /\ Len(queue') \in Nat /\ Cardinality(BuysOf(day)) \in Nat
        /\ Config.maxDailyEntries \in Nat
    BY BuysCount, ConfigAssumption DEF EngineInv, Candidates
  <2>2. Cardinality(BuysOf(day)) + Len(queue) <= Config.maxDailyEntries
    BY <1>5 DEF LimitsInv
  <2>3. QED
    BY <1>4, <1>5, <2>1, <2>2
<1>6. QED
  BY <1>1, <1>2, <1>3, <1>4, <1>5 DEF LimitsInv

\* Nothing is bought yet on a day that begins, or on those that were passed over.
LEMMA NewDayIsWithin ==
    ASSUME EngineInv, EngineInv', LimitsInv, StartDay
    PROVE  LimitsInv'
<1>1. log' = log /\ phase' = "delisting"
  BY DEF StartDay, ledgerVars
<1>2. /\ \A i \in DOMAIN log' : log'[i].kind = "BUY" => log'[i].net \in Int
      /\ \A d : BuysOf(d)' = BuysOf(d) /\ PaidOn(d)' = PaidOn(d)
  BY <1>1, SameBuys
<1>3. day' > day /\ day \in Nat /\ day' \in Nat
  <2> DEFINE dates == {next[s].date : s \in DOMAIN next}
  <2>1. dates \in SUBSET Nat /\ dates # {} /\ day' = Min(dates) /\ \A d \in dates : d > day
    BY DEF EngineInv, Calendar, StartDay
  <2> HIDE DEF dates
  <2>2. Min(dates) \in dates
    BY <2>1, LeastNatural
  <2>3. QED
    BY <2>1, <2>2 DEF EngineInv, Calendar
<1>4. ASSUME NEW d \in Nat, d > day PROVE BuysOf(d) = {}
  BY <1>4 DEF BuysOf, EngineInv, LogInOrder, Calendar
<1>5. ASSUME NEW d \in 1..day' PROVE DayWithin(d)'
  <2>1. CASE d <= day
    <3>1. d \in 1..day
      BY <1>3, <2>1
    <3>2. DayWithin(d)
      BY <3>1 DEF LimitsInv
    <3>3. QED
      BY <1>2, <3>2 DEF DayWithin
  <2>2. CASE d > day
    <3>1. BuysOf(d) = {}
      BY <1>3, <1>4, <2>2
    <3>2. PaidOn(d) = 0 /\ Cardinality(BuysOf(d)) = 0
      BY <3>1, TotalOfNone, FS_EmptySet DEF PaidOn
    <3>3. QED
      BY <1>2, <3>2, ConfigAssumption DEF DayWithin
  <2>3. QED
    BY <1>3, <2>1, <2>2
<1>6. BuysOf(day)' = {}
  <2>1. PICK d : d = day'
    OBVIOUS
  <2>2. BuysOf(d) = {} /\ BuysOf(d)' = BuysOf(d)
    BY <1>2, <1>3, <1>4, <2>1
  <2>3. QED
    BY <2>1, <2>2 DEF BuysOf
<1>7. QED
  BY <1>1, <1>2, <1>5, <1>6 DEF LimitsInv, Unbought, Ordered

\* The queue is cut to the entries of the day, and nothing is spent.
LEMMA CutIsWithin ==
    ASSUME EngineInv, EngineInv', LimitsInv, ApplyPositionLimits
    PROVE  LimitsInv'
<1>1. /\ phase = "limits" /\ phase' = "buying" /\ spent' = 0
      /\ UNCHANGED <<log, day>>
  BY DEF ApplyPositionLimits, ledgerVars
<1>2. BuysOf(day) = {}
  BY <1>1 DEF LimitsInv, Unbought
<1>3. PaidOn(day) = 0 /\ Cardinality(BuysOf(day)) = 0
  BY <1>2, TotalOfNone, FS_EmptySet DEF PaidOn
<1>4. Config.maxDailyEntries > 0 => Len(queue') \in Nat /\ Len(queue') <= Config.maxDailyEntries
  BY Cutoff
<1>5. BuysOf(day)' = BuysOf(day) /\ PaidOn(day)' = PaidOn(day) /\ \A d : DayWithin(d)' <=> DayWithin(d)
  BY <1>1 DEF BuysOf, PaidOn, Nets, DayWithin
<1>6. QED
  BY <1>1, <1>3, <1>4, <1>5 DEF LimitsInv, Unbought, Ordered

\* The cost of an order is a number.
\* One buy more: it was counted when the queue was cut, and fits what is left of
\* the budget.
LEMMA BuyIsWithin ==
    ASSUME EngineInv, EngineInv', LimitsInv, phase = "ordering", phase' = "buying",
           day' = day, queue' = Tail(queue), openHeld' = openHeld,
           NEW cost \in Int, ~OverBudget(cost), spent' = spent + cost,
           \E e : log' = Append(log, e) /\ e.kind = "BUY" /\ e.signal = day /\ e.net = cost
    PROVE  LimitsInv'
<1>1. PICK e : log' = Append(log, e) /\ e.kind = "BUY" /\ e.signal = day /\ e.net = cost
  OBVIOUS
<1> DEFINE k == Len(log) + 1
<1>2. /\ Len(log) \in Nat /\ DOMAIN log = 1..Len(log)
      /\ DOMAIN log' = 1..k /\ log'[k] = e
      /\ \A i \in DOMAIN log : log'[i] = log[i]
  BY <1>1, AppendedEntry DEF EngineInv
<1>3. /\ \A i \in DOMAIN log' : i \in DOMAIN log \/ i = k
      /\ \A i \in DOMAIN log : i \in DOMAIN log'
      /\ k \notin DOMAIN log /\ k \in DOMAIN log'
  BY <1>2
<1> HIDE DEF k
<1>4. /\ \A d : d # day => BuysOf(d)' = BuysOf(d)
      /\ BuysOf(day)' = BuysOf(day) \cup {k} /\ k \notin BuysOf(day)
  <2>1. ASSUME NEW d, d # day PROVE BuysOf(d)' = BuysOf(d)
    BY <1>1, <1>2, <1>3, <2>1 DEF BuysOf
  <2>2. BuysOf(day)' = BuysOf(day) \cup {k}
    BY <1>1, <1>2, <1>3 DEF BuysOf
  <2>3. k \notin BuysOf(day)
    BY <1>3 DEF BuysOf
  <2>4. QED
    BY <2>1, <2>2, <2>3
<1>5. \A i \in DOMAIN log' : log'[i].kind = "BUY" => log'[i].net \in Int
  BY <1>1, <1>2, <1>3 DEF LimitsInv
<1>6. /\ \A i \in DOMAIN log : Nets[i] = Nets'[i]
      /\ Nets'[k] = cost
  BY <1>1, <1>2, <1>3 DEF Nets
<1>7. ASSUME NEW d, d # day PROVE PaidOn(d)' = PaidOn(d)
  <2> DEFINE f == Nets
             g == Nets'
             S == BuysOf(d)
  <2>1. IsFiniteSet(S) /\ \A i \in S : f[i] = g[i]
    BY <1>6, BuysCount
  <2> HIDE DEF f, g, S
  <2>2. Total(f, S) = Total(g, S)
    BY <2>1, TotalOfEqual
  <2>3. QED
    BY <1>4, <1>7, <2>2 DEF f, g, S, PaidOn
<1>8. /\ PaidOn(day)' = PaidOn(day) + cost
      /\ Cardinality(BuysOf(day)') = Cardinality(BuysOf(day)) + 1
  <2> DEFINE f == Nets
             g == Nets'
             S == BuysOf(day)
  <2>1. /\ IsFiniteSet(S) /\ k \notin S /\ \A i \in S : f[i] = g[i]
        /\ \A i \in S \cup {k} : g[i] \in Int
        /\ g[k] = cost
    <3>1. \A i \in BuysOf(day) : Nets[i] \in Int
      BY DEF BuysOf, Nets, LimitsInv
    <3>2. \A i \in BuysOf(day) : i \in DOMAIN log
      BY DEF BuysOf
    <3>3. IsFiniteSet(BuysOf(day))
      BY BuysCount
    <3>4. QED
      BY <1>4, <1>6, <3>1, <3>2, <3>3
  <2> HIDE DEF f, g, S
  <2>2. Total(g, S \cup {k}) = Total(f, S) + cost
    BY <2>1, TotalOfNewMember
  <2>3. Cardinality(S \cup {k}) = Cardinality(S) + 1
    BY <2>1, FS_AddElement
  <2>4. PaidOn(day)' = Total(g, S \cup {k}) /\ PaidOn(day) = Total(f, S)
    BY <1>4 DEF PaidOn, f, g, S
  <2>5. QED
    BY <1>4, <2>2, <2>3, <2>4 DEF S
<1>9. /\ PaidOn(day) \in Int /\ Cardinality(BuysOf(day)) \in Nat
      /\ Config.dailyBuyBudget \in Nat /\ Config.maxDailyEntries \in Nat
  BY BuysCount, ConfigAssumption
<1>10. PaidOn(day) = spent
       /\ (Config.maxDailyEntries > 0 =>
             Cardinality(BuysOf(day)) + Len(queue) <= Config.maxDailyEntries)
  BY DEF LimitsInv, Ordered
<1>11. Len(queue) \in Nat /\ Len(queue) > 0 /\ Len(queue') = Len(queue) - 1
  <2>1. queue # << >>
    BY DEF EngineInv, Counted
  <2>2. Len(queue) \in Nat /\ Len(queue') = Len(queue) - 1 /\ 1 \in DOMAIN queue
    BY <2>1, TailOfQueue DEF EngineInv
  <2>3. DOMAIN queue = 1..Len(queue)
    BY LenProperties DEF EngineInv, Candidates
  <2>4. QED
    BY <2>2, <2>3
<1>12. Config.dailyBuyBudget > 0 => PaidOn(day)' <= Config.dailyBuyBudget
  BY <1>8, <1>9, <1>10 DEF OverBudget
<1>13. Config.maxDailyEntries > 0 =>
         /\ Cardinality(BuysOf(day)') + Len(queue') <= Config.maxDailyEntries
         /\ Cardinality(BuysOf(day)') <= Config.maxDailyEntries
  BY <1>8, <1>9, <1>10, <1>11
<1>14. PaidOn(day)' = spent'
  BY <1>8, <1>10
<1>15. ASSUME NEW d \in 1..day' PROVE DayWithin(d)'
  <2>1. CASE d = day
    BY <1>12, <1>13, <2>1 DEF DayWithin, PaidOn, BuysOf
  <2>2. CASE d # day
    <3>1. DayWithin(d)
      BY <1>15 DEF LimitsInv
    <3>2. QED
      BY <1>4, <1>7, <2>2, <3>1 DEF DayWithin
  <2>3. QED
    BY <2>1, <2>2
<1>16. QED
  BY <1>5, <1>13, <1>14, <1>15 DEF LimitsInv, Unbought, Ordered

LEMMA LimitsStep ==
    EngineInv /\ EngineInv' /\ LossInv /\ LimitsInv /\ [Next]_vars => LimitsInv'
<1> SUFFICES ASSUME EngineInv, EngineInv', LossInv, LimitsInv, [Next]_vars PROVE LimitsInv'
  OBVIOUS
<1>1. Len(queue) \in Nat /\ Len(queue) <= Len(queue)
  BY DEF EngineInv, Candidates
<1>2. \A s, reason : SaleOf(s, reason) => \E e : log' = Append(log, e) /\ e.kind # "BUY"
  BY DEF SaleOf
<1>3. CASE UNCHANGED vars
  <2>1. UNCHANGED <<log, phase, day, queue, spent>>
    BY <1>3 DEF vars, ledgerVars, dayVars
  <2>2. QED
    BY <1>1, <2>1, LimitsAlone DEF Unbought, Ordered
<1>4. CASE \E s \in todo : HoldUntraded(s) \/ SellOnRule(s) \/ SellOnSignal(s) \/ Hold(s)
  <2>1. PICK s \in todo : HoldUntraded(s) \/ SellOnRule(s) \/ SellOnSignal(s) \/ Hold(s)
    BY <1>4
  <2>2. phase = "holdings" /\ UNCHANGED <<phase, day, queue, spent>>
    BY <2>1 DEF HoldUntraded, SellOnRule, SellOnSignal, Hold, Evaluating
  <2>3. log' = log \/ \E cent, date, reason : SellAll(s, cent, date, reason)
    BY <2>1 DEF HoldUntraded, SellOnRule, SellOnSignal, Hold, ledgerVars
  <2>4. s \in Held
    BY <2>2 DEF EngineInv, Counted, Opened
  <2>5. log' = log \/ \E e : log' = Append(log, e) /\ e.kind # "BUY"
    BY <1>2, <2>3, <2>4, SellLeaves DEF EngineInv, SellAll
  <2>6. QED
    BY <1>1, <2>2, <2>5, LimitsAlone DEF Unbought, Ordered
<1>5. CASE ForceSellDelisted \/ ForceSellEstimated
  <2>1. phase = "delisting" /\ UNCHANGED <<phase, day, queue, spent>>
    BY <1>5 DEF ForceSellDelisted, ForceSellEstimated, dayVars
  <2>2. PICK s \in Held : \E cent, reason : SellAll(s, cent, day, reason)
    BY <1>5, ForcedSale DEF EngineInv
  <2>3. \E e : log' = Append(log, e) /\ e.kind # "BUY"
    BY <1>2, <2>2, SellLeaves DEF EngineInv, SellAll
  <2>4. QED
    BY <1>1, <2>1, <2>3, LimitsAlone DEF Unbought, Ordered
<1>6. CASE OpenHoldings \/ CloseHoldings \/ CollectCandidates \/ Finish \/ CloseDay
  <2>1. /\ UNCHANGED <<log, day>>
        /\ ~ Ordered'
        /\ phase' \in {"overnight", "over"} \/ Unbought
    BY <1>6 DEF OpenHoldings, CloseHoldings, CollectCandidates, Finish, CloseDay, ledgerVars,
                Ordered, Unbought
  <2>2. Unbought' => Unbought
    BY <2>1 DEF Unbought
  <2>3. QED
    BY <2>1, <2>2, LimitsAlone
<1>7. CASE SkipCandidate
  <2>1. /\ phase = "buying" /\ queue # << >> /\ queue' = Tail(queue)
        /\ UNCHANGED <<log, phase, day, openHeld, spent>>
    BY <1>7 DEF SkipCandidate, ledgerVars
  <2>2. Len(queue') = Len(queue) - 1
    BY <2>1, TailOfQueue DEF EngineInv
  <2>3. Len(queue') <= Len(queue)
    BY <1>1, <2>2
  <2>4. QED
    BY <2>1, <2>3, LimitsAlone DEF Unbought, Ordered
<1>8. CASE StartOrder
  <2>1. /\ phase = "buying" /\ phase' = "ordering"
        /\ UNCHANGED <<log, day, queue, spent>>
    BY <1>8 DEF StartOrder, ledgerVars
  <2>2. QED
    BY <1>1, <2>1, LimitsAlone DEF Unbought, Ordered
<1>9. CASE RaiseCash
  <2>1. /\ phase = "ordering" /\ UNCHANGED <<phase, day, queue, spent>>
        /\ \E s \in Held : \E q, cent, date, reason : Sell(s, q, cent, date, reason)
    BY <1>9 DEF RaiseCash
  <2>2. \E e : log' = Append(log, e) /\ e.kind # "BUY"
    BY <1>2, <2>1, SellLeaves DEF EngineInv
  <2>3. QED
    BY <1>1, <2>1, <2>2, LimitsAlone DEF Unbought, Ordered
<1>10. CASE PlaceOrder
  <2> DEFINE s     == Head(queue)
             price == EntryPrice(s)
             q     == SharesFor(price)
             cost  == BuyCost(price, q)
  <2>1. /\ phase = "ordering" /\ phase' = "buying" /\ queue' = Tail(queue)
        /\ UNCHANGED <<day, openHeld>>
        /\ \/ log' = log /\ spent' = spent
           \/ /\ ~OverBudget(cost) /\ spent' = spent + cost
              /\ Buy(s, price, q, cost, next[s].date, day)
    BY <1>10 DEF PlaceOrder, ledgerVars
  <2>2. queue # << >>
    BY <2>1 DEF EngineInv, Counted
  <2>3. CASE log' = log /\ spent' = spent
    <3>1. Len(queue') = Len(queue) - 1
      BY <2>1, <2>2, TailOfQueue DEF EngineInv
    <3>2. Len(queue') <= Len(queue)
      BY <1>1, <3>1
    <3>3. QED
      BY <2>1, <2>3, <3>2, LimitsAlone DEF Unbought, Ordered
  <2>4. CASE /\ ~OverBudget(cost) /\ spent' = spent + cost
             /\ Buy(s, price, q, cost, next[s].date, day)
    <3>1. next[s].bar.open \in Int
      <4>1. next[s].bar \in Bars
        BY <2>1 DEF LossInv, Priced
      <4>2. QED
        BY <4>1, BarsAssumption
    <3>2. price \in Int
      BY <3>1, BuyPriceIsANumber DEF EntryPrice
    <3> HIDE DEF s, price
    <3>3. q \in Int
      BY <2>4 DEF Buy
    <3> HIDE DEF q
    <3>4. cost \in Int
      BY <3>2, <3>3, BuyCostIsANumber
    <3>5. \E e : log' = Append(log, e) /\ e.kind = "BUY" /\ e.signal = day /\ e.net = cost
      BY <2>4 DEF Buy, Trade
    <3> HIDE DEF cost
    <3>6. QED
      BY <2>1, <2>4, <3>4, <3>5, BuyIsWithin
  <2>5. QED
    BY <2>1, <2>3, <2>4
<1>11. QED
  BY <1>3, <1>4, <1>5, <1>6, <1>7, <1>8, <1>9, <1>10, NewDayIsWithin, CutIsWithin DEF Next

LEMMA LimitsInvHolds == Safety => []LimitsInv
<1>1. Init => LimitsInv
  <2> SUFFICES ASSUME Init PROVE LimitsInv
    OBVIOUS
  <2>1. log = << >> /\ day = 0 /\ phase = "overnight"
    BY DEF Init, LedgerInit
  <2>2. QED
    BY <2>1 DEF LimitsInv, Unbought, Ordered
<1>2. EngineInv /\ EngineInv' /\ LossInv /\ LimitsInv /\ [Next]_vars => LimitsInv'
  BY LimitsStep
<1>3. QED
  BY <1>1, <1>2, EngineInvHolds, LossInvHolds, PTL DEF Safety

\* What the log adds up to, and the fold that adds it up.
LEMMA PaidOnIsTheFold ==
    ASSUME NEW d, IsFiniteSet(BuysOf(d))
    PROVE  MapThenSumSet(LAMBDA i : log[i].net, BuysOf(d)) = PaidOn(d)
<1> DEFINE D == BuysOf(d)
           F(it) == [S \in SUBSET D |->
              IF S = {} THEN 0
              ELSE LET x == CHOOSE x \in S : TRUE IN log[x].net + it[S \ {x}]]
           sum == CHOOSE it : it = F(it)
<1>1. ASSUME NEW g PROVE Adds(g, Nets, D) <=> g = F(g)
  <2> DEFINE G == [S \in SUBSET D |-> IF S = {} THEN 0 ELSE Nets[Pick(S)] + g[S \ {Pick(S)}]]
  <2>1. ASSUME NEW S \in SUBSET D PROVE F(g)[S] = G[S]
    <3>1. S # {} => Pick(S) \in DOMAIN log /\ Pick(S) = CHOOSE x \in S : TRUE
      BY Picked DEF Pick, BuysOf
    <3>2. QED
      BY <3>1 DEF Nets
  <2>2. F(g) = G
    BY <2>1
  <2>3. QED
    BY <2>2 DEF Adds
<1>2. PICK g : Adds(g, Nets, D)
  BY AddsExists
<1>3. sum = F(sum)
  <2> HIDE DEF F
  <2>1. QED
    BY <1>1, <1>2
<1>4. Adds(sum, Nets, D)
  BY <1>1, <1>3
<1>5. sum[D] = Total(Nets, D)
  <2> HIDE DEF sum, D
  <2>1. QED
    BY <1>4, TotalIs DEF D
<1>6. MapThenSumSet(LAMBDA i : log[i].net, D) = sum[D]
  BY DEF MapThenSumSet, MapThenFoldSet
<1>7. QED
  BY <1>5, <1>6 DEF PaidOn

\* The buys of one day stay within max_daily_entries and, costs included, within
\* daily_buy_budget.
THEOREM DaysStayWithinLimits == Spec => []DailyLimits
<1>1. ASSUME EngineInv, LimitsInv PROVE DailyLimits
  <2> SUFFICES ASSUME NEW d \in 1..day
               PROVE  /\ Config.maxDailyEntries > 0 => Cardinality(BuysOf(d)) <= Config.maxDailyEntries
                      /\ Config.dailyBuyBudget > 0 =>
                           MapThenSumSet(LAMBDA i : log[i].net, BuysOf(d)) <= Config.dailyBuyBudget
    BY DEF DailyLimits
  <2>1. DayWithin(d) /\ IsFiniteSet(BuysOf(d))
    BY <1>1, BuysCount DEF LimitsInv
  <2>2. MapThenSumSet(LAMBDA i : log[i].net, BuysOf(d)) = PaidOn(d)
    BY <2>1, PaidOnIsTheFold
  <2>3. QED
    BY <2>1, <2>2 DEF DayWithin
<1>2. QED
  BY <1>1, EngineInvHolds, LimitsInvHolds, PTL DEF Spec, Safety

-----------------------------------------------------------------------------
(* The account in won, and the types. *)

\* A lot holds what is left of what was bought.
LotInv(g) ==
    /\ groups[g].remaining \in 1..groups[g].entryQty
    /\ groups[g].entryQty \in Nat /\ groups[g].entryPrice \in Nat

AccountTyped ==
    /\ cash \in Nat
    /\ quote \in [Held -> [cur : Nat, peak : Nat]]
    /\ \A g \in Live : LotInv(g)

\* The counters of the day, and that every candidate has a row today.
DayTyped ==
    /\ day \in 0..EndDate
    /\ todo \subseteq openHeld
    /\ need \in Int /\ spent \in Nat /\ peakEquity \in Nat
    /\ phase = "limits" \/ Ordered => \A i \in DOMAIN queue : queue[i] \in DOMAIN row

MoneyInv == AccountTyped /\ DayTyped

\* A sale at any price with any rates leaves the account typed and not poorer.
LEMMA SaleKeepsMoney ==
    ASSUME Account, AccountTyped, groups \in [Live -> LotType], NEW s \in Held, NEW q,
           NEW cent \in Nat, NEW date \in Int, NEW reason, Sell(s, q, cent, date, reason)
    PROVE  AccountTyped'
<1> DEFINE g     == Lot(s)
           price == SellPrice(cent)
           net   == SellProceeds(price, q, date)
           kept  == KeptAfter(g, q)
<1>1. g \in Live /\ LotInv(g)
  BY TheLot DEF AccountTyped
<1>2. /\ q \in 1..groups[g].remaining
      /\ cash' = cash + net
      /\ groups' = [h \in kept |-> IF h = g THEN [groups[g] EXCEPT !.remaining = LeftOf(g, q)]
                                   ELSE groups[h]]
      /\ quote' = [t \in {groups[h].symbol : h \in kept} |-> quote[t]]
  BY DEF Sell, SellTradeGroup, PaidFor
<1>3. /\ kept \subseteq Live
      /\ g \in kept => groups[g].remaining - q # 0
      /\ LeftOf(g, q) = groups[g].remaining - q
  BY DEF KeptAfter, LeftOf
<1> HIDE DEF kept
<1>4. q \in Nat
  BY <1>1, <1>2 DEF LotInv
<1>5. net \in Nat
  <2>1. price \in Nat
    BY SellPriceIsAnAmount
  <2> HIDE DEF price
  <2>2. QED
    BY <1>4, <2>1, SaleBringsIn
<1> HIDE DEF net, price
<1>6. cash' \in Nat
  BY <1>2, <1>5 DEF AccountTyped
<1>7. quote' \in [Held' -> [cur : Nat, peak : Nat]]
  <2>1. \A h \in kept : groups[h].symbol \in Held
    BY <1>3 DEF Account
  <2>2. \A h \in kept : quote[groups[h].symbol] \in [cur : Nat, peak : Nat]
    BY <2>1 DEF AccountTyped
  <2>3. Held' = {groups[h].symbol : h \in kept}
    BY <1>2 DEF Held
  <2>4. QED
    BY <1>2, <2>2, <2>3
<1>8. ASSUME NEW h \in Live' PROVE LotInv(h)'
  <2>1. h \in kept /\ h \in Live
    BY <1>2, <1>3 DEF Live
  <2>2. CASE h = g
    <3>1. groups[g] \in LotType /\ groups'[g] = [groups[g] EXCEPT !.remaining = groups[g].remaining - q]
      BY <1>1, <1>2, <1>3, <2>1, <2>2
    <3> HIDE DEF g
    <3>2. /\ groups'[g].remaining = groups[g].remaining - q
          /\ groups'[g].entryQty = groups[g].entryQty
          /\ groups'[g].entryPrice = groups[g].entryPrice
      BY <3>1 DEF LotType
    <3>3. groups[g].remaining - q \in 1..groups[g].entryQty
      <4>1. /\ groups[g].remaining \in 1..groups[g].entryQty /\ groups[g].entryQty \in Nat
            /\ groups[g].remaining - q # 0 /\ q \in 1..groups[g].remaining
        BY <1>1, <1>2, <1>3, <2>1, <2>2 DEF LotInv
      <4>2. QED
        BY ONLY <4>1
    <3>4. QED
      BY <1>1, <2>2, <3>2, <3>3 DEF LotInv
  <2>3. CASE h # g
    BY <1>2, <2>1, <2>3 DEF LotInv, AccountTyped
  <2>4. QED
    BY <2>2, <2>3
<1>9. QED
  BY <1>6, <1>7, <1>8 DEF AccountTyped

\* What the rules make due is filled at an amount.
LEMMA ExitsAreAmounts ==
    ASSUME Account, Priced, AccountTyped, NEW s \in Held, s \in DOMAIN row, NEW e \in ExitsDue(s)
    PROVE  e.cent \in Nat
<1> DEFINE bar == row[s]
<1>1. bar.open \in Nat /\ bar.close \in Nat
  BY BarsAssumption DEF Priced
<1>2. groups[Lot(s)].entryPrice \in Nat /\ quote[s].peak \in Nat
  BY TheLot DEF AccountTyped, LotInv
<1>3. /\ 100 - Rules.stop_loss.percent \in Nat /\ 100 + Rules.take_profit.percent \in Nat
      /\ 100 - Rules.trailing_stop.percent \in Nat
  BY ConfigAssumption
<1>4. StopLine(s) \in Nat /\ TargetLine(s) \in Nat /\ TrailLine(s) \in Nat
  <2>1. \A a, b \in Nat : a * b \in Nat
    OBVIOUS
  <2>2. QED
    BY <1>2, <1>3, <2>1 DEF StopLine, TargetLine, TrailLine
<1>5. e.cent \in {100 * bar.open, StopLine(s), TargetLine(s), TrailLine(s), 100 * bar.close}
  BY DEF ExitsDue
<1> HIDE DEF bar
<1>6. QED
  BY <1>1, <1>4, <1>5

\* The evaluation of a holding.
LEMMA EvaluationKeepsMoney ==
    ASSUME EngineInv, EngineInv', LossInv, MoneyInv, NEW s \in todo,
           HoldUntraded(s) \/ SellOnRule(s) \/ SellOnSignal(s) \/ Hold(s)
    PROVE  MoneyInv'
<1>1. /\ phase = "holdings" /\ todo' = todo \ {s}
      /\ UNCHANGED <<phase, day, row, next, openHeld, queue, need, spent, peakEquity>>
  BY DEF HoldUntraded, SellOnRule, SellOnSignal, Hold, Evaluating
<1>2. /\ s \in Held /\ Account /\ AccountTyped /\ Priced
      /\ groups \in [Live -> LotType] /\ day \in Nat
  BY <1>1 DEF EngineInv, Counted, Opened, MoneyInv, LossInv, Priced, Calendar
<1>3. DayTyped'
  BY <1>1 DEF MoneyInv, DayTyped, Ordered
<1>4. CASE HoldUntraded(s)
  <2>1. UNCHANGED ledgerVars
    BY <1>4 DEF HoldUntraded
  <2>2. QED
    BY <1>2, <1>3, <2>1 DEF MoneyInv, AccountTyped, LotInv, Held, Live, ledgerVars
<1>5. CASE SellOnRule(s)
  <2>1. s \in DOMAIN row
    BY <1>5 DEF SellOnRule, NoTradeToday
  <2>2. Exit(s) \in ExitsDue(s) /\ SellAll(s, Exit(s).cent, day, Exit(s).reason)
    BY <1>5, FirstExitIsDue DEF SellOnRule, Exit
  <2>3. Exit(s).cent \in Nat
    BY <1>2, <2>1, <2>2, ExitsAreAmounts
  <2>4. AccountTyped'
    BY <1>2, <2>2, <2>3, SaleKeepsMoney DEF SellAll
  <2>5. QED
    BY <1>3, <2>4 DEF MoneyInv
<1>6. CASE SellOnSignal(s)
  <2>1. /\ s \in DOMAIN next
        /\ SellAll(s, 100 * next[s].bar.open, next[s].date, "exit_signal")
    BY <1>6 DEF SellOnSignal, SignalSells
  <2>2. next[s].bar \in Bars /\ next[s].date \in Int
    BY <1>2, <2>1 DEF Priced, EngineInv, Calendar
  <2>3. 100 * next[s].bar.open \in Nat
    BY <2>2, BarsAssumption
  <2>4. AccountTyped'
    BY <1>2, <2>1, <2>2, <2>3, SaleKeepsMoney DEF SellAll
  <2>5. QED
    BY <1>3, <2>4 DEF MoneyInv
<1>7. CASE Hold(s)
  <2>1. /\ s \in DOMAIN row /\ UNCHANGED <<cash, groups>>
        /\ quote' = [quote EXCEPT ![s] = [cur  |-> row[s].close,
                                          peak |-> Max({quote[s].peak, row[s].high})]]
    BY <1>7 DEF Hold, NoTradeToday
  <2>2. row[s].close \in Nat /\ row[s].high \in Nat
    BY <1>2, <2>1, BarsAssumption DEF Priced
  <2>3. quote[s].peak \in Nat
    BY <1>2 DEF AccountTyped
  <2>4. Max({quote[s].peak, row[s].high}) \in Nat
    <3>1. PICK a \in Nat, b \in Nat : a = quote[s].peak /\ b = row[s].high
      BY <2>2, <2>3
    <3>2. Max({a, b}) \in {a, b}
      BY LargerOfTwo
    <3>3. QED
      BY <3>1, <3>2
  <2>5. Held' = Held /\ Live' = Live
    BY <2>1 DEF Held, Live
  <2>6. quote' \in [Held' -> [cur : Nat, peak : Nat]]
    BY <1>2, <2>1, <2>2, <2>4, <2>5 DEF AccountTyped
  <2>7. QED
    BY <1>2, <1>3, <2>1, <2>5, <2>6 DEF MoneyInv, AccountTyped, LotInv
<1>8. QED
  BY <1>4, <1>5, <1>6, <1>7

\* A position is worth its shares at its price, and the equity is a number.
LEMMA EquityIsANumber ==
    ASSUME Account, AccountTyped
    PROVE  Equity \in Int
<1>1. ASSUME NEW s \in Held PROVE Value(s) \in Int
  <2>1. PICK g : GroupsOf(s) = {g} /\ g \in Live
    BY TheLot DEF GroupsOf
  <2>2. groups[g].remaining \in Int
    BY <2>1 DEF AccountTyped, LotInv
  <2>3. Quantity(s) \in Int
    BY <2>1, <2>2, QuantityOfOneLot
  <2>4. quote[s].cur \in Int
    BY DEF AccountTyped
  <2>5. QED
    BY <2>3, <2>4 DEF Value
<1>2. IsFiniteSet(Held)
  <2>1. Held \in SUBSET Symbols
    BY DEF Account
  <2>2. QED
    BY <2>1, SymbolsCount
<1> DEFINE D == Held
           values == [s \in D |-> Value(s)]
           F(it) == [S \in SUBSET D |->
              IF S = {} THEN 0
              ELSE LET x == CHOOSE x \in S : TRUE IN Value(x) + it[S \ {x}]]
           sum == CHOOSE it : it = F(it)
<1>3. ASSUME NEW g PROVE Adds(g, values, D) <=> g = F(g)
  <2> DEFINE G == [S \in SUBSET D |-> IF S = {} THEN 0 ELSE values[Pick(S)] + g[S \ {Pick(S)}]]
  <2>1. ASSUME NEW S \in SUBSET D PROVE F(g)[S] = G[S]
    <3>1. S # {} => Pick(S) \in D /\ Pick(S) = CHOOSE x \in S : TRUE
      BY Picked DEF Pick
    <3>2. QED
      BY <3>1
  <2>2. F(g) = G
    BY <2>1
  <2>3. QED
    BY <2>2 DEF Adds
<1>4. PICK g : Adds(g, values, D)
  BY <1>2, AddsExists
<1>5. sum = F(sum)
  <2> HIDE DEF F
  <2>1. QED
    BY <1>3, <1>4
<1>6. Adds(sum, values, D)
  BY <1>3, <1>5
<1>7. MapThenSumSet(Value, D) = sum[D]
  BY DEF MapThenSumSet, MapThenFoldSet
<1>8. \A s \in D : values[s] \in Int
  BY <1>1
<1>9. sum[D] \in Int
  <2> HIDE DEF sum, values, D
  <2>1. \A T \in SUBSET D : sum[T] \in Int
    BY <1>2, <1>6, <1>8, AddsTyped DEF D
  <2>2. QED
    BY <2>1
<1>10. MapThenSumSet(Value, Held) \in Int
  BY <1>7, <1>9
<1>11. QED
  BY <1>10 DEF Equity, AccountTyped

\* Whatever the method, an order is for a number of shares.
LEMMA SharesAreANumber ==
    ASSUME Account, AccountTyped, NEW price \in Int
    PROVE  SharesFor(price) \in Int
<1>1. CASE price <= 0
  BY <1>1 DEF SharesFor
<1>2. CASE ~(price <= 0)
  <2>1. price \in Nat \ {0} /\ Equity \in Int
    BY <1>2, EquityIsANumber
  <2>2. \A n \in Int, u \in Nat \ {0} : n \div u \in Int
    OBVIOUS
  <2>3. CASE Config.sizing = "fixed_amount"
    <3>1. SharesFor(price) = Config.amount \div price /\ Config.amount \in Int
      BY <1>2, <2>3, ConfigAssumption DEF SharesFor
    <3>2. QED
      BY <2>1, <2>2, <3>1
  <2>4. CASE Config.sizing = "fixed_ratio"
    <3>1. /\ SharesFor(price) = (Equity * Config.ratio) \div (100 * price)
          /\ Config.ratio \in Int
      BY <1>2, <2>4, ConfigAssumption DEF SharesFor
    <3>2. Equity * Config.ratio \in Int /\ 100 * price \in Nat \ {0}
      BY <2>1, <3>1
    <3>3. QED
      BY <2>2, <3>1, <3>2
  <2>5. CASE Config.sizing = "equal_weight"
    <3>1. /\ SharesFor(price) = Equity \div (Config.maxPositions * price)
          /\ Config.maxPositions \in Nat \ {0}
      BY <1>2, <2>5, ConfigAssumption DEF SharesFor
    <3>2. Config.maxPositions * price \in Nat \ {0}
      BY <2>1, <3>1
    <3>3. QED
      BY <2>1, <2>2, <3>1, <3>2
  <2>6. QED
    BY <2>3, <2>4, <2>5, ConfigAssumption
<1>3. QED
  BY <1>1, <1>2

\* A forced sale, at the last price or at half of it.
LEMMA ForcedSaleKeepsMoney ==
    ASSUME EngineInv, LossInv, MoneyInv, ForceSellDelisted \/ ForceSellEstimated
    PROVE  MoneyInv'
<1>1. /\ Account /\ AccountTyped /\ Priced /\ groups \in [Live -> LotType] /\ day \in Int
      /\ Symbols \subseteq Nat /\ Held \subseteq Symbols
  BY BarsAssumption DEF EngineInv, MoneyInv, LossInv, Priced, Calendar, Account
<1>2. \E s \in Held : \E factor \in {100, 50} : \E reason : SellAll(s, factor * LastPrice(s), day, reason)
  <2>1. CASE ForceSellDelisted
    <3>1. Due(Delisted) \in SUBSET Nat /\ Due(Delisted) # {} /\ Due(Delisted) \subseteq Held
      BY <1>1, <2>1 DEF ForceSellDelisted, Due
    <3>2. Min(Due(Delisted)) \in Held
      BY <3>1, LeastNatural
    <3>3. QED
      BY <2>1, <3>2 DEF ForceSellDelisted
  <2>2. CASE ForceSellEstimated
    <3>1. Due(Estimated) \in SUBSET Nat /\ Due(Estimated) # {} /\ Due(Estimated) \subseteq Held
      BY <1>1, <2>2 DEF ForceSellEstimated, Due
    <3>2. Min(Due(Estimated)) \in Held
      BY <3>1, LeastNatural
    <3>3. QED
      BY <2>2, <3>2 DEF ForceSellEstimated
  <2>3. QED
    BY <2>1, <2>2
<1>3. PICK s \in Held, factor \in {100, 50} : \E reason : SellAll(s, factor * LastPrice(s), day, reason)
  BY <1>2
<1>4. LastPrice(s) \in Nat
  BY <1>1, BarsAssumption DEF LastPrice, Priced, AccountTyped
<1>5. factor * LastPrice(s) \in Nat
  BY <1>4
<1>6. AccountTyped'
  BY <1>1, <1>3, <1>5, SaleKeepsMoney DEF SellAll
<1>7. DayTyped'
  <2>1. UNCHANGED dayVars
    BY DEF ForceSellDelisted, ForceSellEstimated
  <2>2. QED
    BY <2>1 DEF dayVars, MoneyInv, DayTyped, Ordered
<1>8. QED
  BY <1>6, <1>7 DEF MoneyInv

\* The candidates move up.
LEMMA TailHasRows ==
    ASSUME EngineInv, MoneyInv, Ordered, queue # << >>, queue' = Tail(queue),
           UNCHANGED <<row, openHeld>>
    PROVE  \A i \in DOMAIN queue' : queue'[i] \in DOMAIN row'
<1>1. \A i \in DOMAIN queue' : \E j \in DOMAIN queue : queue'[i] = queue[j]
  BY TailOfQueue DEF EngineInv
<1>2. QED
  BY <1>1 DEF MoneyInv, DayTyped

\* Sales that fund a buy, at the close of the candidate.
LEMMA RaisedCashKeepsMoney ==
    ASSUME EngineInv, LossInv, MoneyInv, RaiseCash
    PROVE  MoneyInv'
<1>1. /\ phase = "ordering" /\ need \in Int
      /\ need' = IF CashRule.repeat THEN need ELSE -1
      /\ UNCHANGED <<phase, day, row, next, openHeld, todo, queue, spent, peakEquity>>
      /\ \E s \in Held :
           Sell(s, SharesToSell(s), 100 * row[Head(queue)].close, day, "cash_shortage_partial_sell")
  BY DEF RaiseCash, MoneyInv, DayTyped
<1>2. /\ Account /\ AccountTyped /\ Priced /\ groups \in [Live -> LotType] /\ day \in Int
  BY DEF EngineInv, MoneyInv, LossInv, Priced, Calendar
<1>3. Head(queue) \in DOMAIN row
  <2>1. queue # << >> /\ queue \in Seq(Symbols)
    BY <1>1 DEF EngineInv, Counted, Candidates
  <2>2. 1 \in DOMAIN queue /\ queue[1] = Head(queue)
    BY <2>1, HeadTailProperties, EmptySeq, LenProperties
  <2>3. QED
    BY <1>1, <2>2 DEF MoneyInv, DayTyped, Ordered
<1>4. 100 * row[Head(queue)].close \in Nat
  <2>1. row[Head(queue)] \in Bars
    BY <1>2, <1>3 DEF Priced
  <2>2. row[Head(queue)].close \in Nat
    BY <2>1, BarsAssumption
  <2>3. QED
    BY <2>2
<1>5. AccountTyped'
  BY <1>1, <1>2, <1>4, SaleKeepsMoney
<1>6. need' \in Int
  BY <1>1
<1>7. DayTyped'
  BY <1>1, <1>6 DEF MoneyInv, DayTyped, Ordered
<1>8. QED
  BY <1>5, <1>7 DEF MoneyInv

\* What a candidate would be bought at.
LEMMA EntryPriceIsAnAmount ==
    ASSUME Priced, NEW s \in DOMAIN next
    PROVE  EntryPrice(s) \in Nat
<1>1. next[s].bar \in Bars
  BY DEF Priced
<1>2. next[s].bar.open \in Nat
  BY <1>1, BarsAssumption
<1>3. QED
  BY <1>2, BuyPriceIsANumber DEF EntryPrice

\* The estimate of what is needed.
LEMMA EstimateKeepsMoney ==
    ASSUME EngineInv, LossInv, MoneyInv, StartOrder
    PROVE  MoneyInv'
<1> DEFINE s      == Head(queue)
           price  == EntryPrice(s)
           atLeast == Max({price, 1})
           shares == SharesFor(atLeast)
<1>1. /\ ~CannotEnter(s)
      /\ need' = IF CashRule.enabled /\ shares > 0 THEN BuyCost(price, shares) ELSE -1
      /\ phase = "buying" /\ phase' = "ordering"
      /\ UNCHANGED <<ledgerVars, day, row, next, openHeld, todo, queue, spent, peakEquity>>
  BY DEF StartOrder
<1>2. Account /\ AccountTyped /\ Priced
  BY DEF EngineInv, MoneyInv, LossInv
<1>3. price \in Nat
  <2>1. s \in DOMAIN next
    BY <1>1 DEF CannotEnter
  <2>2. QED
    BY <1>2, <2>1, EntryPriceIsAnAmount
<1> HIDE DEF price
<1>4. shares \in Int
  <2>1. atLeast \in Int
    <3>1. PICK a \in Int, b \in Int : a = price /\ b = 1
      BY <1>3
    <3>2. Max({a, b}) \in {a, b}
      BY LargerOfTwo
    <3>3. QED
      BY <3>1, <3>2
  <2> HIDE DEF atLeast
  <2>2. QED
    BY <1>2, <2>1, SharesAreANumber
<1> HIDE DEF shares
<1>5. BuyCost(price, shares) \in Int
  BY <1>3, <1>4, BuyCostIsANumber
<1>6. need' \in Int
  BY <1>1, <1>5
<1>7. DayTyped'
  BY <1>1, <1>6 DEF MoneyInv, DayTyped, Ordered
<1>8. AccountTyped'
  BY <1>1, <1>2 DEF AccountTyped, LotInv, Held, Live, ledgerVars
<1>9. QED
  BY <1>7, <1>8 DEF MoneyInv

\* A buy is paid from the cash there is.
LEMMA OrderKeepsMoney ==
    ASSUME EngineInv, LossInv, MoneyInv, PlaceOrder
    PROVE  MoneyInv'
<1> DEFINE s     == Head(queue)
           price == EntryPrice(s)
           q     == SharesFor(price)
           cost  == BuyCost(price, q)
<1>1. /\ phase = "ordering" /\ phase' = "buying" /\ queue' = Tail(queue) /\ need' = -1
      /\ UNCHANGED <<day, row, next, openHeld, todo, peakEquity>>
      /\ \/ UNCHANGED <<ledgerVars, spent>>
         \/ Buy(s, price, q, cost, next[s].date, day) /\ spent' = spent + cost
  BY DEF PlaceOrder
<1>2. Account /\ AccountTyped /\ Priced /\ queue # << >> /\ s \in DOMAIN next
  BY <1>1 DEF EngineInv, MoneyInv, LossInv, Counted, Priced
<1>3. price \in Nat
  BY <1>2, EntryPriceIsAnAmount
<1>4. ASSUME spent' \in Nat PROVE DayTyped'
  <2>1. \A i \in DOMAIN queue' : queue'[i] \in DOMAIN row'
    BY <1>1, <1>2, TailHasRows DEF Ordered
  <2> HIDE DEF s, price
  <2>2. QED
    BY <1>1, <1>4, <2>1 DEF MoneyInv, DayTyped
<1>5. CASE UNCHANGED <<ledgerVars, spent>>
  <2>1. AccountTyped'
    BY <1>2, <1>5 DEF AccountTyped, LotInv, Held, Live, ledgerVars
  <2>2. QED
    BY <1>4, <1>5, <2>1 DEF MoneyInv, DayTyped
<1>6. CASE Buy(s, price, q, cost, next[s].date, day) /\ spent' = spent + cost
  <2> HIDE DEF s, price
  <2>1. q \in Nat \ {0}
    BY <1>6 DEF Buy
  <2> HIDE DEF q
  <2>2. cost \in Nat
    BY <1>3, <2>1, BuyCostIsAnAmount
  <2> HIDE DEF cost
  <2> DEFINE lot == [symbol |-> s, entryDate |-> next[s].date, entryPrice |-> price,
                     entryQty |-> q, remaining |-> q]
  <2>3. /\ ~(cost > cash) /\ cash' = cash - cost
        /\ groups' = [g \in Live \cup {nextId} |-> IF g = nextId THEN lot ELSE groups[g]]
        /\ quote' = [h \in Held \cup {s} |->
                       IF h \in Held THEN quote[h] ELSE [cur |-> price, peak |-> price]]
    BY <1>6 DEF Buy, CashShort
  <2>4. cash' \in Nat
    BY <1>2, <2>2, <2>3 DEF AccountTyped
  <2>5. quote' \in [Held' -> [cur : Nat, peak : Nat]]
    <3>1. Held' = Held \cup {s}
      BY <2>3 DEF Held
    <3>2. QED
      BY <1>2, <1>3, <2>3, <3>1 DEF AccountTyped
  <2>6. /\ lot.remaining \in 1..lot.entryQty
        /\ lot.entryQty \in Nat /\ lot.entryPrice \in Nat
    BY <1>3, <2>1
  <2> HIDE DEF lot
  <2>7. ASSUME NEW g \in Live' PROVE LotInv(g)'
    <3>1. g \in Live \cup {nextId} /\ groups'[g] = IF g = nextId THEN lot ELSE groups[g]
      BY <2>3 DEF Live
    <3>2. QED
      BY <1>2, <2>6, <3>1 DEF LotInv, AccountTyped
  <2>8. AccountTyped'
    BY <2>4, <2>5, <2>7 DEF AccountTyped
  <2>9. spent' \in Nat
    BY <1>6, <2>2 DEF MoneyInv, DayTyped
  <2>10. QED
    BY <1>4, <2>8, <2>9 DEF MoneyInv
<1>7. QED
  BY <1>1, <1>5, <1>6

\* Nothing is traded: the phases of the day.
LEMMA PhasesKeepMoney ==
    ASSUME EngineInv, EngineInv', MoneyInv, UNCHANGED ledgerVars, DayTyped'
    PROVE  MoneyInv'
  BY DEF MoneyInv, AccountTyped, LotInv, Held, Live, ledgerVars

LEMMA MoneyStep ==
    EngineInv /\ EngineInv' /\ LossInv /\ MoneyInv /\ [Next]_vars => MoneyInv'
<1> SUFFICES ASSUME EngineInv, EngineInv', LossInv, MoneyInv, [Next]_vars PROVE MoneyInv'
  OBVIOUS
<1>1. CASE UNCHANGED vars
  <2>1. UNCHANGED ledgerVars /\ UNCHANGED dayVars
    BY <1>1 DEF vars
  <2>2. DayTyped'
    BY <2>1 DEF MoneyInv, DayTyped, Ordered, dayVars
  <2>3. QED
    BY <2>1, <2>2, PhasesKeepMoney
<1>2. CASE \E s \in todo : HoldUntraded(s) \/ SellOnRule(s) \/ SellOnSignal(s) \/ Hold(s)
  BY <1>2, EvaluationKeepsMoney
<1>3. CASE StartDay
  <2>1. /\ day' <= EndDate /\ day' \in Nat /\ phase' = "delisting"
        /\ UNCHANGED <<ledgerVars, openHeld, todo, need, spent, peakEquity>>
    BY <1>3 DEF StartDay, EngineInv, Calendar
  <2>2. day' \in 0..EndDate
    BY <2>1, ConfigAssumption
  <2>3. DayTyped'
    BY <2>1, <2>2 DEF MoneyInv, DayTyped, Ordered
  <2>4. QED
    BY <2>1, <2>3, PhasesKeepMoney
<1>4. CASE Finish \/ CloseHoldings
  <2>1. /\ phase' \in {"over", "entries"}
        /\ UNCHANGED <<ledgerVars, day, openHeld, todo, need, spent, peakEquity>>
    BY <1>4 DEF Finish, CloseHoldings
  <2>2. DayTyped'
    BY <2>1 DEF MoneyInv, DayTyped, Ordered
  <2>3. QED
    BY <2>1, <2>2, PhasesKeepMoney
<1>5. CASE OpenHoldings
  <2>1. /\ phase' = "holdings" /\ todo' = openHeld'
        /\ UNCHANGED <<ledgerVars, day, need, spent, peakEquity>>
    BY <1>5 DEF OpenHoldings
  <2>2. DayTyped'
    BY <2>1 DEF MoneyInv, DayTyped, Ordered
  <2>3. QED
    BY <2>1, <2>2, PhasesKeepMoney
<1>6. CASE CollectCandidates
  <2>1. UNCHANGED <<ledgerVars, day, row, openHeld, todo, need, spent, peakEquity>>
    BY <1>6 DEF CollectCandidates
  <2>2. PICK chosen \in SUBSET DOMAIN row : \E order \in SetToSeqs(chosen) :
          queue' = << >> \/ queue' = order
    BY <1>6 DEF CollectCandidates
  <2>3. \A i \in DOMAIN queue' : queue'[i] \in DOMAIN row'
    <3>1. CASE queue' = << >>
      BY <3>1
    <3>2. CASE queue' \in SetToSeqs(chosen)
      <4>1. queue' \in [1..Cardinality(chosen) -> chosen]
        BY <3>2 DEF SetToSeqs
      <4>2. QED
        BY <2>1, <4>1
    <3>3. QED
      BY <2>2, <3>1, <3>2
  <2>4. DayTyped'
    BY <2>1, <2>3 DEF MoneyInv, DayTyped
  <2>5. QED
    BY <2>1, <2>4, PhasesKeepMoney
<1>7. CASE ApplyPositionLimits
  <2>1. /\ phase = "limits" /\ spent' = 0
        /\ UNCHANGED <<ledgerVars, day, row, openHeld, todo, need, peakEquity>>
    BY <1>7 DEF ApplyPositionLimits
  <2>2. PICK cutoff \in Nat : /\ cutoff <= Len(queue)
                              /\ DOMAIN queue' = 1..cutoff /\ DOMAIN queue = 1..Len(queue)
                              /\ \A i \in 1..cutoff : queue'[i] = queue[i]
    BY <1>7, Cutoff
  <2>3. Len(queue) \in Nat
    BY DEF EngineInv, Candidates
  <2>4. \A i \in DOMAIN queue' : i \in DOMAIN queue /\ queue'[i] = queue[i]
    BY <2>2, <2>3
  <2>5. \A i \in DOMAIN queue' : queue'[i] \in DOMAIN row'
    BY <2>1, <2>4 DEF MoneyInv, DayTyped
  <2>6. DayTyped'
    BY <2>1, <2>5 DEF MoneyInv, DayTyped
  <2>7. QED
    BY <2>1, <2>6, PhasesKeepMoney
<1>8. CASE SkipCandidate
  <2>1. /\ phase = "buying" /\ queue # << >> /\ queue' = Tail(queue)
        /\ UNCHANGED <<ledgerVars, day, row, openHeld, todo, need, spent, peakEquity>>
    BY <1>8 DEF SkipCandidate
  <2>2. \A i \in DOMAIN queue' : queue'[i] \in DOMAIN row'
    BY <2>1, TailHasRows DEF Ordered
  <2>3. DayTyped'
    BY <2>1, <2>2 DEF MoneyInv, DayTyped
  <2>4. QED
    BY <2>1, <2>3, PhasesKeepMoney
<1>9. CASE CloseDay
  <2>1. /\ peakEquity' = Max({peakEquity, Equity}) /\ phase' = "overnight"
        /\ UNCHANGED <<ledgerVars, day, openHeld, todo, need, spent>>
    BY <1>9 DEF CloseDay
  <2>2. peakEquity' \in Nat
    <3>1. peakEquity \in Nat /\ Equity \in Int
      BY EquityIsANumber DEF EngineInv, MoneyInv, DayTyped
    <3>2. PICK a \in Nat, b \in Int : a = peakEquity /\ b = Equity
      BY <3>1
    <3>3. Max({a, b}) \in Int /\ Max({a, b}) >= a
      BY LargerOfTwo
    <3>4. Max({a, b}) \in Nat
      BY <3>3
    <3>5. QED
      BY <2>1, <3>2, <3>4
  <2>3. DayTyped'
    BY <2>1, <2>2 DEF MoneyInv, DayTyped, Ordered
  <2>4. QED
    BY <2>1, <2>3, PhasesKeepMoney
<1>10. QED
  BY <1>1, <1>2, <1>3, <1>4, <1>5, <1>6, <1>7, <1>8, <1>9, ForcedSaleKeepsMoney,
     RaisedCashKeepsMoney, EstimateKeepsMoney, OrderKeepsMoney DEF Next

\* The amounts of the account and of the day stay amounts.
LEMMA MoneyInvHolds == Safety => []MoneyInv
<1>1. Init => MoneyInv
  <2> SUFFICES ASSUME Init PROVE MoneyInv
    OBVIOUS
  <2>1. /\ cash = InitialCash /\ groups = << >> /\ quote = << >>
        /\ phase = "overnight" /\ day = 0 /\ openHeld = {} /\ todo = {}
        /\ need = -1 /\ spent = 0 /\ peakEquity = InitialCash
    BY DEF Init, LedgerInit
  <2>2. Live = {} /\ Held = {} /\ quote \in [Held -> [cur : Nat, peak : Nat]]
    BY <2>1 DEF Live, Held
  <2>3. QED
    BY <2>1, <2>2, CashAssumption, ConfigAssumption
       DEF MoneyInv, AccountTyped, DayTyped, Ordered
<1>2. EngineInv /\ EngineInv' /\ LossInv /\ MoneyInv /\ [Next]_vars => MoneyInv'
  BY MoneyStep
<1>3. QED
  BY <1>1, <1>2, EngineInvHolds, LossInvHolds, PTL DEF Safety

\* For any data, rules, rates and sizes of orders the account of a backtest is
\* never overdrawn, and its prices and counters stay amounts.
THEOREM AccountStaysFunded == Spec => []TypeOK
<1>1. EngineInv /\ MoneyInv => TypeOK
  BY DEF TypeOK, EngineInv, Account, Calendar, Candidates, MoneyInv, AccountTyped, LotInv, DayTyped
<1>2. QED
  BY <1>1, EngineInvHolds, MoneyInvHolds, PTL DEF Spec

-----------------------------------------------------------------------------
(* Every step of the loop comes closer to its end: the step half of RunEnds,    *)
(* which TLC checks.                                                            *)

\* The phases of a day in their order, from its first to the night after it.
PhasesLeft ==
    CASE phase = "delisting" -> 6
      [] phase = "holdings"  -> 5
      [] phase = "entries"   -> 4
      [] phase = "limits"    -> 3
      [] phase \in {"buying", "ordering"} -> 2
      [] phase = "overnight" -> 1
      [] phase = "over"      -> 0

\* Turns a loop of the phase has left: forced sales, evaluations, candidates.
TurnsLeft ==
    CASE phase = "delisting" -> Cardinality(Held)
      [] phase = "holdings"  -> Cardinality(todo)
      [] phase = "buying"    -> 2 * Len(queue) + 1
      [] phase = "ordering"  -> 2 * Len(queue)
      [] OTHER               -> 0

\* What the loop of the cash manager, which is one turn of the phase, uses up.
Shares     == [g \in Live |-> groups[g].remaining]
SharesHeld == Total(Shares, Live)

Closer ==
    \/ day' > day
    \/ day' = day /\ PhasesLeft' < PhasesLeft
    \/ day' = day /\ PhasesLeft' = PhasesLeft /\ TurnsLeft' < TurnsLeft
    \/ day' = day /\ PhasesLeft' = PhasesLeft /\ TurnsLeft' = TurnsLeft /\ SharesHeld' < SharesHeld

(* Each step of the backtest is on a later day, or in a later phase of the day, or
   takes a turn of the phase, or sells shares that the cash manager can sell no more:
   no loop of a day, and not the one of handle_shortage, repeats itself (run;
   cash_manager.py handle_shortage). *)
EveryStepIsCloser == [][Closer]_vars

\* None of the four goes on for ever: days end with the data, and the others are
\* natural numbers.
ProgressIsBounded ==
    day <= EndDate /\ PhasesLeft \in Nat /\ TurnsLeft \in Nat /\ SharesHeld \in Nat

LEMMA LiveIsFinite ==
    ASSUME Account, AccountTyped
    PROVE  IsFiniteSet(Live) /\ \A g \in Live : groups[g].remaining \in Nat \ {0}
<1>1. nextId - 1 \in Int /\ Live \subseteq 1..(nextId - 1)
  BY DEF Account
<1>2. IsFiniteSet(Live)
  <2>1. IsFiniteSet(1..(nextId - 1))
    BY <1>1, FS_Interval
  <2>2. QED
    BY <1>1, <2>1, FS_Subset
<1>3. QED
  BY <1>2 DEF AccountTyped, LotInv

LEMMA ProgressBounded ==
    ASSUME EngineInv, MoneyInv
    PROVE  ProgressIsBounded
<1>1. day <= EndDate
  BY ConfigAssumption DEF MoneyInv, DayTyped
<1>2. PhasesLeft \in Nat
  BY DEF EngineInv, Phases, PhasesLeft
<1>3. TurnsLeft \in Nat
  <2>1. Held \in SUBSET Symbols /\ todo \in SUBSET Symbols
    BY DEF EngineInv, Account, Candidates, MoneyInv, DayTyped
  <2>2. Cardinality(Held) \in Nat /\ Cardinality(todo) \in Nat
    BY <2>1, SymbolsCount
  <2>3. Len(queue) \in Nat
    BY LenProperties DEF EngineInv, Candidates
  <2>4. QED
    BY <2>2, <2>3 DEF TurnsLeft
<1>4. SharesHeld \in Nat
  <2>1. IsFiniteSet(Live) /\ \A g \in Live : Shares[g] \in Nat
    BY LiveIsFinite DEF EngineInv, MoneyInv, Shares
  <2>2. QED
    BY <2>1, TotalOfAmounts DEF SharesHeld
<1>5. QED
  BY <1>1, <1>2, <1>3, <1>4 DEF ProgressIsBounded

\* A sale takes its shares out of the account.
LEMMA SaleTakesShares ==
    ASSUME Account, AccountTyped, groups \in [Live -> LotType], NEW s \in Held,
           NEW q, NEW cent, NEW date, NEW reason, Sell(s, q, cent, date, reason)
    PROVE  SharesHeld' < SharesHeld
<1> DEFINE g    == Lot(s)
           rest == Live \ {g}
<1>1. /\ g \in Live /\ IsFiniteSet(Live)
      /\ \A h \in Live : Shares[h] = groups[h].remaining /\ Shares[h] \in Nat
  BY TheLot, LiveIsFinite DEF Shares
<1>2. /\ q \in 1..groups[g].remaining
      /\ groups' = [h \in KeptAfter(g, q) |->
                       IF h = g THEN [groups[g] EXCEPT !.remaining = LeftOf(g, q)] ELSE groups[h]]
  BY DEF Sell, SellTradeGroup
<1>3. "remaining" \in DOMAIN groups[g]
  BY <1>1 DEF LotType
<1> HIDE DEF g
<1>4. IsFiniteSet(rest) /\ g \notin rest /\ Live = rest \cup {g}
  BY <1>1, FS_RemoveElement
<1>5. Total(Shares, Live) = Total(Shares, rest) + Shares[g] /\ Total(Shares, rest) \in Int
  <2>1. Shares[g] \in Int /\ \A h \in rest : Shares[h] \in Int
    BY <1>1
  <2>2. \A h \in rest \cup {g} : Shares[h] \in Int
    BY <2>1
  <2> HIDE DEF rest
  <2>3. Total(Shares, rest \cup {g}) = Total(Shares, rest) + Shares[g]
    BY <1>4, <2>2, TotalOfOneMore
  <2>4. QED
    BY <1>4, <2>1, <2>3, TotalTyped
<1>6. CASE LeftOf(g, q) = 0
  <2>1. KeptAfter(g, q) = rest
    BY <1>6 DEF KeptAfter
  <2>2. Live' = rest /\ \A h \in rest : Shares'[h] = Shares[h]
    BY <1>1, <1>2, <2>1 DEF Live, Shares
  <2>3. SharesHeld' = Total(Shares', rest)
    BY <2>2 DEF SharesHeld
  <2>4. Total(Shares', rest) = Total(Shares, rest)
    BY <1>4, <2>2, TotalOfEqual
  <2>5. Shares[g] > 0
    BY <1>1, <1>2
  <2>6. QED
    BY <1>1, <1>5, <2>3, <2>4, <2>5 DEF SharesHeld
<1>7. CASE LeftOf(g, q) # 0
  <2>1. KeptAfter(g, q) = Live
    BY <1>7 DEF KeptAfter
  <2>2. /\ Live' = Live /\ \A h \in rest : Shares'[h] = Shares[h]
        /\ Shares'[g] = LeftOf(g, q)
    BY <1>1, <1>2, <1>3, <2>1 DEF Live, Shares
  <2>3. LeftOf(g, q) \in Int /\ LeftOf(g, q) < Shares[g]
    BY <1>1, <1>2 DEF LeftOf
  <2>4. SharesHeld' = Total(Shares', rest \cup {g})
    BY <1>4, <2>2 DEF SharesHeld
  <2> HIDE DEF rest
  <2>5. \A h \in rest \cup {g} : Shares'[h] \in Int
    BY <1>1, <1>4, <2>2, <2>3
  <2>6. Total(Shares', rest \cup {g}) = Total(Shares, rest) + Shares'[g]
    BY <1>4, <2>2, <2>5, TotalOfNewMember
  <2>7. QED
    BY <1>1, <1>5, <2>2, <2>3, <2>4, <2>6 DEF SharesHeld
<1>8. QED
  BY <1>6, <1>7

\* From one phase of a day to a later one.
LEMMA PhaseOver ==
    ASSUME OpenHoldings \/ CloseHoldings \/ CollectCandidates \/ ApplyPositionLimits
             \/ CloseDay \/ Finish
    PROVE  day' = day /\ PhasesLeft' < PhasesLeft
  BY DEF OpenHoldings, CloseHoldings, CollectCandidates, ApplyPositionLimits, CloseDay, Finish,
         PhasesLeft

\* A day begins that is later than today.
LEMMA LaterDay ==
    ASSUME EngineInv, StartDay
    PROVE  day' > day
<1> DEFINE dates == {next[s].date : s \in DOMAIN next}
<1>1. dates \in SUBSET Nat /\ dates # {} /\ \A d \in dates : d > day
  BY DEF EngineInv, Calendar, StartDay
<1>2. day' = Min(dates)
  BY DEF StartDay
<1> HIDE DEF dates
<1>3. QED
  BY <1>1, <1>2, LeastNatural

\* A forced sale leaves one holding less to look at.
LEMMA ForcedSaleTurns ==
    ASSUME EngineInv, LossInv, ForceSellDelisted \/ ForceSellEstimated
    PROVE  day' = day /\ PhasesLeft' = PhasesLeft /\ TurnsLeft' < TurnsLeft
<1>1. phase = "delisting" /\ phase' = phase /\ day' = day
  BY DEF ForceSellDelisted, ForceSellEstimated, dayVars
<1>2. PICK s \in Held, reason \in Forced : \E cent : SellAll(s, cent, day, reason)
  BY ForcedSale DEF EngineInv
<1>3. s \notin Held' /\ Held' \subseteq Held
  <2>1. Account /\ groups \in [Live -> LotType]
    BY DEF EngineInv, LossInv, Priced
  <2>2. SaleOf(s, reason)
    BY <1>2, <2>1, SellLeaves DEF SellAll
  <2>3. QED
    BY <1>2, <2>1, <2>2, WholePositionGoes DEF SaleOf
<1>4. IsFiniteSet(Held) /\ Cardinality(Held) \in Nat
  <2>1. Held \in SUBSET Symbols
    BY DEF EngineInv, Account
  <2>2. QED
    BY <2>1, SymbolsCount
<1>5. Cardinality(Held \ {s}) = Cardinality(Held) - 1 /\ IsFiniteSet(Held \ {s})
  BY <1>2, <1>4, FS_RemoveElement
<1>6. Cardinality(Held') <= Cardinality(Held \ {s}) /\ Cardinality(Held') \in Nat
  <2>1. Held' \subseteq Held \ {s}
    BY <1>3
  <2>2. QED
    BY <1>5, <2>1, FS_Subset, FS_CardinalityType
<1>7. QED
  BY <1>1, <1>4, <1>5, <1>6 DEF PhasesLeft, TurnsLeft

\* An evaluation leaves one holding less.
LEMMA EvaluationTurns ==
    ASSUME EngineInv, MoneyInv, NEW s \in todo,
           HoldUntraded(s) \/ SellOnRule(s) \/ SellOnSignal(s) \/ Hold(s)
    PROVE  day' = day /\ PhasesLeft' = PhasesLeft /\ TurnsLeft' < TurnsLeft
<1>1. phase = "holdings" /\ phase' = phase /\ day' = day /\ todo' = todo \ {s}
  BY DEF HoldUntraded, SellOnRule, SellOnSignal, Hold, Evaluating
<1>2. IsFiniteSet(todo) /\ Cardinality(todo) \in Nat
  <2>1. todo \in SUBSET Symbols
    BY DEF EngineInv, Candidates, MoneyInv, DayTyped
  <2>2. QED
    BY <2>1, SymbolsCount
<1>3. Cardinality(todo \ {s}) = Cardinality(todo) - 1
  BY <1>2, FS_RemoveElement
<1>4. QED
  BY <1>1, <1>2, <1>3 DEF PhasesLeft, TurnsLeft

\* A candidate is passed over, ordered, or bought or dropped, and cash raised for it.
LEMMA BuyingTurns ==
    ASSUME EngineInv, LossInv, MoneyInv, SkipCandidate \/ StartOrder \/ RaiseCash \/ PlaceOrder
    PROVE  /\ day' = day /\ PhasesLeft' = PhasesLeft
           /\ TurnsLeft' < TurnsLeft \/ (TurnsLeft' = TurnsLeft /\ SharesHeld' < SharesHeld)
<1>1. day' = day /\ Ordered /\ Ordered' /\ PhasesLeft' = PhasesLeft
  BY DEF SkipCandidate, StartOrder, RaiseCash, PlaceOrder, Ordered, PhasesLeft
<1>2. Len(queue) \in Nat /\ (queue # << >> => Len(Tail(queue)) = Len(queue) - 1)
  BY LenProperties, HeadTailProperties DEF EngineInv, Candidates
<1>3. CASE SkipCandidate \/ PlaceOrder
  <2>1. queue # << >> /\ queue' = Tail(queue) /\ phase' = "buying"
    BY <1>3 DEF SkipCandidate, PlaceOrder, EngineInv, Counted
  <2>2. QED
    BY <1>1, <1>2, <2>1 DEF TurnsLeft, Ordered
<1>4. CASE StartOrder
  BY <1>1, <1>2, <1>4 DEF StartOrder, TurnsLeft
<1>5. CASE RaiseCash
  <2>1. PICK s \in Held : \E q, cent, date, reason : Sell(s, q, cent, date, reason)
    BY <1>5 DEF RaiseCash
  <2>2. SharesHeld' < SharesHeld
    BY <2>1, SaleTakesShares DEF EngineInv, LossInv, Priced, MoneyInv
  <2>3. phase' = phase /\ queue' = queue /\ phase = "ordering"
    BY <1>5 DEF RaiseCash
  <2>4. TurnsLeft' = TurnsLeft
    BY <2>3 DEF TurnsLeft
  <2>5. QED
    BY <1>1, <2>2, <2>4
<1>6. QED
  BY <1>3, <1>4, <1>5

\* For any data, rules, orders and rates: the loop of a backtest comes closer to its
\* end with every step, in an order that has no infinite descent.  That a step is
\* there, and is taken, is what RunEnds adds.
THEOREM BacktestsMakeProgress == Spec => []ProgressIsBounded /\ EveryStepIsCloser
<1>1. EngineInv /\ MoneyInv => ProgressIsBounded
  BY ProgressBounded
<1>2. EngineInv /\ LossInv /\ MoneyInv /\ [Next]_vars => [Closer]_vars
  <2> SUFFICES ASSUME EngineInv, LossInv, MoneyInv, Next, ~UNCHANGED vars PROVE Closer
    OBVIOUS
  <2> USE DEF Closer
  <2>1. CASE StartDay
    BY <2>1, LaterDay
  <2>2. CASE OpenHoldings \/ CloseHoldings \/ CollectCandidates \/ ApplyPositionLimits
               \/ CloseDay \/ Finish
    BY <2>2, PhaseOver
  <2>3. CASE ForceSellDelisted \/ ForceSellEstimated
    BY <2>3, ForcedSaleTurns
  <2>4. CASE \E s \in todo : HoldUntraded(s) \/ SellOnRule(s) \/ SellOnSignal(s) \/ Hold(s)
    BY <2>4, EvaluationTurns
  <2>5. CASE SkipCandidate \/ StartOrder \/ RaiseCash \/ PlaceOrder
    BY <2>5, BuyingTurns
  <2>6. QED
    BY <2>1, <2>2, <2>3, <2>4, <2>5 DEF Next
<1>3. Spec => [](EngineInv /\ LossInv /\ MoneyInv)
  BY EngineInvHolds, LossInvHolds, MoneyInvHolds, PTL DEF Spec
<1>4. QED
  BY <1>1, <1>2, <1>3, PTL DEF Spec, Safety, EveryStepIsCloser

=============================================================================
