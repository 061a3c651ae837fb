---------------------------- MODULE PortfolioProofs ----------------------------
(***************************************************************************)
(* The account of portfolio.py for any symbols, prices, dates, rates and   *)
(* number of trades: it is never overdrawn, its cash is what the log says, *)
(* a sale by symbol empties the oldest lots first, finds what it was       *)
(* promised and splits the proceeds within rounding.                       *)
(*                                                                         *)
(* The quantity of the order is looked at once, before the loop.  The      *)
(* invariant (Underway) therefore keeps, from turn to turn, that the lots  *)
(* left cover what is left to sell, and how far the parts paid so far are  *)
(* from their exact share.                                                 *)
(*                                                                         *)
(* Two more things follow from it.  Seen from outside the loop, the        *)
(* portfolio is an Account; and what Results reads out of the log when a   *)
(* run is over is the account, because every state of a run keeps the      *)
(* entries of each trade group in step with its lot (ResultsInv).          *)
(***************************************************************************)
EXTENDS Results, Amounts, SequenceTheorems

\* The entries of the log, as what each adds to the cash and as what was paid.
Signed(l)   == [i \in DOMAIN l |-> IF Bought(l[i]) THEN -l[i].net ELSE l[i].net]
Nets(l)     == [i \in DOMAIN l |-> l[i].net]
Latest(l, n) == (Len(l) - n + 1)..Len(l)
Remaining   == [g \in Live |-> groups[g].remaining]

EntryType ==
    [id : Int, kind : {"BUY", "PARTIAL_SELL", "SELL"}, symbol : Symbols, price : Prices,
     qty : Int, net : Int, date : Dates, signal : Dates,
     reason : {"entry_signal", "rule", "fifo"}]

\* The exact share of what is sold so far, times the quantity, and its error.
Underway(order) ==
    LET paid == Total(Nets(log), Latest(log, order.parts))
    IN  /\ order.net \in Nat
        /\ order.net = SellProceeds(order.price, order.qty, order.date)
        /\ order.left \in 1..Total(Remaining, GroupsOf(order.symbol))
        /\ order.left <= order.qty
        /\ order.parts <= order.qty - order.left
        /\ order.parts <= Len(log)
        /\ 2 * (order.qty * paid) - 2 * (order.net * (order.qty - order.left))
             \in (-(order.qty * order.parts))..(order.qty * order.parts)

\* The account, and the sale in progress.
AccountInv ==
    /\ cash \in Nat
    /\ nextId \in Nat \ {0}
    /\ Live \subseteq 1..(nextId - 1)
    /\ groups \in [Live -> LotType]
    /\ \A g \in Live : groups[g].remaining <= groups[g].entryQty
    /\ Held = {groups[g].symbol : g \in Live}
    /\ quote \in [Held -> [cur : Prices, peak : Prices]]
    /\ log \in Seq(EntryType)
    /\ cash = InitialCash + Total(Signed(log), DOMAIN log)

SaleInv ==
    /\ sale \in Seq(OrderType) /\ Len(sale) <= 1
    /\ sale # << >> => Underway(sale[1])

PortfolioInv == AccountInv /\ SaleInv

-----------------------------------------------------------------------------
\* The sums of Portfolio.tla are totals.

LEMMA QuantityIsTotal ==
    ASSUME NEW s, IsFiniteSet(GroupsOf(s))
    PROVE  Quantity(s) = Total(Remaining, GroupsOf(s))
<1> DEFINE e == [g \in GroupsOf(s) |-> groups[g].remaining]
<1>1. DOMAIN e = GroupsOf(s) /\ \A g \in GroupsOf(s) : e[g] = Remaining[g]
  BY DEF Remaining, GroupsOf
<1>2. SumFunction(e) = Total(Remaining, GroupsOf(s))
  <2> HIDE DEF e
  <2>1. QED
    BY <1>1, SumOfSome
<1>3. QED
  BY <1>2 DEF Quantity

LEMMA BalanceIsTotal ==
    ASSUME cash = InitialCash + Total(Signed(log), DOMAIN log)
    PROVE  CashMatchesLog
<1>1. Signed(log) = [i \in DOMAIN log |-> Flow(log[i])] /\ DOMAIN Signed(log) = DOMAIN log
  BY DEF Signed, Flow
<1>2. SumFunction(Signed(log)) = Total(Signed(log), DOMAIN log)
  BY <1>1, SumIsTotal
<1>3. QED
  BY <1>1, <1>2 DEF CashMatchesLog

\* What one turn of the loop or all of them paid.
LEMMA PaidIsTotal ==
    ASSUME NEW l, NEW D, IsFiniteSet(D), D \subseteq DOMAIN l
    PROVE  SumFunction([i \in D |-> l[i].net]) = Total(Nets(l), D)
<1> DEFINE e == [i \in D |-> l[i].net]
<1>1. DOMAIN e = D /\ \A i \in D : e[i] = Nets(l)[i]
  BY DEF Nets
<1> HIDE DEF e
<1>2. SumFunction(e) = Total(Nets(l), D)
  BY <1>1, SumOfSome
<1>3. QED
  BY <1>2 DEF e

-----------------------------------------------------------------------------
\* The two operations of the account.

\* An entry more in the log.
LEMMA Appended ==
    ASSUME log \in Seq(EntryType), NEW e \in EntryType, log' = Append(log, e)
    PROVE  /\ Len(log) \in Nat /\ DOMAIN log = 1..Len(log) /\ log' \in Seq(EntryType)
           /\ Len(log') = Len(log) + 1 /\ DOMAIN log' = 1..(Len(log) + 1)
           /\ log'[Len(log) + 1] = e
           /\ \A i \in 1..Len(log) : log'[i] = log[i]
           /\ \A i \in DOMAIN log' : log'[i] \in EntryType
           /\ \A i \in DOMAIN log : log[i] \in EntryType
<1>1. /\ Len(log) \in Nat /\ log' \in Seq(EntryType) /\ Len(log') = Len(log) + 1
      /\ log'[Len(log) + 1] = e
      /\ \A i \in 1..Len(log) : log'[i] = log[i]
  OBVIOUS
<1>2. /\ log \in [1..Len(log) -> EntryType] /\ log' \in [1..Len(log') -> EntryType]
  BY <1>1, LenProperties
<1>3. QED
  BY <1>1, <1>2

\* It adds what it stands for to every total that takes it in.
LEMMA AppendedTotals ==
    ASSUME log \in Seq(EntryType), NEW e \in EntryType, log' = Append(log, e)
    PROVE  /\ Total(Signed(log), DOMAIN log) \in Int
           /\ Total(Signed(log'), DOMAIN log')
                = Total(Signed(log), DOMAIN log) + (IF Bought(e) THEN -e.net ELSE e.net)
           /\ \A n \in 0..Len(log) :
                 /\ Total(Nets(log), Latest(log, n)) \in Int
                 /\ Total(Nets(log'), Latest(log', n + 1)) = Total(Nets(log), Latest(log, n)) + e.net
<1> DEFINE k == Len(log)
<1>1. /\ k \in Nat /\ DOMAIN log = 1..k /\ Len(log') = k + 1 /\ DOMAIN log' = 1..(k + 1)
      /\ log'[k + 1] = e
      /\ \A i \in 1..k : log'[i] = log[i]
      /\ \A i \in DOMAIN log' : log'[i] \in EntryType
  BY Appended
<1>2. \A i \in DOMAIN log' : Nets(log')[i] \in Int /\ Signed(log')[i] \in Int
  <2>1. \A i \in DOMAIN log' : log'[i].net \in Int
    BY <1>1 DEF EntryType
  <2>2. QED
    BY <2>1 DEF Nets, Signed
<1>3. \A i \in DOMAIN log : Nets(log)[i] = Nets(log')[i] /\ Signed(log)[i] = Signed(log')[i]
  BY <1>1 DEF Nets, Signed
<1>4. /\ Nets(log')[k + 1] = e.net
      /\ Signed(log')[k + 1] = IF Bought(e) THEN -e.net ELSE e.net
  BY <1>1 DEF Nets, Signed
<1> HIDE DEF k
<1>5. ASSUME NEW i \in 1..(k + 1)
      PROVE  /\ IsFiniteSet(i..k) /\ k + 1 \notin i..k /\ i..(k + 1) = (i..k) \cup {k + 1}
             /\ i..k \subseteq DOMAIN log /\ i..(k + 1) \subseteq DOMAIN log'
  <2>1. IsFiniteSet(i..k)
    BY <1>1, FS_Interval
  <2>2. QED
    BY <1>1, <2>1
<1>6. /\ Total(Signed(log), 1..k) \in Int
      /\ Total(Signed(log'), 1..(k + 1)) = Total(Signed(log), 1..k) + Signed(log')[k + 1]
  <2>1. 1 \in 1..(k + 1)
    BY <1>1
  <2> DEFINE S == 1..k
             R == 1..(k + 1)
  <2>2. /\ IsFiniteSet(S) /\ k + 1 \notin S /\ R = S \cup {k + 1}
        /\ S \subseteq DOMAIN log /\ R \subseteq DOMAIN log'
    BY <1>5, <2>1
  <2> HIDE DEF S, R
  <2>3. /\ \A y \in S : Signed(log)[y] = Signed(log')[y]
        /\ \A y \in S \cup {k + 1} : Signed(log')[y] \in Int
    BY <1>2, <1>3, <2>2
  <2>4. /\ Total(Signed(log), S) \in Int
        /\ Total(Signed(log'), S \cup {k + 1}) = Total(Signed(log), S) + Signed(log')[k + 1]
    BY <2>2, <2>3, TotalOfNewMember
  <2>5. QED
    BY <2>2, <2>4 DEF S, R
<1>7. ASSUME NEW n \in 0..k
      PROVE  /\ Total(Nets(log), Latest(log, n)) \in Int
             /\ Total(Nets(log'), Latest(log', n + 1)) = Total(Nets(log), Latest(log, n)) + e.net
  <2>1. k - n + 1 \in 1..(k + 1)
    BY <1>1
  <2> DEFINE S == (k - n + 1)..k
             R == (k - n + 1)..(k + 1)
  <2>2. /\ IsFiniteSet(S) /\ k + 1 \notin S /\ R = S \cup {k + 1}
        /\ S \subseteq DOMAIN log /\ R \subseteq DOMAIN log'
    BY <1>5, <2>1
  <2>3. Latest(log, n) = S /\ Latest(log', n + 1) = R
    <3>1. (k + 1) - (n + 1) + 1 = k - n + 1
      BY <1>1
    <3>2. Latest(log', n + 1) = ((k + 1) - (n + 1) + 1)..(k + 1)
      BY <1>1 DEF Latest
    <3>3. QED
      BY <3>1, <3>2 DEF Latest, k
  <2> HIDE DEF S, R
  <2>4. /\ \A y \in S : Nets(log)[y] = Nets(log')[y]
        /\ \A y \in S \cup {k + 1} : Nets(log')[y] \in Int
    BY <1>2, <1>3, <2>2
  <2>5. /\ Total(Nets(log), S) \in Int
        /\ Total(Nets(log'), S \cup {k + 1}) = Total(Nets(log), S) + Nets(log')[k + 1]
    BY ONLY <2>2, <2>4, TotalOfNewMember
  <2>6. QED
    BY <1>4, <2>2, <2>3, <2>5
<1>8. QED
  BY <1>1, <1>4, <1>6, <1>7 DEF k

\* There are finitely many trade groups.
LEMMA GroupsAreFew ==
    ASSUME AccountInv
    PROVE  \A S \in SUBSET Live : IsFiniteSet(S)
<1>1. IsFiniteSet(1..(nextId - 1))
  BY FS_Interval DEF AccountInv
<1>2. QED
  BY <1>1, FS_Subset DEF AccountInv

LEMMA BuyKeepsAccount ==
    ASSUME AccountInv, NEW s \in Symbols, NEW price \in Prices, NEW q \in 1..MaxQty,
           NEW date \in Dates, Buy(s, price, q, BuyCost(price, q), date, date)
    PROVE  AccountInv'
<1> DEFINE cost == BuyCost(price, q)
           e    == Trade(nextId, "BUY", s, price, q, cost, date, date, "entry_signal")
           lot  == [symbol |-> s, entryDate |-> date, entryPrice |-> price,
                    entryQty |-> q, remaining |-> q]
<1>1. price \in Nat /\ q \in Nat /\ q \in 1..MaxQty /\ cost \in Int
  BY CallsAssumption, BuyCostIsAnAmount
<1>2. /\ ~CashShort(cost) /\ cash' = cash - cost
      /\ groups' = [h \in Live \cup {nextId} |-> IF h = nextId THEN lot ELSE groups[h]]
      /\ quote' = [h \in Held \cup {s} |->
                     IF h \in Held THEN quote[h] ELSE [cur |-> price, peak |-> price]]
      /\ log' = Append(log, e) /\ nextId' = nextId + 1
  BY DEF Buy
<1>3. e \in EntryType /\ e.net = cost /\ Bought(e)
  BY <1>1 DEF Trade, EntryType, Bought, AccountInv
<1>4. lot \in LotType /\ lot.symbol = s /\ lot.remaining <= lot.entryQty
  BY <1>1 DEF LotType
<1> HIDE DEF cost, e, lot
<1>5. nextId \in Nat \ {0} /\ nextId \notin Live
  BY DEF AccountInv
<1>6. /\ nextId' \in Nat \ {0}
      /\ Live' = Live \cup {nextId}
      /\ Live' \subseteq 1..(nextId' - 1)
  <2>1. Live' = Live \cup {nextId}
    BY <1>2 DEF Live
  <2>2. QED
    BY <1>2, <1>5, <2>1 DEF AccountInv
<1>7. \A h \in Live' : groups'[h] = IF h = nextId THEN lot ELSE groups[h]
  BY <1>2, <1>6
<1>8. /\ groups' \in [Live' -> LotType]
      /\ \A h \in Live' : groups'[h].remaining <= groups'[h].entryQty
  <2>1. \A h \in Live' : groups'[h] \in LotType /\ groups'[h].remaining <= groups'[h].entryQty
    BY <1>4, <1>6, <1>7 DEF AccountInv
  <2>2. groups' = [h \in Live' |-> groups'[h]]
    BY <1>2, <1>6
  <2>3. QED
    BY <2>1, <2>2
<1>9. Held' = {groups'[h].symbol : h \in Live'}
  <2>1. Held' = Held \cup {s}
    BY <1>2 DEF Held
  <2>2. Held = {groups[h].symbol : h \in Live}
    BY DEF AccountInv
  <2>3. groups'[nextId].symbol = s /\ \A h \in Live : groups'[h].symbol = groups[h].symbol
    BY <1>4, <1>5, <1>6, <1>7
  <2>4. QED
    BY <1>6, <2>1, <2>2, <2>3
<1>10. quote' \in [Held' -> [cur : Prices, peak : Prices]]
  <2>1. Held' = Held \cup {s}
    BY <1>2 DEF Held
  <2>2. quote \in [Held -> [cur : Prices, peak : Prices]]
    BY DEF AccountInv
  <2>3. QED
    BY <1>2, <2>1, <2>2
<1>11. cash' \in Nat
  BY <1>1, <1>2 DEF AccountInv, CashShort, cost
<1>12. /\ log' \in Seq(EntryType)
       /\ cash' = InitialCash + Total(Signed(log'), DOMAIN log')
  <2>1. log \in Seq(EntryType)
    BY DEF AccountInv
  <2>2. log' \in Seq(EntryType)
    BY <1>2, <1>3, <2>1, Appended
  <2>3. /\ Total(Signed(log), DOMAIN log) \in Int
        /\ Total(Signed(log'), DOMAIN log') = Total(Signed(log), DOMAIN log) + (-cost)
    BY <1>2, <1>3, <2>1, AppendedTotals
  <2>4. QED
    BY <1>1, <1>2, <2>2, <2>3, CashAssumption DEF AccountInv, cost
<1>13. QED
  BY <1>6, <1>8, <1>9, <1>10, <1>11, <1>12 DEF AccountInv

\* A sale leaves the rest of the lot, or no lot.
LEMMA SaleLeaves ==
    ASSUME AccountInv, NEW g \in Live, NEW price, NEW q, NEW net, NEW date, NEW reason,
           SellTradeGroup(g, price, q, net, date, date, reason)
    PROVE  /\ q \in 1..groups[g].remaining /\ groups[g] \in LotType
           /\ \A h \in Live' : h \in Live
           /\ \A h \in Live : h # g => h \in Live' /\ groups'[h] = groups[h]
           /\ g \in Live' <=> groups[g].remaining - q # 0
           /\ g \in Live' => groups'[g] = [groups[g] EXCEPT !.remaining = groups[g].remaining - q]
           /\ groups' = [h \in Live' |-> groups'[h]]
           /\ quote' = [s \in {groups[h].symbol : h \in Live'} |-> quote[s]]
<1>1. groups[g] \in LotType
  BY DEF AccountInv
<1> DEFINE kept == KeptAfter(g, q)
<1>2. /\ q \in 1..groups[g].remaining
      /\ groups' = [h \in kept |-> IF h = g THEN [groups[g] EXCEPT !.remaining = LeftOf(g, q)]
                                   ELSE groups[h]]
      /\ quote' = [s \in {groups[h].symbol : h \in kept} |-> quote[s]]
  BY DEF SellTradeGroup
<1>3. /\ kept \subseteq Live
      /\ \A h \in Live : h # g => h \in kept
      /\ g \in kept <=> groups[g].remaining - q # 0
  BY DEF KeptAfter, LeftOf
<1> HIDE DEF kept
<1>4. Live' = kept
  BY <1>2 DEF Live
<1>5. LeftOf(g, q) = groups[g].remaining - q
  BY DEF LeftOf
<1>6. QED
  BY <1>1, <1>2, <1>3, <1>4, <1>5

LEMMA SaleKeepsAccount ==
    ASSUME AccountInv, NEW g \in Live, NEW price \in Prices, NEW q, NEW net \in Nat,
           NEW date \in Dates, NEW reason \in {"rule", "fifo"},
           SellTradeGroup(g, price, q, net, date, date, reason)
    PROVE  AccountInv'
<1>1. /\ q \in 1..groups[g].remaining /\ groups[g] \in LotType
      /\ \A h \in Live' : h \in Live
      /\ \A h \in Live : h # g => h \in Live' /\ groups'[h] = groups[h]
      /\ g \in Live' <=> groups[g].remaining - q # 0
      /\ g \in Live' => groups'[g] = [groups[g] EXCEPT !.remaining = groups[g].remaining - q]
      /\ groups' = [h \in Live' |-> groups'[h]]
      /\ quote' = [s \in {groups[h].symbol : h \in Live'} |-> quote[s]]
  BY SaleLeaves
<1>2. \A h \in Live' : /\ groups'[h] \in LotType /\ groups'[h].symbol = groups[h].symbol
                       /\ groups'[h].remaining <= groups'[h].entryQty
  <2>1. ASSUME NEW h \in Live', h = g
        PROVE  /\ groups'[h] \in LotType /\ groups'[h].symbol = groups[h].symbol
               /\ groups'[h].remaining <= groups'[h].entryQty
    <3>1. groups[g].remaining - q \in 1..MaxQty /\ groups[g].remaining - q <= groups[g].entryQty
      <4>1. /\ groups[g].remaining \in 1..MaxQty /\ groups[g].entryQty \in 1..MaxQty
            /\ groups[g].remaining <= groups[g].entryQty
        BY <1>1 DEF LotType, AccountInv
      <4>2. groups[g].remaining - q # 0
        BY <1>1, <2>1
      <4>3. q \in 1..groups[g].remaining
        BY <1>1
      <4>4. MaxQty \in Nat
        BY CallsAssumption
      <4>5. QED
        BY ONLY <4>1, <4>2, <4>3, <4>4
    <3>2. QED
      BY <1>1, <2>1, <3>1 DEF LotType
  <2>2. ASSUME NEW h \in Live', h # g
        PROVE  /\ groups'[h] \in LotType /\ groups'[h].symbol = groups[h].symbol
               /\ groups'[h].remaining <= groups'[h].entryQty
    BY <1>1, <2>2 DEF AccountInv
  <2>3. QED
    BY <2>1, <2>2
<1>3. groups' \in [Live' -> LotType]
  BY <1>1, <1>2
<1>4. /\ Held' = {groups'[h].symbol : h \in Live'}
      /\ quote' \in [Held' -> [cur : Prices, peak : Prices]]
  <2> DEFINE held == {groups[h].symbol : h \in Live'}
  <2>1. Held' = held
    BY <1>1 DEF Held
  <2>2. held = {groups'[h].symbol : h \in Live'}
    BY <1>2
  <2>3. held \subseteq Held
    BY <1>1 DEF AccountInv
  <2>4. quote' = [s \in held |-> quote[s]] /\ quote \in [Held -> [cur : Prices, peak : Prices]]
    BY <1>1 DEF AccountInv
  <2> HIDE DEF held
  <2>5. QED
    BY <2>1, <2>2, <2>3, <2>4
<1>5. nextId' = nextId /\ cash' = cash + net
  BY DEF SellTradeGroup, PaidFor
<1>6. /\ log' \in Seq(EntryType)
      /\ cash' = InitialCash + Total(Signed(log'), DOMAIN log')
  <2> DEFINE kind == IF q < groups[g].entryQty \/ LeftOf(g, q) > 0 THEN "PARTIAL_SELL" ELSE "SELL"
             e    == Trade(g, kind, groups[g].symbol, price, q, net, date, date, reason)
  <2>1. log' = Append(log, e)
    BY DEF SellTradeGroup
  <2>2. e \in EntryType /\ e.net = net /\ ~Bought(e)
    <3>1. /\ g \in Int /\ q \in Int /\ groups[g].symbol \in Symbols
          /\ kind \in {"PARTIAL_SELL", "SELL"}
      BY <1>1 DEF AccountInv, LotType
    <3> HIDE DEF kind
    <3>2. QED
      BY <3>1 DEF Trade, EntryType, Bought
  <2> HIDE DEF e
  <2>3. log \in Seq(EntryType)
    BY DEF AccountInv
  <2>4. log' \in Seq(EntryType)
    BY <2>1, <2>2, <2>3, Appended
  <2>5. /\ Total(Signed(log), DOMAIN log) \in Int
        /\ Total(Signed(log'), DOMAIN log') = Total(Signed(log), DOMAIN log) + net
    BY <2>1, <2>2, <2>3, AppendedTotals
  <2>6. QED
    BY <1>5, <2>4, <2>5, CashAssumption DEF AccountInv
<1>7. /\ cash' \in Nat /\ nextId' \in Nat \ {0}
      /\ Live' \subseteq 1..(nextId' - 1)
      /\ \A h \in Live' : groups'[h].remaining <= groups'[h].entryQty
  BY <1>1, <1>2, <1>5 DEF AccountInv
<1>8. QED
  BY <1>3, <1>4, <1>6, <1>7 DEF AccountInv

\* A sale takes what it sells out of the shares of its symbol.
LEMMA SharesAfterSale ==
    ASSUME AccountInv, NEW g \in Live, NEW price, NEW q, NEW net, NEW date, NEW reason,
           SellTradeGroup(g, price, q, net, date, date, reason),
           NEW s, s = groups[g].symbol
    PROVE  /\ Total(Remaining, GroupsOf(s)) \in Int
           /\ Total(Remaining', GroupsOf(s)') = Total(Remaining, GroupsOf(s)) - q
<1> DEFINE rest == GroupsOf(s) \ {g}
           a    == groups[g].remaining
<1>1. /\ q \in 1..a /\ groups[g] \in LotType
      /\ \A h \in Live' : h \in Live
      /\ \A h \in Live : h # g => h \in Live' /\ groups'[h] = groups[h]
      /\ g \in Live' <=> a - q # 0
      /\ g \in Live' => groups'[g] = [groups[g] EXCEPT !.remaining = a - q]
  BY SaleLeaves
<1>2. a \in Int /\ groups[g] = [groups[g] EXCEPT !.remaining = a]
  BY <1>1 DEF LotType
<1>3. /\ rest \subseteq Live /\ g \notin rest /\ GroupsOf(s) = rest \cup {g}
      /\ IsFiniteSet(rest)
  <2>1. rest \subseteq Live /\ g \notin rest /\ GroupsOf(s) = rest \cup {g}
    BY DEF GroupsOf
  <2> HIDE DEF rest
  <2>2. QED
    BY <2>1, GroupsAreFew
<1>4. GroupsOf(s)' = IF a - q = 0 THEN rest ELSE rest \cup {g}
  <2>1. GroupsOf(s)' = {h \in Live' : groups'[h].symbol = s}
    BY DEF GroupsOf
  <2>2. g \in Live' => groups'[g].symbol = s
    BY <1>1 DEF LotType
  <2>3. QED
    BY <1>1, <2>1, <2>2 DEF GroupsOf
<1>5. /\ \A h \in rest : Remaining[h] = Remaining'[h] /\ Remaining[h] \in Int
      /\ Remaining[g] = a
      /\ g \in Live' => Remaining'[g] = a - q
  <2>1. \A h \in Live : Remaining[h] = groups[h].remaining /\ Remaining[h] \in Int
    BY DEF Remaining, AccountInv, LotType
  <2>2. \A h \in Live' : Remaining'[h] = groups'[h].remaining
    BY DEF Remaining
  <2>3. \A h \in rest : h \in Live /\ h \in Live' /\ groups'[h] = groups[h]
    BY <1>1, <1>3
  <2>4. g \in Live' => groups'[g].remaining = a - q
    BY <1>1 DEF LotType
  <2> HIDE DEF rest
  <2>5. QED
    BY <2>1, <2>2, <2>3, <2>4
<1> DEFINE f == Remaining
           e == Remaining'
<1> HIDE DEF rest, a, f, e
<1>6. /\ \A h \in rest : f[h] = e[h] /\ f[h] \in Int
      /\ f[g] = a
      /\ g \in Live' => e[g] = a - q
  BY <1>5 DEF f, e
<1>7. Total(f, rest) \in Int /\ Total(f, rest \cup {g}) = Total(f, rest) + a
  BY <1>2, <1>3, <1>6, TotalTyped, TotalOfOneMore
<1>8. CASE a - q = 0
  <2>1. Total(e, rest) = Total(f, rest)
    BY <1>3, <1>6, TotalOfEqual
  <2>2. QED
    BY <1>1, <1>2, <1>3, <1>4, <1>7, <1>8, <2>1 DEF f, e
<1>9. CASE a - q # 0
  <2>1. e[g] = a - q /\ a - q \in Int
    BY <1>1, <1>2, <1>6, <1>9
  <2>2. Total(e, rest \cup {g}) = Total(f, rest) + (a - q)
    BY <1>3, <1>6, <2>1, TotalOfNewMember
  <2>3. QED
    BY <1>1, <1>2, <1>3, <1>4, <1>7, <1>9, <2>2 DEF f, e
<1>10. QED
  BY <1>8, <1>9

\* The shares of s become n more, those of any other symbol stay.
SharesMove(s, n) ==
    \A t : Total(Remaining', GroupsOf(t)') = Total(Remaining, GroupsOf(t)) + (IF t = s THEN n ELSE 0)

LEMMA SharesAreAmounts ==
    ASSUME AccountInv, NEW t
    PROVE  Total(Remaining, GroupsOf(t)) \in Nat
<1>1. GroupsOf(t) \in SUBSET Live /\ \A g \in Live : Remaining[g] \in Nat
  BY DEF GroupsOf, Remaining, AccountInv, LotType
<1>2. QED
  BY <1>1, GroupsAreFew, TotalOfAmounts

LEMMA AllSharesAreAmounts == AccountInv => \A t : Total(Remaining, GroupsOf(t)) \in Nat
  BY SharesAreAmounts

LEMMA OtherShares ==
    ASSUME AccountInv, NEW t, GroupsOf(t)' = GroupsOf(t),
           \A h \in GroupsOf(t) : groups'[h] = groups[h]
    PROVE  Total(Remaining', GroupsOf(t)') = Total(Remaining, GroupsOf(t))
<1>1. IsFiniteSet(GroupsOf(t))
  <2>1. GroupsOf(t) \in SUBSET Live
    BY DEF GroupsOf
  <2>2. QED
    BY <2>1, GroupsAreFew
<1>2. \A h \in GroupsOf(t) : h \in Live /\ h \in Live'
  <2>1. GroupsOf(t)' = {h \in Live' : groups'[h].symbol = t}
    BY DEF GroupsOf
  <2>2. QED
    BY <2>1 DEF GroupsOf
<1>3. \A h \in GroupsOf(t) : Remaining'[h] = Remaining[h]
  BY <1>2 DEF Remaining
<1>4. QED
  BY <1>1, <1>3, TotalOfEqual

LEMMA SaleMoves ==
    ASSUME AccountInv, NEW g \in Live, NEW price, NEW q, NEW net, NEW date, NEW reason,
           SellTradeGroup(g, price, q, net, date, date, reason),
           NEW s, s = groups[g].symbol
    PROVE  SharesMove(s, -q)
<1>1. /\ q \in 1..groups[g].remaining /\ groups[g] \in LotType
      /\ \A h \in Live' : h \in Live
      /\ \A h \in Live : h # g => h \in Live' /\ groups'[h] = groups[h]
      /\ g \in Live' => groups'[g] = [groups[g] EXCEPT !.remaining = groups[g].remaining - q]
  BY SaleLeaves
<1>2. g \in Live' => groups'[g].symbol = s
  BY <1>1 DEF LotType
<1>3. ASSUME NEW t, t # s
      PROVE  Total(Remaining', GroupsOf(t)') = Total(Remaining, GroupsOf(t))
  <2>1. GroupsOf(t)' = {h \in Live' : groups'[h].symbol = t}
    BY DEF GroupsOf
  <2>2. GroupsOf(t)' = GroupsOf(t) /\ \A h \in GroupsOf(t) : groups'[h] = groups[h]
    BY <1>1, <1>2, <1>3, <2>1 DEF GroupsOf
  <2>3. QED
    BY <2>2, OtherShares
<1>4. /\ Total(Remaining, GroupsOf(s)) \in Int /\ q \in Int
      /\ Total(Remaining', GroupsOf(s)') = Total(Remaining, GroupsOf(s)) - q
  BY <1>1, SharesAfterSale DEF LotType
<1>5. ASSUME NEW t PROVE Total(Remaining, GroupsOf(t)) \in Int
  BY SharesAreAmounts
<1>6. QED
  BY <1>3, <1>4, <1>5 DEF SharesMove

LEMMA BuyMoves ==
    ASSUME AccountInv, NEW s \in Symbols, NEW price \in Prices, NEW q \in 1..MaxQty,
           NEW cost, NEW date, Buy(s, price, q, cost, date, date)
    PROVE  SharesMove(s, q)
<1> DEFINE lot == [symbol |-> s, entryDate |-> date, entryPrice |-> price,
                   entryQty |-> q, remaining |-> q]
<1>1. groups' = [h \in Live \cup {nextId} |-> IF h = nextId THEN lot ELSE groups[h]]
  BY DEF Buy
<1>2. lot.symbol = s /\ lot.remaining = q /\ q \in Int
  OBVIOUS
<1> HIDE DEF lot
<1>3. nextId \notin Live
  BY DEF AccountInv
<1>4. /\ Live' = Live \cup {nextId} /\ groups'[nextId] = lot
      /\ \A h \in Live : groups'[h] = groups[h]
  BY <1>1, <1>3 DEF Live
<1>5. ASSUME NEW t PROVE GroupsOf(t)' = IF t = s THEN GroupsOf(t) \cup {nextId} ELSE GroupsOf(t)
  <2>1. GroupsOf(t)' = {h \in Live' : groups'[h].symbol = t}
    BY DEF GroupsOf
  <2>2. QED
    BY <1>2, <1>4, <2>1 DEF GroupsOf
<1>6. ASSUME NEW t, t # s
      PROVE  Total(Remaining', GroupsOf(t)') = Total(Remaining, GroupsOf(t))
  <2>1. \A h \in GroupsOf(t) : groups'[h] = groups[h]
    BY <1>4 DEF GroupsOf
  <2>2. QED
    BY <1>5, <1>6, <2>1, OtherShares
<1>7. Total(Remaining', GroupsOf(s)') = Total(Remaining, GroupsOf(s)) + q
  <2> DEFINE S == GroupsOf(s)
             f == Remaining
             e == Remaining'
  <2>1. S \in SUBSET Live /\ IsFiniteSet(S) /\ nextId \notin S /\ GroupsOf(s)' = S \cup {nextId}
    <3>1. S \in SUBSET Live /\ nextId \notin S
      BY <1>3 DEF GroupsOf
    <3>2. GroupsOf(s)' = S \cup {nextId}
      BY <1>5
    <3> HIDE DEF S
    <3>3. QED
      BY <3>1, <3>2, GroupsAreFew
  <2>2. \A h \in Live : f[h] = e[h] /\ e[h] \in Int
    BY <1>4 DEF Remaining, AccountInv, LotType
  <2>3. e[nextId] = q
    BY <1>2, <1>4 DEF Remaining
  <2> HIDE DEF S, f, e
  <2>4. Total(e, S \cup {nextId}) = Total(f, S) + e[nextId]
    BY <1>2, <2>1, <2>2, <2>3, TotalOfNewMember
  <2>5. QED
    BY <2>1, <2>3, <2>4 DEF S, f, e
<1>8. ASSUME NEW t PROVE Total(Remaining, GroupsOf(t)) \in Int
  BY SharesAreAmounts
<1>9. QED
  BY <1>6, <1>7, <1>8 DEF SharesMove

-----------------------------------------------------------------------------
\* The loop of a sale by symbol.

LEMMA SmallerOfTwo ==
    ASSUME NEW a \in Int, NEW b \in Int
    PROVE  Min({a, b}) \in {a, b} /\ Min({a, b}) <= a /\ Min({a, b}) <= b
<1>1. \E x \in {a, b} : \A y \in {a, b} : x <= y
  OBVIOUS
<1>2. QED
  BY <1>1 DEF Min

\* A part more, rounded on its own, is half a won more at most.
LEMMA OnePartMore ==
    ASSUME NEW net \in Int, NEW qty \in Int, NEW left \in Int, NEW take \in Int,
           NEW parts \in Int, NEW paid \in Int, NEW share \in Int,
           2 * (qty * paid) - 2 * (net * (qty - left)) \in (-(qty * parts))..(qty * parts),
           2 * (qty * share) - 2 * (net * take) \in (-qty)..qty
    PROVE  2 * (qty * (paid + share)) - 2 * (net * (qty - (left - take)))
             \in (-(qty * (parts + 1)))..(qty * (parts + 1))
<1> DEFINE a == qty * paid
           b == net * (qty - left)
           c == qty * parts
           d == qty * share
           e == net * take
<1>1. /\ a \in Int /\ b \in Int /\ c \in Int /\ d \in Int /\ e \in Int
      /\ 2 * a - 2 * b \in (-c)..c
      /\ 2 * d - 2 * e \in (-qty)..qty
  OBVIOUS
<1>2. /\ qty * (paid + share) = a + d
      /\ qty * (parts + 1) = c + qty
  OBVIOUS
<1>3. net * (qty - (left - take)) = b + e
  <2>1. qty - (left - take) = (qty - left) + take /\ qty - left \in Int
    OBVIOUS
  <2>2. \A x \in Int : net * (x + take) = net * x + net * take
    OBVIOUS
  <2>3. net * ((qty - left) + take) = net * (qty - left) + net * take
    BY <2>1, <2>2
  <2>4. QED
    BY <2>1, <2>3
<1> HIDE DEF a, b, c, d, e
<1>4. 2 * (a + d) - 2 * (b + e) \in (-(c + qty))..(c + qty)
  BY <1>1
<1>5. QED
  BY <1>2, <1>3, <1>4

\* When nothing is left, the error is a won for two parts at most.
LEMMA WholeError ==
    ASSUME NEW net \in Int, NEW qty \in Nat \ {0}, NEW parts \in Int, NEW paid \in Int,
           2 * (qty * paid) - 2 * (net * qty) \in (-(qty * parts))..(qty * parts)
    PROVE  2 * (paid - net) \in (-parts)..parts
<1> DEFINE x == 2 * (paid - net)
           p == qty * paid
           n == qty * net
           c == qty * parts
<1>1. p \in Int /\ n \in Int /\ c \in Int /\ x \in Int
      /\ net * qty = n /\ 2 * p - 2 * n \in (-c)..c
  OBVIOUS
<1>2. qty * x = 2 * p - 2 * n
  OBVIOUS
<1>3. qty * (parts - x) = c - qty * x /\ qty * (parts + x) = c + qty * x
  OBVIOUS
<1> HIDE DEF p, n, c, x
<1>4. \A y \in Int : qty * y >= 0 => y >= 0
  <2>1. SUFFICES ASSUME NEW y \in Int, y < 0 PROVE qty * y < 0
    OBVIOUS
  <2>2. -1 - y \in Nat
    BY <2>1
  <2>3. qty * (-1 - y) >= 0 /\ qty * (-1 - y) = -qty - qty * y
    BY <2>1, <2>2
  <2>4. QED
    BY <2>1, <2>3
<1>5. parts - x >= 0 /\ parts + x >= 0
  <2>1. qty * (parts - x) >= 0 /\ qty * (parts + x) >= 0
    BY <1>1, <1>2, <1>3
  <2>2. QED
    BY <1>1, <1>4, <2>1
<1>6. x \in (-parts)..parts
  BY <1>1, <1>5
<1>7. QED
  BY <1>6 DEF x

\* A turn takes shares of a lot and pays their part of the proceeds.
Taken(take, share) ==
    LET order == sale[1]
    IN  /\ take \in 1..order.left /\ share \in Nat
        /\ cash' = cash + share
        /\ SharesMove(order.symbol, -take)
        /\ Total(Nets(log), Latest(log, order.parts)) \in Int
        /\ Total(Nets(log'), Latest(log', order.parts + 1))
             = Total(Nets(log), Latest(log, order.parts)) + share
        /\ sale' = IF take = order.left THEN << >>
                   ELSE <<[order EXCEPT !.left = order.left - take, !.parts = order.parts + 1]>>

LEMMA Turn ==
    ASSUME PortfolioInv, SellOldestGroup
    PROVE  /\ PortfolioInv'
           /\ \E take, share : Taken(take, share)
           /\ sale' = << >> =>
                 /\ sale[1].parts + 1 \in 1..Len(log')
                 /\ 2 * (Total(Nets(log'), (Len(log') - (sale[1].parts + 1) + 1)..Len(log')) - sale[1].net)
                      \in (-(sale[1].parts + 1))..(sale[1].parts + 1)
<1>0. PICK order : order = sale[1]
  OBVIOUS
<1> DEFINE paid  == Total(Nets(log), Latest(log, order.parts))
           stock == Total(Remaining, GroupsOf(order.symbol))
<1>1. /\ order \in OrderType /\ order.net \in Nat
      /\ order.net = SellProceeds(order.price, order.qty, order.date)
      /\ order.left \in 1..stock /\ order.left <= order.qty
      /\ order.parts <= order.qty - order.left
      /\ order.parts <= Len(log)
      /\ 2 * (order.qty * paid) - 2 * (order.net * (order.qty - order.left))
             \in (-(order.qty * order.parts))..(order.qty * order.parts)
  <2>1. sale # << >> /\ sale \in Seq(OrderType) /\ Len(sale) <= 1 /\ Underway(sale[1])
    BY DEF SellOldestGroup, PortfolioInv, SaleInv
  <2>2. sale[1] \in OrderType
    BY <2>1
  <2>3. QED
    BY <1>0, <2>1, <2>2 DEF Underway
<1>2. PICK g \in GroupsOf(order.symbol) :
        LET take == Min({order.left, groups[g].remaining})
            left == LeftToSell(order, take)
        IN  /\ SellTradeGroup(g, order.price, take, ShareOf(order, take),
                              order.date, order.date, "fifo")
            /\ sale' = IF left = 0 THEN << >>
                       ELSE <<[order EXCEPT !.left = left, !.parts = order.parts + 1]>>
  BY <1>0 DEF SellOldestGroup
<1> DEFINE take  == Min({order.left, groups[g].remaining})
           share == ShareOf(order, take)
<1>s. PICK s : s = order.symbol
  OBVIOUS
<1>3. /\ order.qty \in Nat \ {0} /\ order.left \in Nat \ {0} /\ order.parts \in Nat
      /\ order.net \in Nat /\ order.price \in Prices /\ order.date \in Dates
      /\ s \in Symbols
  BY <1>1, <1>s DEF OrderType
<1>4. g \in Live /\ groups[g].symbol = s
  BY <1>s DEF GroupsOf
<1>5. SellTradeGroup(g, order.price, take, share, order.date, order.date, "fifo")
  BY <1>2
<1>6. take \in Nat \ {0} /\ take <= order.left
  <2>1. groups[g].remaining \in Nat \ {0}
    BY <1>4 DEF PortfolioInv, AccountInv, LotType
  <2> DEFINE a == order.left
             b == groups[g].remaining
  <2>2. a \in Nat \ {0} /\ b \in Nat \ {0} /\ a \in Int /\ b \in Int /\ take = Min({a, b})
    BY <1>3, <2>1
  <2> HIDE DEF a, b, take
  <2>3. Min({a, b}) \in {a, b} /\ Min({a, b}) <= a
    BY <2>2, SmallerOfTwo, Zenon
  <2>4. QED
    BY <2>2, <2>3 DEF a
<1> HIDE DEF take
<1>7. /\ share \in Nat
      /\ 2 * (order.qty * share) - 2 * (order.net * take) \in (-order.qty)..order.qty
  <2>1. order.net * take \in Nat
    BY <1>3, <1>6
  <2>2. share = RoundKrw(order.net * take, order.qty)
    BY DEF ShareOf
  <2> DEFINE n == order.net * take
  <2> HIDE DEF n, share
  <2>3. n \in Nat /\ share = RoundKrw(n, order.qty)
    BY <2>1, <2>2 DEF n
  <2>4. PICK d \in Nat \ {0} : d = order.qty
    BY <1>3
  <2>5. /\ share \in Int /\ share >= 0
        /\ 2 * (d * share) - 2 * n \in (-d)..d
    <3>1. n \in Int /\ n >= 0
      BY <2>3
    <3>2. /\ RoundKrw(n, d) \in Int /\ RoundKrw(n, d) >= 0
          /\ 2 * (d * RoundKrw(n, d)) - 2 * n \in (-d)..d
      BY <3>1, HalfAWon, Zenon
    <3>3. QED
      BY <2>3, <2>4, <3>2, Zenon
  <2>6. QED
    BY <2>4, <2>5 DEF n
<1> HIDE DEF share
<1>8. AccountInv'
  BY <1>3, <1>4, <1>5, <1>7, SaleKeepsAccount DEF PortfolioInv
<1>9. stock \in Int /\ Total(Remaining', GroupsOf(s)') = stock - take
  BY <1>s, <1>4, <1>5, SharesAfterSale DEF PortfolioInv
<1>10. PICK e \in EntryType : log' = Append(log, e) /\ e.net = share
  <2> DEFINE kind == IF take < groups[g].entryQty \/ LeftOf(g, take) > 0
                     THEN "PARTIAL_SELL" ELSE "SELL"
             e    == Trade(g, kind, groups[g].symbol, order.price, take, share,
                           order.date, order.date, "fifo")
  <2>1. log' = Append(log, e)
    BY <1>5 DEF SellTradeGroup
  <2>2. e \in EntryType /\ e.net = share
    <3>1. g \in Int /\ kind \in {"PARTIAL_SELL", "SELL"}
      BY <1>4 DEF PortfolioInv, AccountInv
    <3> HIDE DEF kind
    <3>2. QED
      BY <1>3, <1>4, <1>6, <1>7, <3>1 DEF Trade, EntryType
  <2>3. QED
    BY <2>1, <2>2
<1> DEFINE n     == order.parts + 1
           paid2 == Total(Nets(log'), (Len(log') - n + 1)..Len(log'))
<1>11. /\ Len(log) \in Nat /\ Len(log') = Len(log) + 1
       /\ paid \in Int /\ paid2 = paid + share
       /\ n \in 1..Len(log')
  <2>1. log \in Seq(EntryType)
    BY DEF PortfolioInv, AccountInv
  <2>2. Len(log) \in Nat /\ Len(log') = Len(log) + 1
    BY <1>10, <2>1, Appended
  <2>3. order.parts \in 0..Len(log)
    BY <1>1, <1>3, <2>2
  <2>4. paid \in Int /\ Total(Nets(log'), Latest(log', order.parts + 1)) = paid + e.net
    BY <1>10, <2>1, <2>3, AppendedTotals
  <2>5. QED
    BY <1>3, <1>10, <2>2, <2>3, <2>4 DEF Latest
<1>12. 2 * (order.qty * paid2) - 2 * (order.net * (order.qty - (order.left - take)))
         \in (-(order.qty * n))..(order.qty * n)
  <2>1. order.left \in Int /\ order.qty \in Int /\ order.net \in Int /\ order.parts \in Int
        /\ take \in Int /\ share \in Int /\ paid \in Int
    <3> HIDE DEF paid, paid2, n
    <3>1. QED
      BY <1>3, <1>6, <1>7, <1>11, SMTT(30)
  <2> HIDE DEF paid, paid2
  <2>2. 2 * (order.qty * (paid + share)) - 2 * (order.net * (order.qty - (order.left - take)))
          \in (-(order.qty * (order.parts + 1)))..(order.qty * (order.parts + 1))
    BY ONLY <1>1, <1>7, <2>1, OnePartMore
  <2>3. QED
    BY <1>11, <2>2
<1> DEFINE Ends ==
             /\ PortfolioInv'
             /\ sale' = << >> =>
                 /\ sale[1].parts + 1 \in 1..Len(log')
                 /\ 2 * (Total(Nets(log'), (Len(log') - (sale[1].parts + 1) + 1)..Len(log')) - sale[1].net)
                      \in (-(sale[1].parts + 1))..(sale[1].parts + 1)
<1>13. ASSUME order.left - take = 0 PROVE Ends
  <2>1. sale' = << >>
    BY <1>2, <1>13 DEF LeftToSell, take
  <2>2. SaleInv'
    BY <2>1 DEF SaleInv
  <2>3. 2 * (paid2 - order.net) \in (-n)..n
    <3> HIDE DEF paid, n
    <3>1. order.qty - (order.left - take) = order.qty /\ n \in Int /\ paid2 \in Int
      BY <1>3, <1>6, <1>7, <1>11, <1>13, SMTT(30)
    <3> HIDE DEF paid2
    <3>2. 2 * (order.qty * paid2) - 2 * (order.net * order.qty) \in (-(order.qty * n))..(order.qty * n)
      BY <1>12, <3>1
    <3>3. QED
      BY <1>3, <3>1, <3>2, WholeError
  <2>4. QED
    BY <1>0, <1>8, <1>11, <2>2, <2>3 DEF PortfolioInv
<1>14. ASSUME order.left - take # 0 PROVE Ends
  <2>1. PICK after : after = [order EXCEPT !.left = order.left - take, !.parts = n]
    OBVIOUS
  <2>2. sale' = <<after>>
    BY <1>2, <1>14, <2>1 DEF LeftToSell, take
  <2>3. order.left - take \in Nat \ {0} /\ n \in Nat
    BY <1>3, <1>6, <1>14
  <2>4. /\ after \in OrderType /\ after.net = order.net /\ after.qty = order.qty
        /\ after.left = order.left - take /\ after.parts = n /\ after.symbol = s
        /\ after.price = order.price /\ after.date = order.date
    BY <1>1, <1>s, <2>1, <2>3 DEF OrderType
  <2>5. sale' \in Seq(OrderType) /\ Len(sale') <= 1 /\ sale'[1] = after
    BY <2>2, <2>4
  <2>6. after.left \in 1..Total(Remaining', GroupsOf(s)')
    <3> DEFINE left2 == Total(Remaining', GroupsOf(s)')
    <3>1. left2 = stock - take /\ stock \in Int
      BY <1>9
    <3> HIDE DEF left2, stock
    <3>2. after.left = order.left - take /\ order.left \in Int /\ take \in Int
      BY <1>1, <1>3, <1>6, <2>3, <2>4
    <3>3. after.left >= 1 /\ order.left <= stock
      BY <1>1, <1>3, <1>6, <2>3, <2>4
    <3>4. after.left \in 1..left2
      BY <3>1, <3>2, <3>3
    <3>5. QED
      BY <3>4 DEF left2
  <2>7. /\ after.net \in Nat /\ after.left <= after.qty /\ after.parts <= Len(log')
        /\ after.net = SellProceeds(after.price, after.qty, after.date)
        /\ after.parts <= after.qty - after.left
    <3>0. after.net = SellProceeds(after.price, after.qty, after.date)
      BY <1>1, <2>4
    <3> DEFINE few(parts) == parts <= order.qty - order.left
    <3>1. /\ order.net \in Nat /\ order.left <= order.qty /\ order.parts \in Int
          /\ order.left \in Int /\ order.qty \in Int /\ take \in Int /\ 1 <= take
          /\ few(order.parts)
      BY <1>1, <1>3, <1>6, SMTT(30)
    <3>2. /\ after.net \in Nat /\ after.left <= after.qty
          /\ after.parts <= after.qty - after.left
      BY ONLY <2>4, <3>1 DEF n
    <3>4. after.parts <= Len(log')
      BY <1>11, <2>4
    <3>5. QED
      BY <3>0, <3>2, <3>4
  <2>8. 2 * (after.qty * paid2) - 2 * (after.net * (after.qty - after.left))
          \in (-(after.qty * after.parts))..(after.qty * after.parts)
    <3> HIDE DEF paid2, n
    <3>1. QED
      BY <1>12, <2>4
  <2>9. Underway(after)'
    <3>1. paid2 = Total(Nets(log'), Latest(log', after.parts))
      BY <2>4 DEF Latest
    <3> HIDE DEF paid2
    <3>2. QED
      BY <2>4, <2>6, <2>7, <2>8, <3>1 DEF Underway
  <2>10. SaleInv'
    BY <2>5, <2>9 DEF SaleInv, Underway
  <2>11. QED
    BY <1>8, <2>2, <2>10 DEF PortfolioInv
<1>15. Taken(take, share)
  <2>1. SharesMove(s, -take)
    BY <1>4, <1>5, SaleMoves DEF PortfolioInv
  <2>2. cash' = cash + share
    BY <1>5 DEF SellTradeGroup, PaidFor
  <2>3. sale' = IF take = order.left THEN << >>
                ELSE <<[order EXCEPT !.left = order.left - take, !.parts = order.parts + 1]>>
    <3>1. order.left - take = 0 <=> take = order.left
      BY <1>3, <1>6
    <3>2. QED
      BY <1>2, <3>1 DEF LeftToSell, take
  <2>4. take \in 1..order.left
    BY <1>3, <1>6
  <2>5. QED
    BY <1>0, <1>s, <1>7, <1>11, <2>1, <2>2, <2>3, <2>4 DEF Taken, Latest
<1>16. QED
  BY <1>13, <1>14, <1>15

-----------------------------------------------------------------------------
\* The other operations, and every step.

LEMMA AccountAlone ==
    ASSUME AccountInv, UNCHANGED <<cash, groups, log>>,
           nextId' \in Nat, nextId' >= nextId, Held' = Held,
           quote' \in [Held' -> [cur : Prices, peak : Prices]]
    PROVE  AccountInv'
<1>1. Live' = Live
  BY DEF Live
<1>2. /\ nextId' \in Nat \ {0} /\ Live' \subseteq 1..(nextId' - 1)
  <2>1. nextId \in Nat \ {0} /\ Live \subseteq 1..(nextId - 1)
    BY DEF AccountInv
  <2>2. nextId' \in Nat \ {0} /\ nextId' >= nextId
    BY <2>1
  <2>3. \A a, b \in Nat : b >= a => 1..(a - 1) \subseteq 1..(b - 1)
    OBVIOUS
  <2>4. 1..(nextId - 1) \subseteq 1..(nextId' - 1)
    BY ONLY <2>1, <2>2, <2>3
  <2>5. QED
    BY <1>1, <2>1, <2>2, <2>4
<1>3. Signed(log') = Signed(log)
  OBVIOUS
<1>4. QED
  BY <1>1, <1>2, <1>3 DEF AccountInv

LEMMA SaleAlone ==
    ASSUME SaleInv, sale = << >>, UNCHANGED sale
    PROVE  SaleInv'
  BY DEF SaleInv

LEMMA QuotesKeep ==
    ASSUME AccountInv, NEW s, NEW price \in Prices,
           quote' = MarketPrice(s, price) \/ quote' = PeakPrice(s, price)
    PROVE  Held' = Held /\ quote' \in [Held' -> [cur : Prices, peak : Prices]]
<1>1. quote \in [Held -> [cur : Prices, peak : Prices]]
  BY DEF AccountInv
<1>2. MarketPrice(s, price) \in [Held -> [cur : Prices, peak : Prices]]
  BY <1>1 DEF MarketPrice
<1>3. PeakPrice(s, price) \in [Held -> [cur : Prices, peak : Prices]]
  BY <1>1 DEF PeakPrice
<1>4. quote' \in [Held -> [cur : Prices, peak : Prices]]
  BY <1>2, <1>3
<1>5. Held' = Held
  BY <1>4 DEF Held
<1>6. QED
  BY <1>4, <1>5

\* A sale by symbol starts with as many shares as it needs.
LEMMA SaleStarts ==
    ASSUME PortfolioInv, NEW s \in Symbols, NEW price \in Prices, NEW q \in 1..MaxQty,
           NEW date \in Dates, SellSymbolFifo(s, price, q, date)
    PROVE  PortfolioInv'
<1>1. AccountInv'
  <2>1. UNCHANGED <<cash, groups, log>> /\ nextId' = nextId /\ quote' = quote
    BY DEF SellSymbolFifo, ledgerVars
  <2>2. Held' = Held
    BY <2>1 DEF Held
  <2>3. /\ nextId' \in Nat /\ nextId' >= nextId
        /\ quote' \in [Held' -> [cur : Prices, peak : Prices]]
    BY <2>1, <2>2 DEF PortfolioInv, AccountInv
  <2>4. QED
    BY <2>1, <2>2, <2>3, AccountAlone DEF PortfolioInv
<1> DEFINE net   == SellProceeds(price, q, date)
           order == [symbol |-> s, price |-> price, qty |-> q, left |-> q, parts |-> 0,
                     net |-> net, date |-> date]
<1>2. q \in Nat \ {0} /\ net \in Nat
  <2>1. price \in Nat /\ q \in Nat \ {0} /\ date \in Int
    BY CallsAssumption
  <2>2. QED
    BY <2>1, SaleBringsIn
<1>3. q \in 1..Quantity(s) /\ sale' = <<order>>
  BY DEF SellSymbolFifo
<1> HIDE DEF net
<1>4. order \in OrderType
  BY <1>2 DEF OrderType
<1>5. order.left \in 1..Total(Remaining, GroupsOf(s))
  <2>1. IsFiniteSet(GroupsOf(s))
    <3>1. GroupsOf(s) \in SUBSET Live
      BY DEF GroupsOf
    <3>2. QED
      BY <3>1, GroupsAreFew DEF PortfolioInv
  <2>2. QED
    BY <1>3, <2>1, QuantityIsTotal
<1>6. Total(Nets(log), Latest(log, 0)) = 0 /\ 0 <= Len(log)
  <2>1. Len(log) \in Nat
    BY DEF PortfolioInv, AccountInv
  <2>2. Latest(log, 0) = {}
    BY <2>1 DEF Latest
  <2>3. QED
    BY <2>1, <2>2, TotalOfNone, SMTT(30)
<1>7. /\ order.net \in Nat /\ order.left <= order.qty
      /\ order.net = SellProceeds(order.price, order.qty, order.date)
      /\ order.parts <= order.qty - order.left
      /\ order.parts = 0 /\ order.symbol = s /\ order.qty = q /\ order.left = q
  <2>1. order.net = SellProceeds(order.price, order.qty, order.date)
    BY DEF net
  <2>2. QED
    BY <1>2, <2>1
<1> HIDE DEF order
<1>8. 2 * (order.qty * 0) - 2 * (order.net * (order.qty - order.left))
         \in (-(order.qty * order.parts))..(order.qty * order.parts)
  <2>1. /\ order.qty * 0 = 0 /\ order.qty - order.left = 0 /\ order.net * 0 = 0
    BY <1>2, <1>7
  <2>2. QED
    BY <2>1, <1>2, <1>7
<1>9. Underway(order)
  BY <1>5, <1>6, <1>7, <1>8 DEF Underway
<1>10. UNCHANGED <<groups, log>>
  BY DEF SellSymbolFifo, ledgerVars
<1>11. sale' \in Seq(OrderType) /\ Len(sale') <= 1 /\ sale'[1] = order
  BY <1>3, <1>4
<1>12. SaleInv'
  <2>1. Remaining' = Remaining /\ \A t : GroupsOf(t)' = GroupsOf(t)
    BY <1>10 DEF Remaining, GroupsOf, Live
  <2>2. QED
    BY <1>9, <1>10, <1>11, <2>1 DEF SaleInv, Underway
<1>13. QED
  BY <1>1, <1>12 DEF PortfolioInv

LEMMA PortfolioStep ==
    ASSUME PortfolioInv, [Next]_vars
    PROVE  PortfolioInv'
<1> USE DEF PortfolioInv
<1>1. CASE SellOldestGroup
  BY <1>1, Turn
<1>2. ASSUME NEW s \in Symbols, NEW price \in Prices,
             UpdateMarketPrice(s, price) \/ UpdatePeakPrice(s, price)
      PROVE  PortfolioInv'
  <2>1. /\ sale = << >> /\ UNCHANGED <<cash, groups, log, nextId, sale>>
        /\ quote' = MarketPrice(s, price) \/ quote' = PeakPrice(s, price)
    BY <1>2 DEF UpdateMarketPrice, UpdatePeakPrice, Idle
  <2>2. nextId' \in Nat /\ nextId' >= nextId
    BY <2>1 DEF AccountInv
  <2>3. Held' = Held /\ quote' \in [Held' -> [cur : Prices, peak : Prices]]
    BY <2>1, QuotesKeep
  <2>4. QED
    BY <2>1, <2>2, <2>3, AccountAlone, SaleAlone
<1>3. ASSUME NEW s \in Symbols, NEW price \in Prices, NEW q \in 1..MaxQty, NEW date \in Dates,
             NEW pyramid \in Pyramiding, BuyShares(s, price, q, date, pyramid)
      PROVE  PortfolioInv'
  <2>1. /\ Buy(s, price, q, BuyCost(price, q), date, date)
        /\ sale = << >> /\ UNCHANGED sale
    BY <1>3 DEF BuyShares, Idle
  <2>2. QED
    BY <2>1, BuyKeepsAccount, SaleAlone
<1>4. ASSUME NEW s \in Symbols, NEW price \in Prices, NEW q \in 1..MaxQty, NEW date \in Dates,
             SellSymbolFifo(s, price, q, date)
      PROVE  PortfolioInv'
  BY <1>4, SaleStarts
<1>5. ASSUME NEW s \in Symbols, NEW price \in Prices, NEW q \in 1..MaxQty, NEW date \in Dates,
             NEW g \in GroupsOf(s), SellGroup(g, price, q, date)
      PROVE  PortfolioInv'
  <2>1. /\ SellTradeGroup(g, price, q, SellProceeds(price, q, date), date, date, "rule")
        /\ sale = << >> /\ UNCHANGED sale /\ g \in Live
    BY <1>5 DEF SellGroup, Idle, GroupsOf
  <2>2. SellProceeds(price, q, date) \in Nat
    <3>1. price \in Nat /\ q \in Nat /\ date \in Int
      BY CallsAssumption
    <3>2. QED
      BY <3>1, SaleBringsIn
  <2>3. QED
    BY <2>1, <2>2, SaleKeepsAccount, SaleAlone
<1>6. ASSUME NEW s \in Symbols, NEW price \in Prices, NEW q \in 1..MaxQty, BuyHeld(s, price, q)
      PROVE  PortfolioInv'
  <2>1. /\ sale = << >> /\ UNCHANGED sale /\ nextId' = nextId + 1
        /\ UNCHANGED <<cash, groups, quote, log>>
    BY <1>6 DEF BuyHeld, BuyHeldRefused, Idle
  <2>2. nextId' \in Nat /\ nextId' >= nextId
    BY <2>1 DEF AccountInv
  <2>3. Held' = Held /\ quote' \in [Held' -> [cur : Prices, peak : Prices]]
    BY <2>1 DEF Held, AccountInv
  <2>4. QED
    BY <2>1, <2>2, <2>3, AccountAlone, SaleAlone
<1>7. CASE UNCHANGED vars
  <2>1. UNCHANGED <<cash, groups, log, nextId, quote, sale>>
    BY <1>7 DEF vars, ledgerVars
  <2>2. nextId' \in Nat /\ nextId' >= nextId
    BY <2>1 DEF AccountInv
  <2>3. Held' = Held /\ quote' \in [Held' -> [cur : Prices, peak : Prices]]
    BY <2>1 DEF Held, AccountInv
  <2>4. AccountInv'
    BY <2>1, <2>2, <2>3, AccountAlone
  <2>5. Remaining' = Remaining /\ \A t : GroupsOf(t)' = GroupsOf(t)
    BY <2>1 DEF Remaining, GroupsOf, Live
  <2>6. SaleInv'
    BY <2>1, <2>5 DEF SaleInv, Underway
  <2>7. QED
    BY <2>4, <2>6
<1>8. QED
  BY <1>1, <1>2, <1>3, <1>4, <1>5, <1>6, <1>7 DEF Next

LEMMA PortfolioInit == Init => PortfolioInv
<1> SUFFICES ASSUME Init PROVE PortfolioInv
  OBVIOUS
<1>1. /\ cash = InitialCash /\ groups = << >> /\ quote = << >> /\ log = << >> /\ nextId = 1
      /\ sale = << >>
  BY DEF Init, LedgerInit
<1>2. Live = {} /\ Held = {} /\ DOMAIN log = {}
  BY <1>1 DEF Live, Held
<1>3. Total(Signed(log), DOMAIN log) = 0
  BY <1>2, TotalOfNone
<1>4. /\ groups \in [Live -> LotType] /\ quote \in [Held -> [cur : Prices, peak : Prices]]
      /\ log \in Seq(EntryType)
  BY <1>1, <1>2
<1>5. AccountInv
  BY <1>1, <1>2, <1>3, <1>4, CashAssumption DEF AccountInv
<1>6. SaleInv
  BY <1>1 DEF SaleInv
<1>7. QED
  BY <1>5, <1>6 DEF PortfolioInv

\* The account and the sale in progress keep in step with each other, with the
\* cash and with the log.
THEOREM PortfolioInvHolds == Spec => []PortfolioInv
<1>1. Init => PortfolioInv
  BY PortfolioInit
<1>2. PortfolioInv /\ [Next]_vars => PortfolioInv'
  BY PortfolioStep
<1>3. QED
  BY <1>1, <1>2, PTL DEF Spec, Safety

\* Whatever is traded, the account is never overdrawn and no lot, position or
\* sale in progress is out of step with the others.
THEOREM AccountIsSound == Spec => []TypeOK
<1>1. ASSUME PortfolioInv PROVE TypeOK
  <2>1. ASSUME sale # << >> PROVE sale[1].symbol \in Held
    <3>1. PICK s : s = sale[1].symbol
      OBVIOUS
    <3>2. 1..Total(Remaining, GroupsOf(s)) # {}
      BY <1>1, <2>1, <3>1 DEF PortfolioInv, SaleInv, Underway
    <3>3. GroupsOf(s) # {}
      <4>1. Total(Remaining, {}) = 0
        BY TotalOfNone
      <4>2. QED
        BY <3>2, <4>1
    <3>4. QED
      BY <1>1, <3>1, <3>3 DEF GroupsOf, PortfolioInv, AccountInv
  <2>2. QED
    BY <1>1, <2>1 DEF TypeOK, PortfolioInv, AccountInv, SaleInv
<1>2. QED
  BY <1>1, PortfolioInvHolds, PTL

\* The cash is what the log says, to the won, for any sequence of trades.
THEOREM CashIsAccountedFor == Spec => []CashMatchesLog
<1>1. ASSUME PortfolioInv PROVE CashMatchesLog
  BY <1>1, BalanceIsTotal DEF PortfolioInv, AccountInv
<1>2. QED
  BY <1>1, PortfolioInvHolds, PTL

\* While a sale by symbol is in its loop nothing but the loop moves.
LEMMA OnlyTheLoop ==
    ASSUME sale # << >>, [Next]_vars
    PROVE  SellOldestGroup \/ UNCHANGED vars
<1>1. ~Idle
  BY DEF Idle
<1>2. ASSUME NEW s \in Symbols, NEW price \in Prices
      PROVE  /\ ~ UpdateMarketPrice(s, price) /\ ~ UpdatePeakPrice(s, price)
             /\ \A q \in 1..MaxQty : ~ BuyHeld(s, price, q)
             /\ \A q \in 1..MaxQty, date \in Dates :
                   /\ \A pyramid \in Pyramiding : ~ BuyShares(s, price, q, date, pyramid)
                   /\ ~ SellSymbolFifo(s, price, q, date)
                   /\ \A g \in GroupsOf(s) : ~ SellGroup(g, price, q, date)
  BY <1>1 DEF UpdateMarketPrice, UpdatePeakPrice, BuyShares, SellSymbolFifo, SellGroup, BuyHeld
<1>3. QED
  BY <1>2 DEF Next

\* A sale by symbol empties the oldest lots first, for any lots.
THEOREM OldestLotsGoFirst == Spec => OldestFirst
<1> DEFINE Oldest ==
      \A g \in Live :
        sale # << >> /\ (g \in Live' => groups'[g] # groups[g])
          => \A h \in GroupsOf(groups[g].symbol) : Older(h, g) => h \notin Live'
<1>1. ASSUME PortfolioInv, [Next]_vars PROVE Oldest
  <2>1. SUFFICES ASSUME NEW g \in Live, sale # << >>, g \in Live' => groups'[g] # groups[g],
                        NEW h \in GroupsOf(groups[g].symbol), Older(h, g)
                 PROVE  FALSE
    OBVIOUS
  <2>2. CASE UNCHANGED vars
    BY <2>1, <2>2 DEF vars, ledgerVars, Live
  <2>3. CASE SellOldestGroup
    <3>1. PICK old \in GroupsOf(sale[1].symbol) : \E q, net :
            /\ IsOldest(old)
            /\ SellTradeGroup(old, sale[1].price, q, net, sale[1].date, sale[1].date, "fifo")
      BY <2>3 DEF SellOldestGroup
    <3>2. AccountInv /\ old \in Live
      BY <1>1, <3>1 DEF PortfolioInv, GroupsOf
    <3>3. \A k \in Live : k # old => k \in Live' /\ groups'[k] = groups[k]
      BY <3>1, <3>2, SaleLeaves
    <3>4. g = old
      BY <2>1, <3>3
    <3>5. h \in Live /\ h \in GroupsOf(groups[old].symbol)
      BY <2>1, <3>4 DEF GroupsOf
    <3>6. /\ g \in Int /\ h \in Int /\ groups[g].entryDate \in Int /\ groups[h].entryDate \in Int
      <4>1. \A k \in Live : k \in Int /\ groups[k] \in LotType
        BY <3>2 DEF AccountInv
      <4>2. \A k \in Live : groups[k].entryDate \in Int
        BY <4>1, CallsAssumption DEF LotType
      <4>3. QED
        BY <2>1, <3>5, <4>1, <4>2
    <3>7. h # g
      BY <2>1, <3>6 DEF Older
    <3>8. Older(g, h)
      BY <3>1, <3>4, <3>5, <3>7 DEF IsOldest
    <3>9. QED
      BY <2>1, <3>6, <3>8 DEF Older
  <2>4. QED
    BY <1>1, <2>1, <2>2, <2>3, OnlyTheLoop
<1>2. QED
  BY <1>1, PortfolioInvHolds, PTL DEF Spec, Safety, OldestFirst

\* However many lots share the proceeds of a sale, the account gets what the
\* sale brought in to half a won a part.
THEOREM ProceedsAreSplitFairly == Spec => SplitWithinRounding
<1> DEFINE Split ==
      sale # << >> /\ sale' = << >> =>
        LET parts == sale[1].parts + 1
            paid  == SumFunction([i \in (Len(log') - parts + 1)..Len(log') |-> log'[i].net])
            error == paid - sale[1].net
        IN  2 * error \in (-parts)..parts
<1>1. ASSUME PortfolioInv, [Next]_vars PROVE Split
  <2>1. SUFFICES ASSUME sale # << >>, sale' = << >>
                 PROVE  LET parts == sale[1].parts + 1
                            paid  == SumFunction([i \in (Len(log') - parts + 1)..Len(log') |->
                                                     log'[i].net])
                            error == paid - sale[1].net
                        IN  2 * error \in (-parts)..parts
    OBVIOUS
  <2>2. SellOldestGroup
    <3>1. ~ UNCHANGED vars
      BY <2>1 DEF vars
    <3>2. QED
      BY <1>1, <2>1, <3>1, OnlyTheLoop
  <2> DEFINE n == sale[1].parts + 1
             D == (Len(log') - n + 1)..Len(log')
  <2>3. /\ PortfolioInv' /\ n \in 1..Len(log')
        /\ 2 * (Total(Nets(log'), D) - sale[1].net) \in (-n)..n
    BY <1>1, <2>1, <2>2, Turn
  <2>4. Len(log') \in Nat /\ DOMAIN log' = 1..Len(log')
    BY <2>3, LenProperties DEF PortfolioInv, AccountInv
  <2>5. IsFiniteSet(D) /\ D \subseteq DOMAIN log'
    <3> HIDE DEF n
    <3>1. Len(log') - n + 1 \in Int
      BY <2>3, <2>4
    <3>2. IsFiniteSet(D)
      BY <2>4, <3>1, FS_Interval
    <3>3. QED
      BY <2>3, <2>4, <3>2
  <2>6. SumFunction([i \in D |-> log'[i].net]) = Total(Nets(log'), D)
    <3> HIDE DEF D
    <3>1. QED
      BY <2>5, PaidIsTotal
  <2>7. QED
    BY <2>3, <2>6
<1>2. QED
  BY <1>1, PortfolioInvHolds, PTL DEF Spec, Safety, SplitWithinRounding

-----------------------------------------------------------------------------
(* The loop of sell_symbol_fifo comes to its end: the step half of SaleIsFilled,  *)
(* which TLC checks.                                                              *)

\* Of any lots one is the oldest.
LEMMA OldestExists ==
    ASSUME AccountInv, NEW s, GroupsOf(s) # {}
    PROVE  \E g \in GroupsOf(s) : IsOldest(g)
<1> DEFINE G == GroupsOf(s)
           Before(g) == {h \in G : Older(h, g)}
           X == {Before(g) : g \in G}
<1>1. /\ IsFiniteSet(G) /\ G \subseteq Live
      /\ \A g \in G : g \in Int /\ groups[g].entryDate \in Int /\ groups[g].symbol = s
  <2>1. IsFiniteSet(G)
    <3>1. G \in SUBSET Live
      BY DEF GroupsOf
    <3>2. QED
      BY <3>1, GroupsAreFew
  <2>2. \A g \in Live : g \in Int /\ groups[g] \in LotType
    BY DEF AccountInv
  <2>3. \A g \in Live : groups[g].entryDate \in Int
    BY <2>2, CallsAssumption DEF LotType
  <2>4. QED
    BY <2>1, <2>2, <2>3 DEF GroupsOf
<1> HIDE DEF G
<1>2. X # {} /\ \A T \in X : IsFiniteSet(T)
  <2>1. ASSUME NEW g \in G PROVE IsFiniteSet(Before(g))
    <3>1. Before(g) \subseteq G
      OBVIOUS
    <3>2. QED
      BY <1>1, <3>1, FS_Subset
  <2>2. G # {}
    BY DEF G
  <2>3. QED
    BY <2>1, <2>2
<1>3. \E T \in X : \A U \in X : Cardinality(T) <= Cardinality(U)
  <2> HIDE DEF X
  <2>1. QED
    BY <1>2, Smallest
<1>4. PICK g \in G : \A h \in G : Cardinality(Before(g)) <= Cardinality(Before(h))
  BY <1>3
<1>5. ASSUME NEW h \in G, h # g, ~Older(g, h) PROVE FALSE
  <2>1. Older(h, g)
    BY <1>1, <1>5 DEF Older
  <2>2. Before(h) \subseteq Before(g) \ {h}
    <3>1. \A k \in G : Older(k, h) => Older(k, g) /\ k # h
      BY <1>1, <2>1 DEF Older
    <3>2. QED
      BY <3>1
  <2>3. h \in Before(g) /\ IsFiniteSet(Before(g)) /\ IsFiniteSet(Before(h))
    BY <1>2, <2>1
  <2>4. Cardinality(Before(g)) <= Cardinality(Before(h))
    BY <1>4
  <2> HIDE DEF Before
  <2>5. /\ IsFiniteSet(Before(g) \ {h})
        /\ ~(Cardinality(Before(g)) <= Cardinality(Before(g) \ {h}))
    BY <2>3, OneLess
  <2>6. Cardinality(Before(h)) <= Cardinality(Before(g) \ {h})
    BY <2>2, <2>5, FS_Subset
  <2>7. /\ Cardinality(Before(g)) \in Nat /\ Cardinality(Before(h)) \in Nat
        /\ Cardinality(Before(g) \ {h}) \in Nat
    BY <2>3, <2>5, FS_CardinalityType
  <2>8. QED
    BY <2>4, <2>5, <2>6, <2>7
<1>6. \A h \in GroupsOf(groups[g].symbol) \ {g} : Older(g, h)
  BY <1>1, <1>5 DEF G
<1>7. QED
  BY <1>6 DEF IsOldest, G

(* While a sale by symbol is in its loop there is an oldest lot of the symbol, and it
   can give what the turn takes: the quantity check before the loop is enough for all
   of its turns (portfolio.py sell_symbol_fifo). *)
LoopFindsALot ==
    sale # << >> =>
        \E g \in GroupsOf(sale[1].symbol) :
            /\ IsOldest(g)
            /\ Min({sale[1].left, groups[g].remaining}) \in 1..groups[g].remaining

(* Each turn of the loop leaves less of the order to sell, or ends it, and nobody
   else moves meanwhile. *)
TurnsFillTheOrder ==
    [][sale # << >> =>
         \/ sale' = << >>
         \/ sale' # << >> /\ {sale[1].left, sale'[1].left} \subseteq Nat \ {0}
              /\ sale'[1].left < sale[1].left]_vars

\* For any lots, prices and quantities: a sale by symbol never runs out of lots, and
\* fills its order in at most as many turns as there are shares in it.
THEOREM SalesComeToAnEnd == Spec => []LoopFindsALot /\ TurnsFillTheOrder
<1>1. ASSUME PortfolioInv PROVE LoopFindsALot
  <2> SUFFICES ASSUME sale # << >>
               PROVE  \E g \in GroupsOf(sale[1].symbol) :
                        /\ IsOldest(g)
                        /\ Min({sale[1].left, groups[g].remaining}) \in 1..groups[g].remaining
    BY DEF LoopFindsALot
  <2>1. PICK s, left : s = sale[1].symbol /\ left = sale[1].left
    OBVIOUS
  <2>2. sale[1] \in OrderType
    BY <1>1 DEF PortfolioInv, SaleInv
  <2>3. left \in Nat \ {0} /\ left \in 1..Total(Remaining, GroupsOf(s))
    BY <1>1, <2>1, <2>2 DEF PortfolioInv, SaleInv, Underway, OrderType
  <2>4. GroupsOf(s) # {}
    <3>1. Total(Remaining, {}) = 0
      BY TotalOfNone
    <3>2. QED
      BY <2>3, <3>1
  <2>5. PICK g \in GroupsOf(s) : IsOldest(g)
    BY <1>1, <2>4, OldestExists DEF PortfolioInv
  <2>6. PICK r \in Nat \ {0} : r = groups[g].remaining
    <3>1. groups[g] \in LotType
      BY <1>1, <2>5 DEF PortfolioInv, AccountInv, GroupsOf
    <3>2. QED
      BY <3>1 DEF LotType
  <2>7. Min({left, r}) \in {left, r} /\ Min({left, r}) <= r
    <3>1. left \in Int /\ r \in Int
      BY <2>3
    <3>2. QED
      BY <3>1, SmallerOfTwo
  <2>8. Min({left, r}) \in 1..r
    BY <2>3, <2>7
  <2>9. QED
    BY <2>1, <2>5, <2>6, <2>8
<1>2. ASSUME PortfolioInv, PortfolioInv', [Next]_vars, sale # << >>, ~UNCHANGED vars
      PROVE  \/ sale' = << >>
             \/ sale' # << >> /\ {sale[1].left, sale'[1].left} \subseteq Nat \ {0}
                  /\ sale'[1].left < sale[1].left
  <2>1. SellOldestGroup
    BY <1>2, OnlyTheLoop
  <2>2. PICK take, share : Taken(take, share)
    BY <1>2, <2>1, Turn
  <2>3. sale[1] \in OrderType
    BY <1>2 DEF PortfolioInv, SaleInv
  <2>4. sale[1].left \in Nat \ {0} /\ take \in Nat \ {0} /\ take <= sale[1].left
    BY <2>2, <2>3 DEF Taken, OrderType
  <2>5. CASE take = sale[1].left
    BY <2>2, <2>5 DEF Taken
  <2>6. CASE take # sale[1].left
    <3>1. sale' = <<[sale[1] EXCEPT !.left = sale[1].left - take, !.parts = sale[1].parts + 1]>>
      BY <2>2, <2>6 DEF Taken
    <3>2. sale' # << >> /\ sale'[1].left = sale[1].left - take
      BY <2>3, <3>1 DEF OrderType
    <3>3. QED
      BY <2>4, <2>6, <3>2
  <2>7. QED
    BY <2>5, <2>6
<1>3. PortfolioInv /\ PortfolioInv' /\ [Next]_vars
        => [sale # << >> =>
              \/ sale' = << >>
              \/ sale' # << >> /\ {sale[1].left, sale'[1].left} \subseteq Nat \ {0}
                   /\ sale'[1].left < sale[1].left]_vars
  BY <1>2
<1>4. PortfolioInv => LoopFindsALot
  BY <1>1
<1>5. QED
  BY <1>3, <1>4, PortfolioInvHolds, PTL DEF Spec, Safety, TurnsFillTheOrder

-----------------------------------------------------------------------------
\* The refinement of Account.

\* What callers have, in totals.
Paid       == IF sale = << >> THEN 0 ELSE Total(Nets(log), Latest(log, sale[1].parts))
Unsettled(s) == IF sale # << >> /\ sale[1].symbol = s THEN sale[1].qty - sale[1].left ELSE 0

LEMMA Mapped ==
    PortfolioInv => /\ Funds = cash - Paid
                    /\ Shares = [s \in Symbols |-> Total(Remaining, GroupsOf(s)) + Unsettled(s)]
<1> SUFFICES ASSUME PortfolioInv
             PROVE  /\ Funds = cash - Paid
                    /\ Shares = [s \in Symbols |-> Total(Remaining, GroupsOf(s)) + Unsettled(s)]
  OBVIOUS
<1>1. ASSUME NEW s PROVE Quantity(s) = Total(Remaining, GroupsOf(s))
  <2>1. GroupsOf(s) \in SUBSET Live
    BY DEF GroupsOf
  <2>2. QED
    BY <2>1, GroupsAreFew, QuantityIsTotal DEF PortfolioInv
<1>2. ASSUME sale # << >>
      PROVE  SumFunction([i \in (Len(log) - sale[1].parts + 1)..Len(log) |-> log[i].net]) = Paid
  <2> DEFINE D == (Len(log) - sale[1].parts + 1)..Len(log)
  <2>1. sale[1].parts \in 0..Len(log) /\ Len(log) \in Nat /\ DOMAIN log = 1..Len(log)
    <3>1. log \in Seq(EntryType) /\ sale \in Seq(OrderType) /\ Len(sale) <= 1 /\ Underway(sale[1])
      BY <1>2 DEF PortfolioInv, AccountInv, SaleInv
    <3>2. sale[1] \in OrderType
      BY <1>2, <3>1
    <3>3. QED
      BY <3>1, <3>2, LenProperties DEF Underway, OrderType
  <2>2. IsFiniteSet(D) /\ D \subseteq DOMAIN log
    <3>1. PICK k, n : k = sale[1].parts /\ n = Len(log)
      OBVIOUS
    <3>2. n - k + 1 \in Int /\ n \in Int /\ (n - k + 1)..n \subseteq 1..n
      BY <2>1, <3>1
    <3>3. IsFiniteSet((n - k + 1)..n)
      BY <3>2, FS_Interval
    <3>4. QED
      BY <2>1, <3>1, <3>2, <3>3
  <2>3. D = Latest(log, sale[1].parts)
    BY DEF Latest
  <2> HIDE DEF D
  <2>4. SumFunction([i \in D |-> log[i].net]) = Total(Nets(log), D)
    BY <2>2, PaidIsTotal
  <2>5. QED
    BY <1>2, <2>3, <2>4 DEF Paid, D
<1>3. QED
  BY <1>1, <1>2 DEF Funds, Shares, Paid, Unsettled

\* Money and shares as callers see them before and after a step.
LEMMA MappedStep ==
    ASSUME PortfolioInv, PortfolioInv'
    PROVE  /\ Funds = cash - Paid /\ Funds' = cash' - Paid'
           /\ Shares = [s \in Symbols |-> Total(Remaining, GroupsOf(s)) + Unsettled(s)]
           /\ Shares' = [s \in Symbols |-> Total(Remaining', GroupsOf(s)') + Unsettled(s)']
<1>1. (PortfolioInv => /\ Funds = cash - Paid
                       /\ Shares = [s \in Symbols |-> Total(Remaining, GroupsOf(s)) + Unsettled(s)])'
  BY Mapped, PTL
<1>2. QED
  BY <1>1, Mapped

\* A step nobody sees.
LEMMA NothingSeen ==
    ASSUME PortfolioInv, PortfolioInv', UNCHANGED <<cash, groups>>, Paid' = Paid,
           \A s \in Symbols : Unsettled(s)' = Unsettled(s)
    PROVE  UNCHANGED <<Funds, Shares>>
<1>1. Remaining' = Remaining /\ \A s : GroupsOf(s)' = GroupsOf(s)
  BY DEF Remaining, GroupsOf, Live
<1>2. QED
  BY <1>1, MappedStep

\* A step that trades, while no sale by symbol is in its loop.
LEMMA SeenAtOnce ==
    ASSUME PortfolioInv, PortfolioInv', sale = << >>, sale' = << >>,
           NEW s \in Symbols, NEW n \in Int, SharesMove(s, n)
    PROVE  /\ Funds = cash /\ Funds' = cash'
           /\ Shares[s] = Total(Remaining, GroupsOf(s))
           /\ Shares' = [Shares EXCEPT ![s] = @ + n]
<1>1. cash \in Nat /\ cash' \in Nat
  BY DEF PortfolioInv, AccountInv
<1>2. /\ Paid = 0 /\ Paid' = 0
      /\ \A t : Unsettled(t) = 0 /\ Unsettled(t)' = 0
  BY DEF Paid, Unsettled
<1>3. Funds = cash /\ Funds' = cash'
  <2>1. cash - 0 = cash /\ cash' - 0 = cash'
    <3>1. \A c \in Nat : c - 0 = c
      OBVIOUS
    <3>2. QED
      BY <1>1, <3>1, Zenon
  <2>2. Funds = cash - Paid /\ Funds' = cash' - Paid'
    BY MappedStep
  <2>3. QED
    BY <1>2, <2>1, <2>2
<1>4. \A t : Total(Remaining, GroupsOf(t)) \in Nat
  BY SharesAreAmounts DEF PortfolioInv
<1>5. \A t : Total(Remaining', GroupsOf(t)') = Total(Remaining, GroupsOf(t)) + (IF t = s THEN n ELSE 0)
  BY DEF SharesMove
<1> DEFINE before == [t \in Symbols |-> Total(Remaining, GroupsOf(t))]
           after  == [t \in Symbols |-> Total(Remaining', GroupsOf(t)')]
<1>6. Shares = before /\ Shares' = after
  <2>1. /\ \A t : Total(Remaining, GroupsOf(t)) + Unsettled(t) = Total(Remaining, GroupsOf(t))
        /\ \A t : Total(Remaining', GroupsOf(t)') + Unsettled(t)' = Total(Remaining', GroupsOf(t)')
    BY <1>2, <1>4, <1>5
  <2>2. QED
    BY <2>1, MappedStep
<1>7. after = [before EXCEPT ![s] = before[s] + n]
  <2>1. \A t \in Symbols : after[t] = IF t = s THEN before[s] + n ELSE before[t]
    BY <1>4, <1>5
  <2>2. QED
    BY <2>1
<1>8. QED
  BY <1>3, <1>6, <1>7

\* The two modules mean the same by what a trade costs.
LEMMA SamePrices ==
    /\ \A price, q : Promise!BuyCost(price, q) = BuyCost(price, q)
    /\ \A price, q, date : Promise!SellProceeds(price, q, date) = SellProceeds(price, q, date)
  BY DEF Promise!BuyCost, BuyCost, Promise!SellProceeds, SellProceeds, Promise!RoundKrw, RoundKrw,
         Promise!TaxRate, TaxRate

LEMMA BuyIsPromised ==
    ASSUME PortfolioInv, PortfolioInv',
           NEW s \in Symbols, NEW price \in Prices, NEW q \in 1..MaxQty, NEW date \in Dates,
           NEW pyramid, BuyShares(s, price, q, date, pyramid)
    PROVE  Promise!Buy(s, price, q)
<1>1. /\ Buy(s, price, q, BuyCost(price, q), date, date)
      /\ sale = << >> /\ sale' = << >>
  BY DEF BuyShares, Idle
<1>2. SharesMove(s, q) /\ q \in Int
  BY <1>1, BuyMoves DEF PortfolioInv
<1>3. Funds = cash /\ Funds' = cash' /\ Shares' = [Shares EXCEPT ![s] = @ + q]
  BY <1>1, <1>2, SeenAtOnce
<1>4. BuyCost(price, q) <= cash /\ cash' = cash - BuyCost(price, q)
  <2>1. price \in Nat /\ q \in Nat
    BY CallsAssumption
  <2>2. BuyCost(price, q) \in Nat /\ cash \in Nat
    BY <2>1, BuyCostIsAnAmount DEF PortfolioInv, AccountInv
  <2>3. QED
    BY <1>1, <2>2 DEF Buy, CashShort
<1>5. QED
  BY <1>3, <1>4, SamePrices DEF Promise!Buy

LEMMA GroupSaleIsPromised ==
    ASSUME PortfolioInv, PortfolioInv',
           NEW s \in Symbols, NEW price \in Prices, NEW q \in 1..MaxQty, NEW date \in Dates,
           NEW g \in GroupsOf(s), SellGroup(g, price, q, date)
    PROVE  q \in 1..Shares[s] /\ Promise!Sell(s, price, q, date)
<1> DEFINE net == SellProceeds(price, q, date)
<1>1. /\ SellTradeGroup(g, price, q, net, date, date, "rule") /\ cash' = cash + net
      /\ sale = << >> /\ sale' = << >>
      /\ g \in Live /\ s = groups[g].symbol
  BY DEF SellGroup, Idle, SellTradeGroup, PaidFor, GroupsOf
<1>2. net \in Nat /\ cash \in Nat /\ q \in Nat \ {0}
  <2>1. price \in Nat /\ q \in Nat \ {0} /\ date \in Int
    BY CallsAssumption
  <2>2. QED
    BY <2>1, SaleBringsIn DEF PortfolioInv, AccountInv
<1>3. SharesMove(s, -q) /\ -q \in Int
  <2> HIDE DEF net
  <2>1. QED
    BY <1>1, <1>2, SaleMoves DEF PortfolioInv
<1>4. /\ Funds = cash /\ Funds' = cash' /\ Shares' = [Shares EXCEPT ![s] = @ + (-q)]
      /\ Shares[s] = Total(Remaining, GroupsOf(s))
  BY <1>1, <1>3, SeenAtOnce
<1>5. Total(Remaining, GroupsOf(s)) \in Nat /\ Total(Remaining', GroupsOf(s)') \in Nat
  <2>1. (AccountInv => \A t : Total(Remaining, GroupsOf(t)) \in Nat)'
    BY AllSharesAreAmounts, PTL
  <2>2. QED
    BY <2>1, SharesAreAmounts DEF PortfolioInv
<1>6. q \in 1..Shares[s]
  <2>1. Total(Remaining', GroupsOf(s)') = Total(Remaining, GroupsOf(s)) + (-q)
    BY <1>3 DEF SharesMove
  <2>2. QED
    BY <1>2, <1>4, <1>5, <2>1
<1>7. Shares' = [Shares EXCEPT ![s] = @ - q]
  <2>1. PICK n : n = Shares[s]
    OBVIOUS
  <2>2. n + (-q) = n - q
    BY <1>2, <1>4, <1>5, <2>1
  <2>3. QED
    BY <1>4, <2>1, <2>2
<1>8. 2 * (Funds' - Funds - net) \in (-q)..q
  <2> HIDE DEF net
  <2>1. QED
    BY <1>1, <1>2, <1>4
<1>9. QED
  BY <1>2, <1>6, <1>7, <1>8, SamePrices DEF Promise!Sell

\* A turn that leaves shares to sell is not seen; the last one is the whole sale.
LEMMA TurnIsPromised ==
    ASSUME PortfolioInv, PortfolioInv', SellOldestGroup
    PROVE  \/ UNCHANGED <<Funds, Shares>>
           \/ \E s \in Symbols, price \in Prices, date \in Dates :
                \E q \in 1..Shares[s] : Promise!Sell(s, price, q, date)
<1>1. PICK order : order = sale[1]
  OBVIOUS
<1>2. PICK take, share : Taken(take, share)
  BY Turn
<1>3. PICK s : s = order.symbol
  OBVIOUS
<1>4. /\ sale # << >> /\ order \in OrderType /\ Underway(order) /\ s \in Symbols
      /\ order.price \in Prices /\ order.date \in Dates
      /\ order.qty \in Nat \ {0} /\ order.left \in Nat \ {0} /\ order.parts \in Nat
  <2>1. sale # << >> /\ sale \in Seq(OrderType) /\ Len(sale) <= 1 /\ Underway(sale[1])
    BY DEF SellOldestGroup, PortfolioInv, SaleInv
  <2>2. sale[1] \in OrderType
    BY <2>1
  <2>3. QED
    BY <1>1, <1>3, <2>1, <2>2 DEF OrderType
<1>5. PICK paid, c : paid = Paid /\ c = cash
  OBVIOUS
<1>6. /\ take \in 1..order.left /\ share \in Nat /\ cash' = c + share /\ c \in Nat
      /\ paid = Total(Nets(log), Latest(log, order.parts)) /\ paid \in Int
      /\ Total(Nets(log'), Latest(log', order.parts + 1)) = paid + share
      /\ sale' = IF take = order.left THEN << >>
                 ELSE <<[order EXCEPT !.left = order.left - take, !.parts = order.parts + 1]>>
  BY <1>1, <1>2, <1>4, <1>5 DEF Taken, Paid, PortfolioInv, AccountInv
<1> DEFINE stock(t) == Total(Remaining, GroupsOf(t))
<1>7. \A t : /\ stock(t) \in Nat
             /\ Total(Remaining', GroupsOf(t)') = stock(t) + (IF t = s THEN -take ELSE 0)
  <2>1. SharesMove(s, -take)
    BY <1>1, <1>2, <1>3 DEF Taken
  <2>2. QED
    BY <2>1, SharesAreAmounts DEF SharesMove, PortfolioInv
<1>8. \A t : Unsettled(t) = IF t = s THEN order.qty - order.left ELSE 0
  BY <1>1, <1>3, <1>4 DEF Unsettled
<1>9. order.left \in 1..stock(s) /\ order.left <= order.qty /\ order.parts <= order.qty - order.left
  BY <1>3, <1>4 DEF Underway
<1>10. /\ Funds = c - paid /\ Funds' = cash' - Paid'
       /\ Shares = [t \in Symbols |-> stock(t) + Unsettled(t)]
       /\ Shares' = [t \in Symbols |-> Total(Remaining', GroupsOf(t)') + Unsettled(t)']
  BY <1>5, MappedStep
<1> HIDE DEF stock
<1>11. CASE take # order.left
  <2>1. PICK after : after = [order EXCEPT !.left = order.left - take, !.parts = order.parts + 1]
    OBVIOUS
  <2>2. sale' = <<after>> /\ sale' # << >> /\ sale'[1] = after
    BY <1>6, <1>11, <2>1
  <2>3. /\ after.left = order.left - take /\ after.parts = order.parts + 1
        /\ after.symbol = s /\ after.qty = order.qty
    BY <1>3, <1>4, <2>1 DEF OrderType
  <2>4. Paid' = paid + share
    BY <1>6, <2>2, <2>3 DEF Paid
  <2>5. \A t : Unsettled(t)' = IF t = s THEN order.qty - (order.left - take) ELSE 0
    BY <2>2, <2>3 DEF Unsettled
  <2>6. Funds' = Funds
    <3>1. (c + share) - (paid + share) = c - paid
      BY <1>6
    <3>2. QED
      BY <1>6, <1>10, <2>4, <3>1
  <2>7. \A t : Total(Remaining', GroupsOf(t)') + Unsettled(t)' = stock(t) + Unsettled(t)
    <3>1. \A n \in Nat : (n + (-take)) + (order.qty - (order.left - take)) = n + (order.qty - order.left)
      BY <1>4, <1>6
    <3>2. \A n \in Nat : (n + 0) + 0 = n + 0
      OBVIOUS
    <3>3. ASSUME NEW t PROVE Total(Remaining', GroupsOf(t)') + Unsettled(t)' = stock(t) + Unsettled(t)
      <4>1. CASE t = s
        BY <1>7, <1>8, <2>5, <3>1, <4>1
      <4>2. CASE t # s
        BY <1>7, <1>8, <2>5, <3>2, <4>2
      <4>3. QED
        BY <4>1, <4>2
    <3>4. QED
      BY <3>3
  <2>8. QED
    BY <1>10, <2>6, <2>7
<1>12. CASE take = order.left
  <2>1. sale' = << >>
    BY <1>6, <1>12
  <2>2. Paid' = 0 /\ \A t : Unsettled(t)' = 0
    BY <2>1 DEF Paid, Unsettled
  <2>3. PICK q : q = order.qty
    OBVIOUS
  <2>4. Shares[s] = stock(s) + (q - order.left) /\ q \in 1..Shares[s]
    <3>1. Shares[s] = stock(s) + (q - order.left)
      BY <1>4, <1>8, <1>10, <2>3
    <3>2. PICK n : n = stock(s)
      OBVIOUS
    <3>3. n \in Nat /\ order.left <= n
      BY <1>7, <1>9, <3>2
    <3>4. q \in 1..(n + (q - order.left))
      BY <1>4, <2>3, <3>3
    <3>5. QED
      BY <3>1, <3>2, <3>4
  <2>5. Shares' = [Shares EXCEPT ![s] = @ - q]
    <3>1. \A n \in Nat : /\ (n + (-take)) + 0 = (n + (q - order.left)) - q
                         /\ (n + 0) + 0 = n + 0
      BY <1>4, <1>6, <1>12, <2>3
    <3>2. ASSUME NEW t \in Symbols
          PROVE  Total(Remaining', GroupsOf(t)') + Unsettled(t)'
                   = IF t = s THEN Shares[s] - q ELSE Shares[t]
      <4>1. CASE t = s
        BY <1>7, <2>2, <2>4, <3>1, <4>1
      <4>2. CASE t # s
        BY <1>7, <1>8, <1>10, <2>2, <3>1, <4>2
      <4>3. QED
        BY <4>1, <4>2
    <3>3. Shares' = [t \in Symbols |-> IF t = s THEN Shares[s] - q ELSE Shares[t]]
      BY <1>10, <3>2
    <3>4. QED
      BY <1>10, <3>3
  <2>6. 2 * (Funds' - Funds - order.net) \in (-q)..q
    <3>1. PICK n, m : n = order.parts + 1 /\ m = order.net
      OBVIOUS
    <3>2. 2 * (Total(Nets(log'), Latest(log', n)) - m) \in (-n)..n
      BY <1>1, <2>1, <3>1, Turn DEF Latest
    <3>3. n <= q /\ n \in Nat /\ m \in Nat /\ q \in Nat
      <4>1. m \in Nat
        BY <1>4, <3>1 DEF Underway
      <4>2. order.parts + 1 <= order.qty
        BY ONLY <1>4, <1>9
      <4>3. QED
        BY <1>4, <2>3, <3>1, <4>1, <4>2
    <3>4. 2 * ((paid + share) - m) \in (-n)..n
      BY <1>6, <3>1, <3>2
    <3>5. Funds = c - paid /\ Funds' = c + share
      <4>1. \A x \in Int : x - 0 = x
        OBVIOUS
      <4>2. c + share \in Int
        BY <1>6
      <4>3. Funds' = (c + share) - 0
        BY <1>6, <1>10, <2>2
      <4>4. QED
        BY <1>10, <4>1, <4>2, <4>3
    <3>6. 2 * ((c + share) - (c - paid) - m) \in (-q)..q
      BY ONLY <1>6, <3>3, <3>4
    <3>7. QED
      BY <3>1, <3>5, <3>6
  <2>7. order.net = SellProceeds(order.price, q, order.date)
    BY <1>4, <2>3 DEF Underway
  <2>8. q <= Shares[s]
    BY <1>7, <1>4, <2>4, <2>3
  <2>9. Promise!Sell(s, order.price, q, order.date)
    BY <2>5, <2>6, <2>7, <2>8, SamePrices DEF Promise!Sell
  <2>10. QED
    BY <1>4, <2>4, <2>9
<1>13. QED
  BY <1>11, <1>12

\* A sale by symbol that has only begun has not happened.
LEMMA StartIsUnseen ==
    ASSUME PortfolioInv, PortfolioInv',
           NEW s \in Symbols, NEW price \in Prices, NEW q \in 1..MaxQty, NEW date \in Dates,
           SellSymbolFifo(s, price, q, date)
    PROVE  UNCHANGED <<Funds, Shares>>
<1>1. /\ sale = << >> /\ UNCHANGED <<cash, groups, log>> /\ q \in Int
      /\ Len(sale') = 1 /\ sale'[1].left = q /\ sale'[1].qty = q /\ sale'[1].parts = 0
  BY CallsAssumption DEF SellSymbolFifo, Idle, ledgerVars
<1>2. Paid = 0 /\ Paid' = 0
  <2>1. Latest(log', 0) = {}
    <3>1. Len(log) \in Nat
      BY DEF PortfolioInv, AccountInv
    <3>2. QED
      BY <1>1, <3>1 DEF Latest
  <2>2. QED
    BY <1>1, <2>1, TotalOfNone DEF Paid
<1>3. \A t : Unsettled(t) = 0 /\ Unsettled(t)' = 0
  BY <1>1 DEF Unsettled
<1>4. QED
  BY <1>1, <1>2, <1>3, NothingSeen

LEMMA StepIsPromised ==
    ASSUME PortfolioInv, PortfolioInv', [Next]_vars
    PROVE  [Promise!Next]_(Promise!vars)
<1>1. Promise!vars' = Promise!vars <=> UNCHANGED <<Funds, Shares>>
  BY DEF Promise!vars
<1>2. CASE SellOldestGroup
  <2>1. ASSUME NEW s \in Symbols, NEW price \in Prices, NEW date \in Dates,
               NEW q \in 1..Shares[s], Promise!Sell(s, price, q, date)
        PROVE  Promise!Next
    BY <2>1 DEF Promise!Next
  <2>2. QED
    BY <1>1, <1>2, <2>1, TurnIsPromised
<1>3. ASSUME NEW s \in Symbols, NEW price \in Prices, NEW q \in 1..MaxQty, NEW date \in Dates,
             NEW pyramid \in Pyramiding, BuyShares(s, price, q, date, pyramid)
      PROVE  Promise!Next
  <2>1. Promise!Buy(s, price, q)
    BY <1>3, BuyIsPromised
  <2>2. QED
    BY <2>1 DEF Promise!Next
<1>4. ASSUME NEW s \in Symbols, NEW price \in Prices, NEW q \in 1..MaxQty, NEW date \in Dates,
             NEW g \in GroupsOf(s), SellGroup(g, price, q, date)
      PROVE  Promise!Next
  <2>1. q \in 1..Shares[s] /\ Promise!Sell(s, price, q, date)
    BY <1>4, GroupSaleIsPromised
  <2>2. QED
    BY <2>1 DEF Promise!Next
<1>5. ASSUME NEW s \in Symbols, NEW price \in Prices, NEW q \in 1..MaxQty, NEW date \in Dates,
             SellSymbolFifo(s, price, q, date)
      PROVE  UNCHANGED <<Funds, Shares>>
  BY <1>5, StartIsUnseen
<1>6. ASSUME UNCHANGED <<cash, groups, log, sale>> PROVE UNCHANGED <<Funds, Shares>>
  BY <1>6, NothingSeen DEF Paid, Unsettled
<1>7. ASSUME NEW s \in Symbols, NEW price \in Prices,
             \/ UpdateMarketPrice(s, price) \/ UpdatePeakPrice(s, price)
             \/ \E q \in 1..MaxQty : BuyHeld(s, price, q)
      PROVE  UNCHANGED <<cash, groups, log, sale>>
  BY <1>7 DEF UpdateMarketPrice, UpdatePeakPrice, BuyHeld, BuyHeldRefused
<1>8. CASE UNCHANGED vars
  BY <1>1, <1>6, <1>8 DEF vars, ledgerVars
<1>9. QED
  BY <1>1, <1>2, <1>3, <1>4, <1>5, <1>6, <1>7, <1>8 DEF Next

LEMMA InitIsPromised == Init => Promise!Init
<1> SUFFICES ASSUME Init PROVE Promise!Init
  OBVIOUS
<1>1. /\ cash = InitialCash /\ sale = << >> /\ InitialCash - 0 = InitialCash
      /\ \A s : GroupsOf(s) = {}
  BY CashAssumption DEF Init, LedgerInit, GroupsOf, Live
<1>2. /\ Funds = cash - Paid
      /\ Shares = [s \in Symbols |-> Total(Remaining, GroupsOf(s)) + Unsettled(s)]
  BY PortfolioInit, Mapped
<1>3. \A s : Total(Remaining, GroupsOf(s)) = 0
  BY <1>1, TotalOfNone
<1>4. Funds = InitialCash /\ Shares = [s \in Symbols |-> 0]
  BY <1>1, <1>2, <1>3 DEF Paid, Unsettled
<1>5. QED
  BY <1>4 DEF Promise!Init

\* Whatever lots, positions and log there are, callers see an account: money and
\* shares move in one step a trade, by what Account.tla says.
THEOREM PortfolioIsAnAccount == Spec => ImplementsAccount
<1>1. Init => Promise!Init
  BY InitIsPromised
<1>2. PortfolioInv /\ PortfolioInv' /\ [Next]_vars => [Promise!Next]_(Promise!vars)
  BY StepIsPromised
<1>3. QED
  BY <1>1, <1>2, PortfolioInvHolds, PTL DEF Spec, Safety, ImplementsAccount, Promise!Spec

-----------------------------------------------------------------------------
\* What the results are computed from.

\* A log l by trade group: the buys of g, the first of them, the sales of g and
\* the shares sold; and what each entry adds to the profits and to the fees.
BuysOf(l, g)  == {i \in DOMAIN l : l[i].id = g /\ Bought(l[i])}
SalesOf(l, g) == {i \in DOMAIN l : l[i].id = g /\ ~Bought(l[i])}
EntryIn(l, g) == l[Min(BuysOf(l, g))]
Sold(l, g)    == Total([i \in DOMAIN l |-> l[i].qty], SalesOf(l, g))
Gain(l, e)    == IF Bought(e) THEN 0 ELSE e.net - EntryIn(l, e.id).price * e.qty
Gains(l)      == [i \in DOMAIN l |-> Gain(l, l[i])]
Fee(e)        == IF Bought(e) THEN e.net - e.price * e.qty ELSE 0
Fees(l)       == [i \in DOMAIN l |-> Fee(l[i])]
Worth         == [g \in Live |-> groups[g].entryPrice * groups[g].remaining]

\* Nothing is sold that was not bought.
Opened(l) == \A i \in DOMAIN l : BuysOf(l, l[i].id) # {} /\ l[i].qty \in Nat \ {0}

\* A lot holds what was bought less what was sold; a group without a lot is sold.
LotsTold ==
    /\ \A g \in Live : /\ BuysOf(log, g) # {}
                       /\ EntryIn(log, g).price = groups[g].entryPrice
                       /\ Sold(log, g) = EntryIn(log, g).qty - groups[g].remaining
    /\ \A g : BuysOf(log, g) # {} /\ g \notin Live => Sold(log, g) = EntryIn(log, g).qty

ProfitsTold ==
    cash + Total(Worth, Live)
      = InitialCash + Total(Gains(log), DOMAIN log) - Total(Fees(log), DOMAIN log)

ResultsInv ==
    /\ \A i \in DOMAIN log : log[i].id < nextId
    /\ Opened(log)
    /\ LotsTold
    /\ ProfitsTold

LEMMA OneMoreEntry ==
    ASSUME NEW l \in Seq(EntryType), NEW e \in EntryType, NEW m, m = Append(l, e)
    PROVE  /\ Len(l) + 1 \notin DOMAIN l /\ DOMAIN m = DOMAIN l \cup {Len(l) + 1}
           /\ m[Len(l) + 1] = e /\ \A i \in DOMAIN l : m[i] = l[i]
<1>1. Len(l) \in Nat /\ DOMAIN l = 1..Len(l) /\ \A i \in DOMAIN l : l[i] \in EntryType
  BY LenProperties
<1>2. /\ Len(m) = Len(l) + 1 /\ m[Len(l) + 1] = e /\ \A i \in 1..Len(l) : m[i] = l[i]
      /\ m \in Seq(EntryType)
  OBVIOUS
<1>3. DOMAIN m = 1..(Len(l) + 1)
  BY <1>2, LenProperties
<1>4. QED
  BY <1>1, <1>2, <1>3

LEMMA Entered ==
    ASSUME NEW l \in Seq(EntryType)
    PROVE  IsFiniteSet(DOMAIN l) /\ \A i \in DOMAIN l : l[i] \in EntryType
<1>1. Len(l) \in Nat /\ DOMAIN l = 1..Len(l) /\ \A i \in DOMAIN l : l[i] \in EntryType
  BY LenProperties
<1>2. IsFiniteSet(1..Len(l))
  BY <1>1, FS_Interval
<1>3. QED
  BY <1>1, <1>2

LEMMA EntryNumbers ==
    ASSUME NEW e \in EntryType
    PROVE  e.net \in Int /\ e.price \in Int /\ e.qty \in Int
<1>1. e.net \in Int /\ e.price \in Prices /\ e.qty \in Int
  BY DEF EntryType
<1>2. Prices \subseteq Int
  BY CallsAssumption
<1>3. QED
  BY ONLY <1>1, <1>2

\* The first buy of a group that has one.
LEMMA FirstBuy ==
    ASSUME NEW l \in Seq(EntryType), NEW g, BuysOf(l, g) # {}
    PROVE  /\ Min(BuysOf(l, g)) \in BuysOf(l, g) /\ EntryIn(l, g) \in EntryType
           /\ Opened(l) => EntryIn(l, g).qty \in Nat \ {0}
<1>1. BuysOf(l, g) \in SUBSET Nat /\ BuysOf(l, g) \in SUBSET DOMAIN l
      /\ \A i \in DOMAIN l : l[i] \in EntryType
  BY LenProperties DEF BuysOf
<1>2. Min(BuysOf(l, g)) \in BuysOf(l, g)
  BY <1>1, LeastNatural
<1>3. QED
  BY <1>1, <1>2 DEF EntryIn, Opened

\* The log m is the log l with the entry e added.
Longer(m, l, e) == l \in Seq(EntryType) /\ e \in EntryType /\ m = Append(l, e)

\* A new entry is a sale, or a buy of a group that is new.
LEMMA EntriesStay ==
    ASSUME NEW l, NEW e, NEW m, Longer(m, l, e)
    PROVE  \A g : (Bought(e) => e.id # g) =>
               /\ BuysOf(m, g) = BuysOf(l, g)
               /\ BuysOf(l, g) # {} => EntryIn(m, g) = EntryIn(l, g)
<1>1. /\ Len(l) + 1 \notin DOMAIN l /\ DOMAIN m = DOMAIN l \cup {Len(l) + 1}
      /\ m[Len(l) + 1] = e /\ \A i \in DOMAIN l : m[i] = l[i]
  BY OneMoreEntry DEF Longer
<1>2. ASSUME NEW g, Bought(e) => e.id # g
      PROVE  BuysOf(m, g) = BuysOf(l, g)
  BY <1>1, <1>2 DEF BuysOf
<1>3. ASSUME NEW g, Bought(e) => e.id # g, BuysOf(l, g) # {}
      PROVE  EntryIn(m, g) = EntryIn(l, g)
  <2>1. Min(BuysOf(l, g)) \in DOMAIN l
    BY <1>3, FirstBuy DEF BuysOf, Longer
  <2>2. QED
    BY <1>1, <1>2, <1>3, <2>1 DEF EntryIn
<1>4. QED
  BY <1>2, <1>3

LEMMA NewGroup ==
    ASSUME NEW l \in Seq(EntryType), NEW e \in EntryType, NEW m, m = Append(l, e),
           Bought(e), BuysOf(l, e.id) = {}
    PROVE  BuysOf(m, e.id) # {} /\ EntryIn(m, e.id) = e
<1>1. /\ DOMAIN m = DOMAIN l \cup {Len(l) + 1}
      /\ m[Len(l) + 1] = e /\ \A i \in DOMAIN l : m[i] = l[i]
  BY OneMoreEntry
<1>2. BuysOf(m, e.id) = {Len(l) + 1}
  BY <1>1 DEF BuysOf
<1>3. m \in Seq(EntryType)
  OBVIOUS
<1>4. Min(BuysOf(m, e.id)) = Len(l) + 1
  BY <1>2, <1>3, FirstBuy
<1>5. QED
  BY <1>1, <1>2, <1>4 DEF EntryIn

\* A sale adds its shares to those sold of its group.
LEMMA SoldGrows ==
    ASSUME NEW l, NEW e, NEW m, Longer(m, l, e), NEW g
    PROVE  /\ Sold(l, g) \in Int
           /\ Sold(m, g) = Sold(l, g) + (IF ~Bought(e) /\ e.id = g THEN e.qty ELSE 0)
<1>0. PICK k, D : k = Len(l) + 1 /\ D = DOMAIN l
  OBVIOUS
<1>1. /\ k \notin D /\ DOMAIN m = D \cup {k} /\ DOMAIN l = D
      /\ m[k] = e /\ \A i \in D : m[i] = l[i]
      /\ \A i \in D : l[i] \in EntryType
      /\ IsFiniteSet(D)
  <2>1. /\ k \notin DOMAIN l /\ DOMAIN m = DOMAIN l \cup {k}
        /\ m[k] = e /\ \A i \in DOMAIN l : m[i] = l[i]
    BY <1>0, OneMoreEntry DEF Longer
  <2>2. IsFiniteSet(DOMAIN l) /\ \A i \in DOMAIN l : l[i] \in EntryType
    BY Entered DEF Longer
  <2>3. QED
    BY <1>0, <2>1, <2>2
<1> DEFINE f == [i \in D |-> l[i].qty]
           h == [i \in DOMAIN m |-> m[i].qty]
           S == SalesOf(l, g)
<1>2. S \in SUBSET D /\ IsFiniteSet(S) /\ k \notin S
  <2>1. S \in SUBSET D
    BY <1>1 DEF SalesOf
  <2> HIDE DEF S
  <2>2. QED
    BY <1>1, <2>1, FS_Subset
<1>3. SalesOf(m, g) = IF ~Bought(e) /\ e.id = g THEN S \cup {k} ELSE S
  BY <1>1 DEF SalesOf
<1>4. /\ \A i \in D : f[i] = h[i] /\ h[i] \in Int
      /\ h[k] = e.qty /\ h[k] \in Int
  BY <1>1, EntryNumbers DEF Longer
<1>5. Sold(l, g) = Total(f, S) /\ Sold(m, g) = Total(h, SalesOf(m, g))
  BY <1>1 DEF Sold
<1> HIDE DEF f, h, S
<1>6. /\ Total(f, S) \in Int /\ Total(h, S \cup {k}) = Total(f, S) + h[k]
      /\ Total(h, S) = Total(f, S)
  <2>1. (\A i \in S : f[i] = h[i]) /\ \A i \in S \cup {k} : h[i] \in Int
    BY <1>2, <1>4
  <2>2. Total(f, S) \in Int /\ Total(h, S \cup {k}) = Total(f, S) + h[k]
    BY ONLY <1>2, <2>1, TotalOfNewMember
  <2>3. Total(f, S) = Total(h, S)
    BY <1>2, <2>1, TotalOfEqual
  <2>4. QED
    BY <2>2, <2>3
<1>7. QED
  BY <1>3, <1>4, <1>5, <1>6

\* The profits and fees of a log with an entry more.
LEMMA GainsGrow ==
    ASSUME NEW l \in Seq(EntryType), NEW e \in EntryType, NEW m, m = Append(l, e), Opened(l),
           IF Bought(e) THEN BuysOf(l, e.id) = {} ELSE BuysOf(l, e.id) # {}
    PROVE  /\ Total(Gains(l), DOMAIN l) \in Int /\ Total(Fees(l), DOMAIN l) \in Int
           /\ Total(Gains(m), DOMAIN m) = Total(Gains(l), DOMAIN l) + Gain(l, e)
           /\ Total(Fees(m), DOMAIN m) = Total(Fees(l), DOMAIN l) + Fee(e)
<1>0. PICK k, D : k = Len(l) + 1 /\ D = DOMAIN l
  OBVIOUS
<1>1. /\ k \notin D /\ DOMAIN m = D \cup {k} /\ DOMAIN l = D
      /\ m[k] = e /\ \A i \in D : m[i] = l[i]
      /\ \A i \in D : l[i] \in EntryType
      /\ IsFiniteSet(D)
  <2>1. /\ k \notin DOMAIN l /\ DOMAIN m = DOMAIN l \cup {k}
        /\ m[k] = e /\ \A i \in DOMAIN l : m[i] = l[i]
    BY <1>0, OneMoreEntry
  <2>2. IsFiniteSet(DOMAIN l) /\ \A i \in DOMAIN l : l[i] \in EntryType
    BY Entered
  <2>3. QED
    BY <1>0, <2>1, <2>2
<1>s. \A g : (Bought(e) => e.id # g) =>
          /\ BuysOf(m, g) = BuysOf(l, g)
          /\ BuysOf(l, g) # {} => EntryIn(m, g) = EntryIn(l, g)
  <2>1. Longer(m, l, e)
    BY DEF Longer
  <2>2. QED
    BY ONLY <2>1, EntriesStay
<1>2. ASSUME NEW d \in EntryType PROVE Fee(d) \in Int
  <2>1. d.net \in Int /\ d.price \in Int /\ d.qty \in Int
    BY EntryNumbers
  <2>2. QED
    BY <2>1 DEF Fee
<1>3. ASSUME NEW d \in EntryType, BuysOf(l, d.id) # {}
      PROVE  Gain(l, d) \in Int
  <2>1. EntryIn(l, d.id) \in EntryType
    BY <1>3, FirstBuy
  <2>2. EntryIn(l, d.id).price \in Int /\ d.net \in Int /\ d.qty \in Int
    BY <2>1, EntryNumbers
  <2>3. QED
    BY <2>2 DEF Gain
<1>4. ASSUME NEW i \in D PROVE Gain(m, l[i]) = Gain(l, l[i]) /\ Gain(l, l[i]) \in Int
  <2>1. BuysOf(l, l[i].id) # {} /\ l[i] \in EntryType
    BY <1>1 DEF Opened
  <2>2. PICK g : g = l[i].id
    OBVIOUS
  <2>3. BuysOf(l, g) # {} /\ (Bought(e) => e.id # g)
    BY <2>1, <2>2
  <2>4. EntryIn(m, g) = EntryIn(l, g)
    BY <2>3, <1>s
  <2>5. QED
    BY <1>3, <2>1, <2>2, <2>4 DEF Gain
<1>5. Gain(m, e) = Gain(l, e) /\ Gain(l, e) \in Int
  <2>1. CASE Bought(e)
    BY <2>1 DEF Gain
  <2>2. CASE ~Bought(e)
    <3>1. BuysOf(l, e.id) # {} /\ (Bought(e) => e.id # e.id)
      BY <2>2
    <3>2. EntryIn(m, e.id) = EntryIn(l, e.id)
      BY <3>1, <1>s
    <3>3. QED
      BY <1>3, <3>1, <3>2 DEF Gain
  <2>3. QED
    BY <2>1, <2>2
<1>6. /\ \A i \in D : Gains(l)[i] = Gains(m)[i]
      /\ \A i \in D \cup {k} : Gains(m)[i] \in Int
      /\ Gains(m)[k] = Gain(l, e)
  BY <1>1, <1>4, <1>5 DEF Gains
<1>7. /\ \A i \in D : Fees(l)[i] = Fees(m)[i]
      /\ \A i \in D \cup {k} : Fees(m)[i] \in Int
      /\ Fees(m)[k] = Fee(e)
  BY <1>1, <1>2 DEF Fees
<1>8. /\ Total(Gains(l), D) \in Int
      /\ Total(Gains(m), D \cup {k}) = Total(Gains(l), D) + Gains(m)[k]
  BY ONLY <1>1, <1>6, TotalOfNewMember
<1>9. /\ Total(Fees(l), D) \in Int
      /\ Total(Fees(m), D \cup {k}) = Total(Fees(l), D) + Fees(m)[k]
  <2>1. PICK f, h : f = Fees(l) /\ h = Fees(m)
    OBVIOUS
  <2>2. (\A i \in D : f[i] = h[i]) /\ \A i \in D \cup {k} : h[i] \in Int
    BY <1>7, <2>1
  <2>3. Total(f, D) \in Int /\ Total(h, D \cup {k}) = Total(f, D) + h[k]
    BY ONLY <1>1, <2>2, TotalOfNewMember
  <2>4. QED
    BY <2>1, <2>3
<1>10. QED
  BY <1>1, <1>6, <1>7, <1>8, <1>9

\* What a buy adds to the log and to the lots.
LEMMA BuyNoted ==
    ASSUME AccountInv, AccountInv', NEW s, NEW price \in Prices, NEW q \in 1..MaxQty,
           NEW cost, NEW date, Buy(s, price, q, cost, date, date)
    PROVE  \E e \in EntryType :
              /\ log' = Append(log, e) /\ Bought(e) /\ e.id = nextId
              /\ e.net = cost /\ e.price = price /\ e.qty = q
              /\ cash' = cash - cost /\ nextId' = nextId + 1
              /\ nextId \notin Live /\ Live' = Live \cup {nextId}
              /\ groups'[nextId].entryPrice = price /\ groups'[nextId].remaining = q
              /\ \A g \in Live : groups'[g] = groups[g]
<1> DEFINE e   == Trade(nextId, "BUY", s, price, q, cost, date, date, "entry_signal")
           lot == [symbol |-> s, entryDate |-> date, entryPrice |-> price,
                   entryQty |-> q, remaining |-> q]
<1>1. /\ groups' = [h \in Live \cup {nextId} |-> IF h = nextId THEN lot ELSE groups[h]]
      /\ log' = Append(log, e) /\ nextId' = nextId + 1 /\ cash' = cash - cost
  BY DEF Buy
<1>2. /\ Bought(e) /\ e.id = nextId /\ e.net = cost /\ e.price = price /\ e.qty = q
      /\ lot.entryPrice = price /\ lot.remaining = q
  BY DEF Trade, Bought
<1> HIDE DEF e, lot
<1>3. e \in EntryType
  <2>1. log \in Seq(EntryType) /\ log' \in Seq(EntryType)
    BY DEF AccountInv
  <2>2. Len(log) \in Nat /\ Len(log') = Len(log) + 1 /\ log'[Len(log) + 1] = e
    BY <1>1, <2>1
  <2>3. log'[Len(log) + 1] \in EntryType
    BY <2>1, <2>2
  <2>4. QED
    BY <2>2, <2>3
<1>4. nextId \notin Live /\ Live' = Live \cup {nextId}
  BY <1>1 DEF AccountInv, Live
<1>5. groups'[nextId] = lot /\ \A g \in Live : groups'[g] = groups[g]
  BY <1>1, <1>4
<1>6. QED
  BY <1>1, <1>2, <1>3, <1>4, <1>5

\* What a sale adds to the log.
LEMMA SaleNoted ==
    ASSUME AccountInv, AccountInv', NEW g \in Live, NEW price, NEW q, NEW net, NEW date,
           NEW reason, SellTradeGroup(g, price, q, net, date, date, reason)
    PROVE  \E e \in EntryType :
              /\ log' = Append(log, e) /\ ~Bought(e) /\ e.id = g /\ e.net = net /\ e.qty = q
              /\ cash' = cash + net /\ nextId' = nextId
<1> DEFINE kind == IF q < groups[g].entryQty \/ LeftOf(g, q) > 0 THEN "PARTIAL_SELL" ELSE "SELL"
           e    == Trade(g, kind, groups[g].symbol, price, q, net, date, date, reason)
<1>1. log' = Append(log, e) /\ cash' = cash + net /\ nextId' = nextId
  BY DEF SellTradeGroup, PaidFor
<1>2. ~Bought(e) /\ e.id = g /\ e.net = net /\ e.qty = q
  BY DEF Trade, Bought
<1> HIDE DEF e
<1>3. e \in EntryType
  <2>1. log \in Seq(EntryType) /\ log' \in Seq(EntryType)
    BY DEF AccountInv
  <2>2. Len(log) \in Nat /\ Len(log') = Len(log) + 1 /\ log'[Len(log) + 1] = e
    BY <1>1, <2>1
  <2>3. log'[Len(log) + 1] \in EntryType
    BY <2>1, <2>2
  <2>4. QED
    BY <2>2, <2>3
<1>4. QED
  BY <1>1, <1>2, <1>3

\* What the open lots have cost is a sum of amounts.
LEMMA WorthTyped ==
    ASSUME AccountInv
    PROVE  /\ IsFiniteSet(Live) /\ \A g \in Live : Worth[g] \in Int
           /\ \A g \in Live : groups[g].entryPrice \in Int /\ groups[g].remaining \in Int
<1>1. IsFiniteSet(Live)
  BY GroupsAreFew
<1>2. ASSUME NEW g \in Live PROVE groups[g].entryPrice \in Int /\ groups[g].remaining \in Int
  <2>1. groups[g].entryPrice \in Prices /\ groups[g].remaining \in 1..MaxQty
    BY DEF AccountInv, LotType
  <2>2. Prices \subseteq Int /\ 1..MaxQty \subseteq Int
    BY CallsAssumption
  <2>3. QED
    BY ONLY <2>1, <2>2
<1>3. QED
  BY <1>1, <1>2 DEF Worth

LEMMA WorthBought ==
    ASSUME AccountInv, nextId \notin Live, Live' = Live \cup {nextId}, NEW n \in Int,
           groups'[nextId].entryPrice * groups'[nextId].remaining = n,
           \A g \in Live : groups'[g] = groups[g]
    PROVE  Total(Worth, Live) \in Int /\ Total(Worth', Live') = Total(Worth, Live) + n
<1>1. PICK f, h, D : f = Worth /\ h = Worth' /\ D = Live
  OBVIOUS
<1>2. IsFiniteSet(D) /\ nextId \notin D /\ Live' = D \cup {nextId}
  BY <1>1, WorthTyped
<1>3. \A g \in D : f[g] = h[g] /\ h[g] \in Int
  BY <1>1, WorthTyped DEF Worth
<1>4. h[nextId] = n
  BY <1>1 DEF Worth
<1>5. \A g \in D \cup {nextId} : h[g] \in Int
  BY <1>3, <1>4
<1>6. Total(f, D) \in Int /\ Total(h, D \cup {nextId}) = Total(f, D) + h[nextId]
  <2>1. PICK x : x = nextId
    OBVIOUS
  <2>2. IsFiniteSet(D) /\ x \notin D /\ \A g \in D \cup {x} : h[g] \in Int
    BY <1>2, <1>5, <2>1
  <2>3. Total(f, D) \in Int /\ Total(h, D \cup {x}) = Total(f, D) + h[x]
    BY ONLY <1>3, <2>2, TotalOfNewMember
  <2>4. QED
    BY <2>1, <2>3
<1>7. QED
  BY <1>1, <1>2, <1>4, <1>6

LEMMA WorthSold ==
    ASSUME AccountInv, NEW g \in Live, NEW price, NEW q, NEW net, NEW date, NEW reason,
           SellTradeGroup(g, price, q, net, date, date, reason)
    PROVE  /\ Total(Worth, Live) \in Int
           /\ Total(Worth', Live') = Total(Worth, Live) - groups[g].entryPrice * q
<1>1. PICK f, h, D, p, a : /\ f = Worth /\ h = Worth' /\ D = Live \ {g}
                          /\ p = groups[g].entryPrice /\ a = groups[g].remaining
  OBVIOUS
<1>2. /\ q \in 1..a /\ groups[g] \in LotType
      /\ \A k \in Live' : k \in Live
      /\ \A k \in Live : k # g => k \in Live' /\ groups'[k] = groups[k]
      /\ g \in Live' <=> a - q # 0
      /\ g \in Live' => groups'[g] = [groups[g] EXCEPT !.remaining = a - q]
  BY <1>1, SaleLeaves
<1>3. p \in Int /\ a \in Int /\ q \in Int
  BY <1>1, <1>2, WorthTyped
<1>4. /\ IsFiniteSet(D) /\ g \notin D /\ Live = D \cup {g}
      /\ Live' = IF a - q = 0 THEN D ELSE D \cup {g}
  <2>1. IsFiniteSet(Live)
    BY WorthTyped
  <2>2. IsFiniteSet(D)
    BY <1>1, <2>1, FS_Subset
  <2>3. QED
    BY <1>1, <1>2, <2>2
<1>5. /\ \A k \in D : f[k] = h[k] /\ f[k] \in Int /\ h[k] \in Int
      /\ f[g] = p * a /\ f[g] \in Int
  <2>1. \A k \in D : f[k] = h[k]
    BY <1>1, <1>2 DEF Worth
  <2>2. \A k \in Live : f[k] \in Int
    BY <1>1, WorthTyped
  <2>3. f[g] = p * a
    BY <1>1 DEF Worth
  <2>4. QED
    BY <1>1, <2>1, <2>2, <2>3
<1>6. Total(f, D) \in Int /\ Total(f, D \cup {g}) = Total(f, D) + p * a
  <2>1. \A k \in D \cup {g} : f[k] \in Int
    BY <1>5
  <2>2. Total(f, D) \in Int /\ Total(f, D \cup {g}) = Total(f, D) + f[g]
    BY ONLY <1>4, <2>1, TotalOfNewMember
  <2>3. QED
    BY <1>5, <2>2
<1>7. PICK t, pa, pq : t = Total(f, D) /\ pa = p * a /\ pq = p * q
  OBVIOUS
<1>8. /\ t \in Int /\ pa \in Int /\ pq \in Int /\ p * (a - q) = pa - pq
      /\ Total(f, Live) = t + pa
  BY <1>3, <1>4, <1>6, <1>7
<1>9. ASSUME a - q = 0
      PROVE  Total(h, Live') = t + (pa - pq)
  <2>1. Total(h, D) = t
    BY <1>4, <1>5, <1>7, TotalOfEqual
  <2>2. a = q
    BY <1>3, <1>9
  <2>3. pa - pq = 0
    BY <1>7, <1>8, <2>2
  <2>4. QED
    BY <1>4, <1>8, <1>9, <2>1, <2>3
<1>10. ASSUME a - q # 0
       PROVE  Total(h, Live') = t + (pa - pq)
  <2>1. h[g] = pa - pq /\ h[g] \in Int
    <3>1. g \in Live' /\ groups'[g] = [groups[g] EXCEPT !.remaining = a - q]
      BY <1>2, <1>10
    <3>2. groups'[g].entryPrice = p /\ groups'[g].remaining = a - q
      BY <1>1, <1>2, <3>1 DEF LotType
    <3>3. h[g] = p * (a - q)
      BY <1>1, <3>1, <3>2 DEF Worth
    <3>4. QED
      BY <1>8, <3>3
  <2>2. (\A k \in D : f[k] = h[k]) /\ \A k \in D \cup {g} : h[k] \in Int
    BY <1>5, <2>1
  <2>3. Total(h, D \cup {g}) = Total(f, D) + h[g]
    BY ONLY <1>4, <2>2, TotalOfNewMember
  <2>4. QED
    BY <1>4, <1>7, <1>10, <2>1, <2>3
<1>11. Total(h, Live') = (t + pa) - pq
  <2>1. t + (pa - pq) = (t + pa) - pq
    BY <1>8
  <2>2. QED
    BY <1>9, <1>10, <2>1
<1>12. Total(Worth, Live) = t + pa /\ Total(Worth', Live') = (t + pa) - groups[g].entryPrice * q
  BY <1>1, <1>7, <1>8, <1>11
<1>13. QED
  BY <1>8, <1>12

LEMMA BuyIsTold ==
    ASSUME AccountInv, AccountInv', ResultsInv, NEW s, NEW price \in Prices,
           NEW q \in 1..MaxQty, NEW date, Buy(s, price, q, BuyCost(price, q), date, date)
    PROVE  ResultsInv'
<1>1. PICK cost : cost = BuyCost(price, q)
  OBVIOUS
<1>2. PICK e \in EntryType :
              /\ log' = Append(log, e) /\ Bought(e) /\ e.id = nextId
              /\ e.net = cost /\ e.price = price /\ e.qty = q
              /\ cash' = cash - cost /\ nextId' = nextId + 1
              /\ nextId \notin Live /\ Live' = Live \cup {nextId}
              /\ groups'[nextId].entryPrice = price /\ groups'[nextId].remaining = q
              /\ \A g \in Live : groups'[g] = groups[g]
  <2>1. Buy(s, price, q, cost, date, date)
    BY <1>1
  <2>2. QED
    BY <2>1, BuyNoted
<1>3. log \in Seq(EntryType) /\ Longer(log', log, e) /\ nextId \in Nat
  BY <1>2 DEF AccountInv, Longer
<1>4. /\ DOMAIN log' = DOMAIN log \cup {Len(log) + 1}
      /\ log'[Len(log) + 1] = e /\ \A i \in DOMAIN log : log'[i] = log[i]
      /\ \A i \in DOMAIN log : log[i].id < nextId /\ log[i].id \in Int
  <2>1. /\ DOMAIN log' = DOMAIN log \cup {Len(log) + 1}
        /\ log'[Len(log) + 1] = e /\ \A i \in DOMAIN log : log'[i] = log[i]
    BY <1>2, <1>3, OneMoreEntry
  <2>2. \A i \in DOMAIN log : log[i].id < nextId /\ log[i].id \in Int
    BY <1>3, Entered DEF ResultsInv, EntryType
  <2>3. QED
    BY <2>1, <2>2
<1>5. \A i \in DOMAIN log : log[i].id # nextId
  BY <1>3, <1>4
<1>6. BuysOf(log, nextId) = {} /\ SalesOf(log, nextId) = {}
  BY <1>5 DEF BuysOf, SalesOf
<1>7. \A g : g # nextId =>
          /\ BuysOf(log', g) = BuysOf(log, g)
          /\ BuysOf(log, g) # {} => EntryIn(log', g) = EntryIn(log, g)
  BY <1>2, <1>3, EntriesStay
<1>8. BuysOf(log', nextId) # {} /\ EntryIn(log', nextId) = e
  BY <1>2, <1>3, <1>6, NewGroup
<1>9. \A g : Sold(log', g) = Sold(log, g)
  <2>1. ASSUME NEW g PROVE Sold(log', g) = Sold(log, g)
    <3>1. /\ Sold(log, g) \in Int
          /\ Sold(log', g) = Sold(log, g) + (IF ~Bought(e) /\ e.id = g THEN e.qty ELSE 0)
      BY <1>3, SoldGrows
    <3>2. QED
      BY <1>2, <3>1
  <2>2. QED
    BY <2>1
<1>10. \A i \in DOMAIN log' : log'[i].id < nextId'
  BY <1>2, <1>3, <1>4
<1>11. Opened(log')
  <2>1. \A i \in DOMAIN log : BuysOf(log', log[i].id) # {} /\ log[i].qty \in Nat \ {0}
    BY <1>5, <1>7 DEF ResultsInv, Opened
  <2>2. e.qty \in Nat \ {0} /\ BuysOf(log', e.id) # {}
    BY <1>2, <1>8, CallsAssumption
  <2>3. QED
    BY <1>4, <2>1, <2>2 DEF Opened
<1>12. LotsTold'
  <2>1. ASSUME NEW g \in Live'
        PROVE  /\ BuysOf(log', g) # {}
               /\ EntryIn(log', g).price = groups'[g].entryPrice
               /\ Sold(log', g) = EntryIn(log', g).qty - groups'[g].remaining
    <3>1. CASE g = nextId
      <4>1. Sold(log', g) = 0
        BY <1>6, <1>9, <3>1, TotalOfNone DEF Sold
      <4>2. q - q = 0
        BY CallsAssumption
      <4>3. QED
        BY <1>2, <1>8, <3>1, <4>1, <4>2
    <3>2. CASE g # nextId
      <4>1. g \in Live /\ groups'[g] = groups[g]
        BY <1>2, <3>2
      <4>2. QED
        BY <1>7, <1>9, <3>2, <4>1 DEF ResultsInv, LotsTold
    <3>3. QED
      BY <3>1, <3>2
  <2>2. ASSUME NEW g, BuysOf(log', g) # {}, g \notin Live'
        PROVE  Sold(log', g) = EntryIn(log', g).qty
    <3>1. g # nextId /\ g \notin Live
      BY <1>2, <2>2
    <3>2. QED
      BY <1>7, <1>9, <2>2, <3>1 DEF ResultsInv, LotsTold
  <2>3. QED
    BY <2>1, <2>2 DEF LotsTold
<1>13. ProfitsTold'
  <2>1. PICK gains, fees, worth, gross :
           /\ gains = Total(Gains(log), DOMAIN log) /\ fees = Total(Fees(log), DOMAIN log)
           /\ worth = Total(Worth, Live) /\ gross = price * q
    OBVIOUS
  <2>2. price \in Int /\ q \in Int /\ cost \in Int /\ gross \in Int /\ cash \in Int
        /\ InitialCash \in Int
    BY <1>1, <2>1, CallsAssumption, CashAssumption, BuyCostIsAnAmount DEF AccountInv
  <2>3. /\ gains \in Int /\ fees \in Int
        /\ Total(Gains(log'), DOMAIN log') = gains + Gain(log, e)
        /\ Total(Fees(log'), DOMAIN log') = fees + Fee(e)
    BY <1>2, <1>3, <1>6, <2>1, GainsGrow DEF ResultsInv
  <2>4. Gain(log, e) = 0 /\ Fee(e) = cost - gross
    BY <1>2, <2>1 DEF Gain, Fee
  <2>5. worth \in Int /\ Total(Worth', Live') = worth + gross
    BY <1>2, <2>1, <2>2, WorthBought
  <2>6. cash + worth = InitialCash + gains - fees
    BY <2>1 DEF ResultsInv, ProfitsTold
  <2>7. (cash - cost) + (worth + gross) = InitialCash + (gains + 0) - (fees + (cost - gross))
    BY ONLY <2>2, <2>3, <2>5, <2>6
  <2>8. QED
    BY <1>2, <2>3, <2>4, <2>5, <2>7 DEF ProfitsTold
<1>14. QED
  BY <1>10, <1>11, <1>12, <1>13 DEF ResultsInv

LEMMA SaleIsTold ==
    ASSUME AccountInv, AccountInv', ResultsInv, NEW g \in Live, NEW price, NEW q, NEW net,
           NEW date, NEW reason, SellTradeGroup(g, price, q, net, date, date, reason)
    PROVE  ResultsInv'
<1>1. PICK e \in EntryType :
              /\ log' = Append(log, e) /\ ~Bought(e) /\ e.id = g /\ e.net = net /\ e.qty = q
              /\ cash' = cash + net /\ nextId' = nextId
  BY SaleNoted
<1>2. log \in Seq(EntryType) /\ Longer(log', log, e) /\ g < nextId
  BY <1>1 DEF AccountInv, Longer
<1>3. /\ DOMAIN log' = DOMAIN log \cup {Len(log) + 1}
      /\ log'[Len(log) + 1] = e /\ \A i \in DOMAIN log : log'[i] = log[i]
  BY <1>1, <1>2, OneMoreEntry
<1>4. \A h : /\ BuysOf(log', h) = BuysOf(log, h)
             /\ BuysOf(log, h) # {} => EntryIn(log', h) = EntryIn(log, h)
  BY <1>1, <1>2, EntriesStay
<1>5. ASSUME NEW h
      PROVE  /\ Sold(log, h) \in Int
             /\ h # g => Sold(log', h) = Sold(log, h)
             /\ h = g => Sold(log', h) = Sold(log, h) + q
  <2>1. /\ Sold(log, h) \in Int
        /\ Sold(log', h) = Sold(log, h) + (IF ~Bought(e) /\ e.id = h THEN e.qty ELSE 0)
    BY <1>2, SoldGrows
  <2>2. QED
    BY <1>1, <2>1
<1>6. /\ q \in 1..groups[g].remaining /\ groups[g] \in LotType
      /\ \A h \in Live' : h \in Live
      /\ \A h \in Live : h # g => h \in Live' /\ groups'[h] = groups[h]
      /\ g \in Live' <=> groups[g].remaining - q # 0
      /\ g \in Live' => groups'[g] = [groups[g] EXCEPT !.remaining = groups[g].remaining - q]
  BY SaleLeaves
<1>7. /\ BuysOf(log, g) # {} /\ EntryIn(log, g).price = groups[g].entryPrice
      /\ Sold(log, g) = EntryIn(log, g).qty - groups[g].remaining
  BY DEF ResultsInv, LotsTold
<1>8. q \in Nat \ {0} /\ groups[g].remaining \in Int /\ EntryIn(log, g).qty \in Int
  <2>1. groups[g].remaining \in Int
    BY WorthTyped
  <2>2. EntryIn(log, g).qty \in Int
    BY <1>2, <1>7, FirstBuy, EntryNumbers
  <2>3. QED
    BY <1>6, <2>1, <2>2
<1>9. \A i \in DOMAIN log' : log'[i].id < nextId'
  BY <1>1, <1>2, <1>3 DEF ResultsInv
<1>10. Opened(log')
  <2>1. \A i \in DOMAIN log : BuysOf(log', log[i].id) # {} /\ log[i].qty \in Nat \ {0}
    BY <1>4 DEF ResultsInv, Opened
  <2>2. e.qty \in Nat \ {0} /\ BuysOf(log', e.id) # {}
    BY <1>1, <1>4, <1>7, <1>8
  <2>3. QED
    BY <1>3, <2>1, <2>2 DEF Opened
<1>11. LotsTold'
  <2>1. PICK a, n : a = groups[g].remaining /\ n = EntryIn(log, g).qty
    OBVIOUS
  <2>2. Sold(log', g) = (n - a) + q /\ EntryIn(log', g).qty = n
    BY <1>4, <1>5, <1>7, <2>1
  <2>3. a \in Int /\ n \in Int /\ q \in Int
    BY <1>8, <2>1
  <2>4. ASSUME NEW h \in Live'
        PROVE  /\ BuysOf(log', h) # {}
               /\ EntryIn(log', h).price = groups'[h].entryPrice
               /\ Sold(log', h) = EntryIn(log', h).qty - groups'[h].remaining
    <3>1. CASE h = g
      <4>1. groups'[g].entryPrice = groups[g].entryPrice /\ groups'[g].remaining = a - q
        BY <1>6, <2>1, <3>1 DEF LotType
      <4>2. (n - a) + q = n - (a - q)
        BY <2>3
      <4>3. QED
        BY <1>4, <1>7, <2>2, <3>1, <4>1, <4>2
    <3>2. CASE h # g
      <4>1. h \in Live /\ groups'[h] = groups[h] /\ Sold(log', h) = Sold(log, h)
        BY <1>5, <1>6, <3>2
      <4>2. QED
        BY <1>4, <4>1 DEF ResultsInv, LotsTold
    <3>3. QED
      BY <3>1, <3>2
  <2>5. ASSUME NEW h, BuysOf(log', h) # {}, h \notin Live'
        PROVE  Sold(log', h) = EntryIn(log', h).qty
    <3>1. CASE h = g
      <4>1. a - q = 0
        BY <1>6, <2>1, <2>5, <3>1
      <4>2. (n - a) + q = n
        BY <2>3, <4>1
      <4>3. QED
        BY <2>2, <3>1, <4>2
    <3>2. CASE h # g
      <4>1. h \notin Live /\ Sold(log', h) = Sold(log, h)
        BY <1>5, <1>6, <2>5, <3>2
      <4>2. QED
        BY <1>4, <2>5, <4>1 DEF ResultsInv, LotsTold
    <3>3. QED
      BY <3>1, <3>2
  <2>6. QED
    BY <2>4, <2>5 DEF LotsTold
<1>12. ProfitsTold'
  <2>1. PICK gains, fees, worth, spent :
           /\ gains = Total(Gains(log), DOMAIN log) /\ fees = Total(Fees(log), DOMAIN log)
           /\ worth = Total(Worth, Live) /\ spent = groups[g].entryPrice * q
    OBVIOUS
  <2>2. net \in Int /\ spent \in Int /\ cash \in Int /\ InitialCash \in Int
    <3>1. net \in Int
      BY <1>1, EntryNumbers
    <3>2. groups[g].entryPrice \in Int
      BY WorthTyped
    <3>3. QED
      BY <1>8, <2>1, <3>1, <3>2, CashAssumption DEF AccountInv
  <2>3. /\ gains \in Int /\ fees \in Int
        /\ Total(Gains(log'), DOMAIN log') = gains + Gain(log, e)
        /\ Total(Fees(log'), DOMAIN log') = fees + Fee(e)
    BY <1>1, <1>2, <1>7, <2>1, GainsGrow DEF ResultsInv
  <2>4. Gain(log, e) = net - spent /\ Fee(e) = 0
    BY <1>1, <1>7, <2>1 DEF Gain, Fee
  <2>5. worth \in Int /\ Total(Worth', Live') = worth - spent
    BY <2>1, WorthSold
  <2>6. cash + worth = InitialCash + gains - fees
    BY <2>1 DEF ResultsInv, ProfitsTold
  <2>7. (cash + net) + (worth - spent) = InitialCash + (gains + (net - spent)) - (fees + 0)
    BY ONLY <2>2, <2>3, <2>5, <2>6
  <2>8. QED
    BY <1>1, <2>3, <2>4, <2>5, <2>7 DEF ProfitsTold
<1>13. QED
  BY <1>9, <1>10, <1>11, <1>12 DEF ResultsInv

LEMMA ResultsStep ==
    ASSUME PortfolioInv, PortfolioInv', ResultsInv, [Next]_vars
    PROVE  ResultsInv'
<1>1. AccountInv /\ AccountInv'
  BY DEF PortfolioInv
<1>2. CASE SellOldestGroup
  <2>1. PICK g \in GroupsOf(sale[1].symbol) : \E q, net :
          SellTradeGroup(g, sale[1].price, q, net, sale[1].date, sale[1].date, "fifo")
    BY <1>2 DEF SellOldestGroup
  <2>2. g \in Live
    BY DEF GroupsOf
  <2>3. QED
    BY <1>1, <2>1, <2>2, SaleIsTold
<1>3. ASSUME NEW s \in Symbols, NEW price \in Prices, NEW q \in 1..MaxQty, NEW date \in Dates,
             NEW pyramid \in Pyramiding, BuyShares(s, price, q, date, pyramid)
      PROVE  ResultsInv'
  <2>1. Buy(s, price, q, BuyCost(price, q), date, date)
    BY <1>3 DEF BuyShares
  <2>2. QED
    BY <1>1, <2>1, BuyIsTold
<1>4. ASSUME NEW s \in Symbols, NEW price \in Prices, NEW q \in 1..MaxQty, NEW date \in Dates,
             NEW g \in GroupsOf(s), SellGroup(g, price, q, date)
      PROVE  ResultsInv'
  <2>1. SellTradeGroup(g, price, q, SellProceeds(price, q, date), date, date, "rule") /\ g \in Live
    BY <1>4 DEF SellGroup, GroupsOf
  <2>2. QED
    BY <1>1, <2>1, SaleIsTold
<1>5. ASSUME UNCHANGED <<cash, groups, log>>, nextId' = nextId \/ nextId' = nextId + 1
      PROVE  ResultsInv'
  <2>1. Live' = Live /\ Worth' = Worth
    BY <1>5 DEF Live, Worth
  <2>2. \A i \in DOMAIN log : log[i].id < nextId'
    <3>1. \A i \in DOMAIN log : log[i].id < nextId /\ log[i].id \in Int
      BY <1>1, Entered DEF ResultsInv, EntryType, AccountInv
    <3>2. nextId \in Nat
      BY <1>1 DEF AccountInv
    <3>3. QED
      BY <1>5, <3>1, <3>2
  <2>3. LotsTold' /\ ProfitsTold'
    BY <1>5, <2>1 DEF ResultsInv, LotsTold, ProfitsTold
  <2>4. QED
    BY <1>5, <2>2, <2>3 DEF ResultsInv
<1>6. ASSUME NEW s \in Symbols, NEW price \in Prices,
             \/ UpdateMarketPrice(s, price) \/ UpdatePeakPrice(s, price)
             \/ \E q \in 1..MaxQty : BuyHeld(s, price, q)
             \/ \E q \in 1..MaxQty, date \in Dates : SellSymbolFifo(s, price, q, date)
      PROVE  UNCHANGED <<cash, groups, log>> /\ (nextId' = nextId \/ nextId' = nextId + 1)
  BY <1>6 DEF UpdateMarketPrice, UpdatePeakPrice, BuyHeld, BuyHeldRefused, SellSymbolFifo, ledgerVars
<1>7. CASE UNCHANGED vars
  BY <1>5, <1>7 DEF vars, ledgerVars
<1>8. QED
  BY <1>2, <1>3, <1>4, <1>5, <1>6, <1>7 DEF Next

LEMMA ResultsInit == Init => ResultsInv
<1> SUFFICES ASSUME Init PROVE ResultsInv
  OBVIOUS
<1>1. /\ cash = InitialCash /\ Live = {} /\ DOMAIN log = {}
  BY DEF Init, LedgerInit, Live
<1>2. \A g : BuysOf(log, g) = {}
  BY <1>1 DEF BuysOf
<1>3. LotsTold
  BY <1>1, <1>2 DEF LotsTold
<1>4. ProfitsTold
  <2>1. InitialCash + 0 = InitialCash + 0 - 0
    BY CashAssumption
  <2>2. QED
    BY <1>1, <2>1, TotalOfNone DEF ProfitsTold
<1>5. QED
  BY <1>1, <1>3, <1>4 DEF ResultsInv, Opened

\* The log tells of every lot what it holds, and of all sales what they earned.
THEOREM ResultsInvHolds == Spec => [](PortfolioInv /\ ResultsInv)
<1>1. Init => PortfolioInv /\ ResultsInv
  BY PortfolioInit, ResultsInit
<1>2. PortfolioInv /\ ResultsInv /\ [Next]_vars => (PortfolioInv /\ ResultsInv)'
  BY PortfolioStep, ResultsStep
<1>3. QED
  BY <1>1, <1>2, PTL DEF Spec, Safety

\* The operators of Results.tla in these terms.
LEMMA ResultsRead ==
    ASSUME AccountInv, ResultsInv
    PROVE  /\ TradeIds = {g \in {log[i].id : i \in DOMAIN log} : BuysOf(log, g) # {}}
           /\ \A g : /\ Sales(g) = SalesOf(log, g) /\ EntryOf(g) = EntryIn(log, g)
                     /\ SoldQty(g) = Sold(log, g)
                     /\ Profit(g) \in Int
           /\ IsFiniteSet(TradeIds)
<1>1. /\ log \in Seq(EntryType) /\ IsFiniteSet(DOMAIN log)
      /\ \A i \in DOMAIN log : log[i] \in EntryType
  BY Entered DEF AccountInv
<1>2. TradeIds = {g \in {log[i].id : i \in DOMAIN log} : BuysOf(log, g) # {}}
  BY DEF TradeIds, BuysOf
<1>3. ASSUME NEW g
      PROVE  Sales(g) = SalesOf(log, g) /\ EntryOf(g) = EntryIn(log, g)
  <2>1. Sales(g) = SalesOf(log, g)
    BY DEF Sales, Entries, SalesOf
  <2>2. Entries(g) \ Sales(g) = BuysOf(log, g)
    BY DEF Sales, Entries, BuysOf
  <2>3. QED
    BY <2>1, <2>2 DEF EntryOf, EntryIn
<1>4. ASSUME NEW g
      PROVE  SalesOf(log, g) \subseteq DOMAIN log /\ IsFiniteSet(SalesOf(log, g))
  <2>1. SalesOf(log, g) \subseteq DOMAIN log
    BY DEF SalesOf
  <2>2. QED
    BY <1>1, <2>1, FS_Subset
<1>5. ASSUME NEW g PROVE SoldQty(g) = Sold(log, g)
  <2> DEFINE e == [i \in Sales(g) |-> log[i].qty]
             f == [i \in DOMAIN log |-> log[i].qty]
  <2>1. DOMAIN e = SalesOf(log, g) /\ \A i \in SalesOf(log, g) : e[i] = f[i]
    BY <1>3, <1>4
  <2> HIDE DEF e, f
  <2>2. SumFunction(e) = Total(f, SalesOf(log, g))
    BY <1>4, <2>1, SumOfSome
  <2>3. QED
    BY <2>2 DEF e, f, SoldQty, Sold
<1>6. ASSUME NEW i \in DOMAIN log, ~Bought(log[i])
      PROVE  Realized(log[i]) = Gains(log)[i] /\ Gains(log)[i] \in Int
  <2>1. BuysOf(log, log[i].id) # {} /\ log[i] \in EntryType
    BY <1>1 DEF ResultsInv, Opened
  <2>2. EntryIn(log, log[i].id) \in EntryType
    BY <1>1, <2>1, FirstBuy
  <2>3. /\ EntryIn(log, log[i].id).price \in Int
        /\ log[i].net \in Int /\ log[i].qty \in Int
    BY <2>1, <2>2, EntryNumbers
  <2>4. Realized(log[i]) = Gain(log, log[i])
    BY <1>3, <1>6 DEF Realized, Gain
  <2>5. Gain(log, log[i]) \in Int
    BY <1>6, <2>3 DEF Gain
  <2>6. QED
    BY <2>4, <2>5 DEF Gains
<1>7. ASSUME NEW g PROVE Profit(g) \in Int
  <2> DEFINE e == [i \in Sales(g) |-> Realized(log[i])]
             f == Gains(log)
  <2>1. /\ DOMAIN e = SalesOf(log, g)
        /\ \A i \in SalesOf(log, g) : e[i] = f[i] /\ f[i] \in Int
    BY <1>3, <1>6 DEF SalesOf
  <2> HIDE DEF e, f
  <2>2. SumFunction(e) = Total(f, SalesOf(log, g)) /\ Total(f, SalesOf(log, g)) \in Int
    BY <1>4, <2>1, SumOfSome, TotalTyped
  <2>3. QED
    BY <2>2 DEF e, Profit
<1>8. IsFiniteSet(TradeIds)
  <2> DEFINE S == {j \in DOMAIN log : Bought(log[j])}
             f == [i \in S |-> log[i].id]
  <2>1. IsFiniteSet(S)
    <3>1. S \subseteq DOMAIN log
      OBVIOUS
    <3> HIDE DEF S
    <3>2. QED
      BY <1>1, <3>1, FS_Subset
  <2>2. f \in Surjection(S, TradeIds)
    BY DEF Surjection, TradeIds
  <2> HIDE DEF S, f
  <2>3. QED
    BY <2>1, <2>2, FS_Surjection
<1>9. QED
  BY <1>2, <1>3, <1>5, <1>7, <1>8

\* What is stored and what is told of a run is what happened to the account: the
\* rows have the shares of the lots, the metrics count the same trades and profits,
\* and profits and fees are what became of the cash.
THEOREM ResultsAreOfTheAccount == Spec => []ResultsMatchAccount
<1>1. ASSUME PortfolioInv, ResultsInv PROVE ResultsMatchAccount
  <2> DEFINE row   == [g \in TradeIds |-> GroupRow(g)]
             ended == {g \in TradeIds : row[g].fully_closed_at # << >>}
             open  == [g \in Live |-> groups[g].entryPrice * groups[g].remaining]
             fees  == [i \in DOMAIN log |-> IF Bought(log[i]) THEN log[i].net - log[i].price * log[i].qty ELSE 0]
             gains == [i \in DOMAIN log |-> IF Bought(log[i]) THEN 0 ELSE Realized(log[i])]
             final == [g \in ended |-> row[g].final_profit[1]]
  <2>1. AccountInv
    BY <1>1 DEF PortfolioInv
  <2>2. /\ TradeIds = {g \in {log[i].id : i \in DOMAIN log} : BuysOf(log, g) # {}}
        /\ \A g : /\ Sales(g) = SalesOf(log, g) /\ EntryOf(g) = EntryIn(log, g)
                  /\ SoldQty(g) = Sold(log, g)
                  /\ Profit(g) \in Int
        /\ IsFiniteSet(TradeIds)
    BY <1>1, <2>1, ResultsRead
  <2>3. log \in Seq(EntryType) /\ Opened(log)
    BY <1>1, <2>1 DEF AccountInv, ResultsInv
  <2>4. \A g : BuysOf(log, g) # {} => g \in TradeIds
    BY <2>2 DEF BuysOf
  <2>5. ASSUME NEW g \in TradeIds
        PROVE  EntryOf(g).qty \in Nat \ {0}
    BY <2>2, <2>3, FirstBuy
  <2>6. ASSUME NEW g \in Live
        PROVE  /\ g \in TradeIds /\ ~FullyClosed(g) /\ g \notin Closed
               /\ EntryOf(g).qty - SoldQty(g) = groups[g].remaining
    <3>1. /\ g \in TradeIds /\ SoldQty(g) = EntryOf(g).qty - groups[g].remaining
      BY <1>1, <2>2, <2>4 DEF ResultsInv, LotsTold
    <3>2. groups[g].remaining \in Nat \ {0}
      BY <2>1 DEF AccountInv, LotType
    <3>3. EntryOf(g).qty \in Nat
      BY <2>5, <3>1
    <3>4. PICK n, a : n = EntryOf(g).qty /\ a = groups[g].remaining
      OBVIOUS
    <3>5. n - (n - a) = a /\ ~(n - a >= n)
      BY <3>2, <3>3, <3>4
    <3>6. QED
      BY <3>1, <3>4, <3>5 DEF FullyClosed, Closed
  <2>7. ASSUME NEW g \in TradeIds, g \notin Live
        PROVE  FullyClosed(g) /\ g \in Closed /\ Sales(g) # {}
    <3>1. SoldQty(g) = EntryOf(g).qty /\ EntryOf(g).qty \in Nat \ {0}
      BY <1>1, <2>2, <2>5, <2>7 DEF ResultsInv, LotsTold
    <3>2. Sales(g) # {}
      <4>1. SoldQty(g) # 0
        BY <3>1
      <4>2. QED
        BY <2>2, <4>1, TotalOfNone DEF Sold
    <3>3. SoldQty(g) >= EntryOf(g).qty
      BY <3>1
    <3>4. QED
      BY <2>7, <3>2, <3>3 DEF FullyClosed, Closed
  <2>8. ended = Closed /\ Live = TradeIds \ Closed
    <3>1. \A g \in TradeIds : row[g].fully_closed_at # << >> <=> (FullyClosed(g) /\ Sales(g) # {})
      BY DEF GroupRow
    <3>2. Closed \subseteq TradeIds
      BY DEF Closed
    <3>3. QED
      BY <2>6, <2>7, <3>1, <3>2
  <2>9. \A g \in Live : row[g].remaining_quantity = groups[g].remaining
    BY <2>6 DEF GroupRow
  <2>10. SumFunction(final) = Won + Lost
    <3> DEFINE f      == [g \in TradeIds |-> Profit(g)]
               Up     == {g \in Closed : Profit(g) > 0}
               Down   == {g \in Closed : Profit(g) < 0}
    <3>1. Closed \subseteq TradeIds /\ Up \subseteq TradeIds /\ Down \subseteq TradeIds
      BY DEF Closed
    <3>2. IsFiniteSet(Closed) /\ IsFiniteSet(Up) /\ IsFiniteSet(Down)
      <4> HIDE DEF Up, Down
      <4>1. QED
        BY <2>2, <3>1, FS_Subset
    <3>3. \A g \in TradeIds : f[g] = Profit(g) /\ f[g] \in Int
      BY <2>2
    <3>4. DOMAIN final = Closed /\ \A g \in Closed : final[g] = f[g]
      <4>1. DOMAIN final = Closed
        BY <2>8
      <4>2. ASSUME NEW g \in Closed PROVE final[g] = f[g]
        <5>1. g \in TradeIds /\ FullyClosed(g) /\ g \in ended
          BY <2>8, <4>2 DEF Closed, FullyClosed
        <5>2. GroupRow(g).final_profit = <<Profit(g)>>
          BY <5>1 DEF GroupRow
        <5>3. QED
          BY <5>1, <5>2
      <4>3. QED
        BY <4>1, <4>2
    <3>5. ASSUME NEW T, T \subseteq TradeIds, IsFiniteSet(T)
          PROVE  ProfitOf(T) = Total(f, T)
      <4> DEFINE e == [g \in T |-> Profit(g)]
      <4>1. DOMAIN e = T /\ \A g \in T : e[g] = f[g]
        BY <3>3, <3>5
      <4> HIDE DEF e, f
      <4>2. SumFunction(e) = Total(f, T)
        BY <3>5, <4>1, SumOfSome
      <4>3. QED
        BY <4>2 DEF e, ProfitOf
    <3>6. Won = Total(f, Up) /\ Lost = Total(f, Down)
      BY <3>1, <3>2, <3>5 DEF Won, Lost
    <3>7. /\ Up = {g \in Closed : f[g] > 0} /\ Down = {g \in Closed : f[g] < 0}
          /\ \A g \in Closed : f[g] \in Int
      BY <3>1, <3>3
    <3> HIDE DEF f, final, Up, Down
    <3>8. SumFunction(final) = Total(f, Closed)
      BY <3>2, <3>4, SumOfSome
    <3>9. Total(f, Closed) = Total(f, Up) + Total(f, Down)
      BY ONLY <3>2, <3>7, TotalOfSigns
    <3>10. QED
      BY <3>6, <3>8, <3>9
  <2>11. cash + SumFunction(open) = InitialCash + SumFunction(gains) - SumFunction(fees)
    <3>1. open = Worth /\ DOMAIN Worth = Live
      BY DEF Worth
    <3>2. gains = Gains(log) /\ DOMAIN Gains(log) = DOMAIN log
      <4>1. \A i \in DOMAIN log : gains[i] = Gains(log)[i]
        BY <2>2 DEF Gains, Gain, Realized
      <4>2. QED
        BY <4>1 DEF Gains
    <3>3. fees = Fees(log) /\ DOMAIN Fees(log) = DOMAIN log
      BY DEF Fees, Fee
    <3> HIDE DEF open, gains, fees
    <3>4. /\ SumFunction(open) = Total(Worth, Live)
          /\ SumFunction(gains) = Total(Gains(log), DOMAIN log)
          /\ SumFunction(fees) = Total(Fees(log), DOMAIN log)
      BY <3>1, <3>2, <3>3, SumIsTotal
    <3>5. QED
      BY <1>1, <3>4 DEF ResultsInv, ProfitsTold
  <2>12. QED
    BY <2>8, <2>9, <2>10, <2>11 DEF ResultsMatchAccount
<1>2. QED
  BY <1>1, ResultsInvHolds, PTL
=============================================================================
