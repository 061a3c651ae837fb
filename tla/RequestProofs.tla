---------------------------- MODULE RequestProofs ----------------------------
(***************************************************************************)
(* What requests of users leave in the tables of strategies and of         *)
(* watchlists, for any number of requests and rows.                        *)
(***************************************************************************)
EXTENDS StrategyStore, Watchlists, TLAPS, WellFoundedInduction

\* The greatest member of a nonempty set of numbers that has a bound: the
\* distances from the bound have a least one.
LEMMA GreatestNatural ==
    ASSUME NEW n \in Nat, NEW T \in SUBSET (0 .. n), T # {}
    PROVE  Max(T) \in T /\ \A y \in T : y <= Max(T)
<1> DEFINE less == {pair \in Nat \X Nat : pair[1] < pair[2]}
           gaps == {k \in Nat : n - k \in T}
<1>1. IsWellFoundedOn(less, Nat)
  BY NatLessThanWellFounded DEF OpToRel
<1>2. gaps \subseteq Nat /\ gaps # {}
  <2>1. PICK y \in T : TRUE
    OBVIOUS
  <2>2. n - y \in Nat /\ n - (n - y) = y
    BY <2>1
  <2>3. QED
    BY <2>1, <2>2
<1>3. PICK k \in gaps : \A j \in gaps : ~ (<<j, k>> \in less)
  <2> HIDE DEF less, gaps
  <2>1. QED
    BY <1>1, <1>2, WFMin
<1>4. ASSUME NEW y \in T PROVE y <= n - k
  <2>1. n - y \in gaps /\ n - y \in Nat /\ k \in Nat /\ y \in Nat
    <3>1. y \in Nat /\ y <= n /\ n - (n - y) = y
      OBVIOUS
    <3>2. QED
      BY <3>1, <1>3
  <2>2. ~ (n - y < k)
    BY <2>1, <1>3 DEF less
  <2>3. QED
    BY <2>1, <2>2
<1>5. n - k \in T /\ n - k \in Nat
  BY <1>3
<1>6. QED
  BY <1>4, <1>5 DEF Max

-----------------------------------------------------------------------------
\* Watchlists.

\* A new id is the id of no row.
LEMMA FreshIdIsFresh ==
    ASSUME NEW n \in Nat, NEW ids \in SUBSET (1 .. n)
    PROVE  FreshId(ids) \in Nat \ {0} /\ FreshId(ids) \notin ids
<1>1. {0} \cup ids \in SUBSET (0 .. n) /\ {0} \cup ids # {}
  OBVIOUS
<1>2. Max({0} \cup ids) \in {0} \cup ids /\ \A y \in {0} \cup ids : y <= Max({0} \cup ids)
  BY <1>1, GreatestNatural
<1> DEFINE top == Max({0} \cup ids)
<1>3. top \in {0} \cup ids /\ \A y \in ids : y <= top
  BY <1>2
<1> HIDE DEF top
<1>4. top \in Nat
  BY <1>3
<1>5. top + 1 \in Nat \ {0} /\ top + 1 \notin ids
  BY <1>3, <1>4
<1>6. QED
  BY <1>5 DEF FreshId, top

\* Types and soundness together are inductive: the id of a new item is no other's.
WatchInv == WatchTypeOK /\ ItemsAreSound

LEMMA WatchStep == WatchInv /\ [WatchNext]_watchVars => WatchInv'
<1> USE DEF WatchInv
<1> SUFFICES ASSUME WatchInv, WatchNext PROVE WatchInv'
  <2>1. WatchInv /\ UNCHANGED watchVars => WatchInv'
    BY DEF WatchTypeOK, ItemsAreSound, watchVars
  <2>2. QED
    BY <2>1
<1> USE WatchlistAssumption
<1>1. lists \subseteq 1 .. MaxLists /\ DOMAIN items \subseteq 1 .. MaxItems
  BY DEF WatchTypeOK
<1>2. CASE CreateList
  <2>1. FreshId(lists) \in 1 .. MaxLists
    <3>1. FreshId(lists) \in Nat \ {0}
      BY <1>1, FreshIdIsFresh
    <3>2. FreshId(lists) <= MaxLists
      BY <1>2 DEF CreateList
    <3>3. QED
      BY <3>1, <3>2
  <2>2. WatchTypeOK'
    BY <1>2, <2>1 DEF CreateList, WatchTypeOK
  <2>3. ItemsAreSound'
    BY <1>2 DEF CreateList, ItemsAreSound
  <2>4. QED
    BY <2>2, <2>3
<1>3. ASSUME NEW v \in Visits, NEW list \in lists, NEW seen \in VisitType, Looks(v, list, seen)
      PROVE  WatchInv'
  <2>1. visit' \in [Visits -> VisitType \cup {<< >>}]
    BY <1>3 DEF Looks, WatchTypeOK
  <2>2. WatchTypeOK'
    BY <1>3, <2>1 DEF Looks, WatchTypeOK
  <2>3. ItemsAreSound'
    BY <1>3 DEF Looks, ItemsAreSound
  <2>4. QED
    BY <2>2, <2>3
<1>4. ASSUME NEW v \in Visits, NEW list \in lists, NEW symbol \in Watched, AddLooks(v, list, symbol)
      PROVE  WatchInv'
  <2>1. [wants |-> "add", list |-> list, symbol |-> symbol, found |-> {}] \in VisitType
    BY <1>1 DEF VisitType
  <2>2. QED
    BY <1>3, <1>4, <2>1 DEF AddLooks
<1>5. ASSUME NEW list PROVE ItemsOf(list) \in SUBSET Nat
  BY <1>1 DEF ItemsOf
<1>6. ASSUME NEW v \in Visits, NEW list \in lists, NEW symbol \in Watched, RemoveLooks(v, list, symbol)
      PROVE  WatchInv'
  <2>1. [wants |-> "remove", list |-> list, symbol |-> symbol,
         found |-> {i \in ItemsOf(list) : items[i].symbol = symbol}] \in VisitType
    BY <1>1, <1>5 DEF VisitType
  <2>2. QED
    BY <1>3, <1>6, <2>1 DEF RemoveLooks
<1>7. ASSUME NEW v \in Visits, NEW list \in lists, DeleteLooks(v, list)
      PROVE  WatchInv'
  <2>1. [wants |-> "delete", list |-> list, found |-> ItemsOf(list)] \in VisitType
    BY <1>1, <1>5 DEF VisitType
  <2>2. QED
    BY <1>3, <1>7, <2>1 DEF DeleteLooks
\* An answer forgets what was seen and touches nothing else of visit.
<1>8. ASSUME NEW v \in Visits, Answered(v)
      PROVE  visit' \in [Visits -> VisitType \cup {<< >>}]
  BY <1>8 DEF Answered, WatchTypeOK
\* Deleting items keeps the others as they are.
<1>9. ASSUME NEW gone, items' = Without(gone)
      PROVE  /\ DOMAIN items' = DOMAIN items \ gone
             /\ \A i \in DOMAIN items' : items'[i] = items[i]
             /\ items' \in [DOMAIN items' -> [list : Nat, symbol : Watched]]
  BY <1>9 DEF Without, WatchTypeOK
<1>10. ASSUME NEW v \in Visits, AddWrites(v) PROVE WatchInv'
  <2> DEFINE list   == visit[v].list
             symbol == visit[v].symbol
             id     == FreshId(DOMAIN items)
             row    == [list |-> list, symbol |-> symbol]
  <2>1. visit[v] \in VisitType \cup {<< >>} /\ visit[v] # << >> /\ visit[v].wants = "add"
    BY <1>10 DEF AddWrites, Seen, WatchTypeOK
  <2>2. row \in [list : Nat, symbol : Watched]
    BY <2>1 DEF VisitType
  <2>3. id \in Nat \ {0} /\ id \notin DOMAIN items
    BY <1>1, FreshIdIsFresh
  <2> HIDE DEF id, list, symbol
  <2>4. CASE items' = items
    BY <1>8, <1>10, <2>4 DEF AddWrites, WatchTypeOK, ItemsAreSound
  <2>5. CASE /\ ~Conflicts(list, symbol)
             /\ id <= MaxItems
             /\ items' = [i \in DOMAIN items \cup {id} |-> IF i = id THEN row ELSE items[i]]
    <3>1. DOMAIN items' = DOMAIN items \cup {id}
      BY <2>5
    <3>2. items'[id] = row /\ \A i \in DOMAIN items : items'[i] = items[i]
      BY <2>3, <2>5
    <3>3. items' \in [DOMAIN items' -> [list : Nat, symbol : Watched]]
      BY <2>2, <2>5 DEF WatchTypeOK
    <3>4. WatchTypeOK'
      BY <1>1, <1>8, <1>10, <2>3, <2>5, <3>1, <3>3 DEF AddWrites, WatchTypeOK
    <3>5. list \in lists /\ \A i \in DOMAIN items : items[i] # row
      BY <2>5 DEF Conflicts, ItemsOf
    <3>6. \A i \in DOMAIN items' : items'[i].list \in lists
      BY <3>1, <3>2, <3>5 DEF ItemsAreSound
    <3>7. \A i, j \in DOMAIN items' : items'[i] = items'[j] => i = j
      BY <3>1, <3>2, <3>5 DEF ItemsAreSound
    <3>8. QED
      BY <1>10, <3>4, <3>6, <3>7 DEF AddWrites, ItemsAreSound
  <2>6. QED
    BY <1>10, <2>4, <2>5 DEF AddWrites, list, symbol, id
<1>11. ASSUME NEW v \in Visits, RemoveWrites(v) PROVE WatchInv'
  <2>1. items' = Without(visit[v].found) /\ UNCHANGED lists /\ Answered(v)
    BY <1>11 DEF RemoveWrites
  <2>2. WatchTypeOK'
    BY <1>8, <1>9, <2>1 DEF WatchTypeOK
  <2>3. DOMAIN items' \subseteq DOMAIN items /\ \A i \in DOMAIN items' : items'[i] = items[i]
    BY <1>9, <2>1
  <2>4. ItemsAreSound'
    BY <2>1, <2>3 DEF ItemsAreSound
  <2>5. QED
    BY <2>2, <2>4
<1>12. ASSUME NEW v \in Visits, DeleteWrites(v) PROVE WatchInv'
  <2> DEFINE gone == visit[v].found \cup Cascaded(visit[v].list)
  <2>1. items' = Without(gone) /\ lists' = lists \ {visit[v].list} /\ Answered(v)
    BY <1>12 DEF DeleteWrites
  <2>2. \A i \in DOMAIN items \ gone : items[i].list # visit[v].list
    BY DEF Cascaded, ItemsOf
  <2> HIDE DEF gone
  <2>3. DOMAIN items' = DOMAIN items \ gone /\ \A i \in DOMAIN items' : items'[i] = items[i]
    BY <1>9, <2>1
  <2>4. WatchTypeOK'
    BY <1>8, <1>9, <2>1 DEF WatchTypeOK
  <2>5. ItemsAreSound'
    BY <2>1, <2>2, <2>3 DEF ItemsAreSound
  <2>6. QED
    BY <2>4, <2>5
<1>13. ASSUME NEW v \in Visits, VisitLost(v) PROVE WatchInv'
  BY <1>8, <1>13 DEF VisitLost, WatchTypeOK, ItemsAreSound
<1>14. QED
  BY <1>2, <1>4, <1>6, <1>7, <1>10, <1>11, <1>12, <1>13 DEF WatchNext

\* Whatever requests overlap, get lost or answer late, a list has a symbol once
\* and no item survives its list, for any numbers of symbols and requests.
THEOREM WatchlistsStaySound == WatchSpec => []ItemsAreSound
<1>1. WatchInit => WatchInv
  BY WatchlistAssumption DEF WatchInit, WatchInv, WatchTypeOK, ItemsAreSound
<1>2. QED
  BY <1>1, WatchStep, PTL DEF WatchSpec, WatchInv
-----------------------------------------------------------------------------
\* Strategies.

LEMMA GreatestIs ==
    ASSUME NEW n \in Nat, NEW T \in SUBSET (0 .. n), NEW x \in T, \A y \in T : y <= x
    PROVE  Max(T) = x
<1>1. Max(T) \in T /\ \A y \in T : y <= Max(T)
  BY GreatestNatural
<1> DEFINE top == Max(T)
<1>2. top \in T /\ x <= top
  BY <1>1
<1> HIDE DEF top
<1>3. top <= x /\ top \in Nat /\ x \in Nat
  BY <1>2
<1>4. QED
  BY <1>2, <1>3 DEF top

\* A strategy that has versions at all has numbered them without a gap, the last
\* one being its document.
InOrder(id) ==
    /\ VersionsOf(id) # {}
    /\ \E k \in Nat \ {0} : Numbers(id) = 1 .. k
    /\ versions[Max(VersionsOf(id))].doc = strategies[id].doc

\* What a request has read stays true enough until it commits: a number is at most
\* one above the greatest, and the version a run is made of does not change.
RequestsKnow ==
    \A q \in Requests : request[q] # << >> =>
        /\ request[q].step = "numbered" =>
             \E k \in Nat \ {0} : /\ 1 .. k \subseteq Numbers(request[q].strategy)
                                  /\ request[q].number \in 1 .. k + 1
        /\ request[q].step = "snapshot" =>
             /\ request[q].number \in Ids(versions)
             /\ versions[request[q].number].doc = request[q].doc

Histories == \A id \in Ids(strategies) : InOrder(id)

StoreInv == StoreTypeOK /\ Histories /\ RequestsKnow /\ RunsKeepTheirSnapshot

LEMMA VersionsAreNumbered ==
    ASSUME StoreTypeOK
    PROVE  /\ Ids(versions) = 1 .. Len(versions) /\ Len(versions) \in Nat
           /\ \A id : VersionsOf(id) \in SUBSET (1 .. Len(versions))
  BY DEF StoreTypeOK, Ids, VersionsOf

LEMMA RowRead ==
    ASSUME NEW S, NEW rows \in Seq(S), NEW i \in DOMAIN rows
    PROVE  rows[i] \in S
  OBVIOUS

\* One row of a table is written.
LEMMA RowWritten ==
    ASSUME NEW S, NEW rows \in Seq(S), NEW id \in DOMAIN rows, NEW row \in S,
           NEW after, after = [rows EXCEPT ![id] = row]
    PROVE  /\ after \in Seq(S) /\ DOMAIN after = DOMAIN rows
           /\ after[id] = row
           /\ \A x \in DOMAIN rows : x # id => after[x] = rows[x]
<1>1. DOMAIN rows = 1 .. Len(rows) /\ Len(rows) \in Nat /\ \A x \in DOMAIN rows : rows[x] \in S
  OBVIOUS
<1>2. DOMAIN after = DOMAIN rows /\ after[id] = row /\ \A x \in DOMAIN rows : x # id => after[x] = rows[x]
  OBVIOUS
<1>3. \A x \in 1 .. Len(rows) : after[x] \in S
  BY <1>1, <1>2
<1>4. after = [x \in 1 .. Len(rows) |-> after[x]]
  BY <1>1
<1>5. after \in Seq(S)
  BY <1>1, <1>3, <1>4
<1>6. QED
  BY <1>2, <1>5

LEMMA RowsAreTyped ==
    ASSUME StoreTypeOK
    PROVE  /\ \A v \in Ids(versions) : /\ versions[v].strategy \in Ids(strategies)
                                       /\ versions[v].version \in Nat \ {0}
                                       /\ versions[v].doc \in Documents
           /\ \A id \in Ids(strategies) : strategies[id].doc \in Documents
           /\ \A r \in Ids(runs) : runs[r].madeOf \in Ids(versions)
<1>1. \A v \in Ids(versions) :
        versions[v] \in [strategy : Ids(strategies), version : Nat \ {0}, doc : Documents]
  BY RowRead DEF StoreTypeOK, Ids
<1>2. \A id \in Ids(strategies) : strategies[id] \in [doc : Documents, deleted : BOOLEAN]
  BY RowRead DEF StoreTypeOK, Ids
<1>3. \A r \in Ids(runs) :
        runs[r] \in [strategy : Ids(strategies), snapshot : Documents, madeOf : Ids(versions),
                     status : {"PENDING", "COMPLETED", "FAILED"}]
  BY RowRead DEF StoreTypeOK, Ids
<1>4. QED
  BY <1>1, <1>2, <1>3

\* What a new row of versions changes: the history of its own strategy, by one.
LEMMA AppendedVersion ==
    ASSUME StoreTypeOK, NEW s, NEW number, NEW doc,
           versions' = Append(versions, Version(s, number, doc))
    PROVE  /\ Ids(versions)' = Ids(versions) \cup {Len(versions) + 1}
           /\ \A v \in Ids(versions) : versions'[v] = versions[v]
           /\ \A id : id # s => VersionsOf(id)' = VersionsOf(id) /\ Numbers(id)' = Numbers(id)
           /\ VersionsOf(s)' = VersionsOf(s) \cup {Len(versions) + 1}
           /\ Numbers(s)' = Numbers(s) \cup {number}
           /\ Max(VersionsOf(s)') = Len(versions) + 1
           /\ versions'[Len(versions) + 1].doc = doc
<1> DEFINE new == Len(versions) + 1
<1>1. Ids(versions) = 1 .. Len(versions) /\ Len(versions) \in Nat
  BY VersionsAreNumbered
<1>2. Ids(versions)' = 1 .. new /\ new \in Nat
  BY <1>1 DEF Ids, StoreTypeOK
<1>3. \A v \in Ids(versions) : versions'[v] = versions[v]
  BY <1>1 DEF StoreTypeOK
<1>4. versions'[new] = Version(s, number, doc)
  BY <1>1 DEF StoreTypeOK
<1>5. Ids(versions)' = Ids(versions) \cup {new} /\ new \notin Ids(versions)
  BY <1>1, <1>2
<1> HIDE DEF new
<1>6. versions'[new].strategy = s /\ versions'[new].version = number /\ versions'[new].doc = doc
  <2> DEFINE row == Version(s, number, doc)
  <2>1. row.strategy = s /\ row.version = number /\ row.doc = doc
    BY DEF Version
  <2>2. QED
    BY <1>4, <2>1
<1>7. \A id : id # s => VersionsOf(id)' = VersionsOf(id)
  BY <1>3, <1>5, <1>6 DEF VersionsOf
<1>8. VersionsOf(s)' = VersionsOf(s) \cup {new}
  BY <1>3, <1>5, <1>6 DEF VersionsOf
<1>9. \A id : \A v \in VersionsOf(id) : v \in Ids(versions) /\ versions'[v] = versions[v]
  BY <1>3 DEF VersionsOf
<1>10. ASSUME NEW id, id # s PROVE Numbers(id)' = Numbers(id)
  <2>1. VersionsOf(id)' = VersionsOf(id) /\ \A v \in VersionsOf(id) : versions'[v] = versions[v]
    BY <1>7, <1>9, <1>10
  <2>2. QED
    BY <2>1 DEF Numbers
<1>11. Numbers(s)' = Numbers(s) \cup {number}
  <2>1. PICK old, rows : old = VersionsOf(s) /\ rows = versions'
    OBVIOUS
  <2>2. Numbers(s)' = {rows[v].version : v \in old \cup {new}}
    BY <1>8, <2>1 DEF Numbers
  <2>3. Numbers(s) = {rows[v].version : v \in old}
    BY <1>9, <2>1 DEF Numbers
  <2>4. rows[new].version = number
    BY <1>6, <2>1
  <2>5. QED
    BY ONLY <2>2, <2>3, <2>4
<1>12. Max(VersionsOf(s)') = new
  <2>1. VersionsOf(s) \in SUBSET (1 .. Len(versions))
    BY VersionsAreNumbered
  <2>2. VersionsOf(s) \cup {new} \in SUBSET (0 .. new) /\ \A y \in VersionsOf(s) \cup {new} : y <= new
    BY <1>1, <1>2, <2>1 DEF new
  <2>3. QED
    BY <1>2, <1>8, <2>2, GreatestIs
<1>13. QED
  BY <1>3, <1>5, <1>6, <1>7, <1>8, <1>10, <1>11, <1>12 DEF new

\* Rows of versions are only added, and what was read of them stays true.
OnlyAppended ==
    /\ \A v \in Ids(versions) : v \in Ids(versions)' /\ versions'[v] = versions[v]
    /\ \A id : Numbers(id) \subseteq Numbers(id)'

LEMMA SnapshotsLast ==
    ASSUME StoreTypeOK, RunsKeepTheirSnapshot, OnlyAppended, UNCHANGED runs
    PROVE  RunsKeepTheirSnapshot'
<1>1. \A r \in Ids(runs) : runs[r].madeOf \in Ids(versions)
  BY RowsAreTyped
<1>2. \A r \in Ids(runs) : versions'[runs[r].madeOf] = versions[runs[r].madeOf]
  BY <1>1 DEF OnlyAppended
<1>3. Ids(runs)' = Ids(runs)
  BY DEF Ids
<1>4. QED
  BY <1>2, <1>3 DEF RunsKeepTheirSnapshot

LEMMA KnowledgeLasts ==
    ASSUME RequestsKnow, OnlyAppended, \A q \in Requests : request'[q] \in {request[q], << >>}
    PROVE  RequestsKnow'
<1> SUFFICES ASSUME NEW q \in Requests, request'[q] = request[q], request[q] # << >>
             PROVE  /\ request[q].step = "numbered" =>
                         \E k \in Nat \ {0} : /\ 1 .. k \subseteq Numbers(request[q].strategy)'
                                              /\ request[q].number \in 1 .. k + 1
                    /\ request[q].step = "snapshot" =>
                         /\ request[q].number \in Ids(versions)'
                         /\ versions'[request[q].number].doc = request[q].doc
  BY DEF RequestsKnow
<1> DEFINE known == request[q]
<1>1. CASE known.step = "numbered"
  <2>1. PICK k \in Nat \ {0} : 1 .. k \subseteq Numbers(known.strategy) /\ known.number \in 1 .. k + 1
    BY <1>1 DEF RequestsKnow
  <2>2. Numbers(known.strategy) \subseteq Numbers(known.strategy)'
    BY DEF OnlyAppended
  <2>3. QED
    BY <1>1, <2>1, <2>2
<1>2. CASE known.step = "snapshot"
  BY <1>2 DEF RequestsKnow, OnlyAppended
<1>3. QED
  BY <1>1, <1>2

LEMMA OtherHistories ==
    ASSUME StoreTypeOK, NEW id, InOrder(id),
           VersionsOf(id)' = VersionsOf(id), Numbers(id)' = Numbers(id),
           \A v \in Ids(versions) : versions'[v] = versions[v],
           strategies'[id].doc = strategies[id].doc
    PROVE  InOrder(id)'
<1>1. VersionsOf(id) \in SUBSET (0 .. Len(versions)) /\ Len(versions) \in Nat
  BY VersionsAreNumbered
<1>2. VersionsOf(id) # {}
  BY DEF InOrder
<1> DEFINE last == Max(VersionsOf(id))
<1>3. last \in VersionsOf(id)
  BY <1>1, <1>2, GreatestNatural
<1> HIDE DEF last
<1>4. versions'[last] = versions[last]
  BY <1>3 DEF VersionsOf
<1>5. Max(VersionsOf(id)') = last /\ Max(VersionsOf(id)) = last
  BY DEF last
<1>6. QED
  BY <1>4, <1>5 DEF InOrder

\* A step that leaves versions and the documents alone leaves the histories alone.
LEMMA NothingAppended ==
    ASSUME StoreTypeOK, UNCHANGED versions
    PROVE  OnlyAppended /\ \A id : VersionsOf(id)' = VersionsOf(id) /\ Numbers(id)' = Numbers(id)
  BY DEF OnlyAppended, VersionsOf, Numbers, Ids

LEMMA HistoriesLast ==
    ASSUME StoreTypeOK, Histories, UNCHANGED versions, Ids(strategies)' = Ids(strategies),
           \A id \in Ids(strategies) : strategies'[id].doc = strategies[id].doc
    PROVE  Histories'
  BY NothingAppended, OtherHistories DEF Histories

LEMMA InsertKeeps ==
    ASSUME StoreInv, NEW doc \in Documents, Insert(doc), UNCHANGED <<runs, request>>
    PROVE  StoreInv'
<1> DEFINE new == Len(versions) + 1
<1>0. PICK s : s = Len(strategies) + 1
  OBVIOUS
<1>1. StoreTypeOK /\ Histories /\ RequestsKnow /\ RunsKeepTheirSnapshot
  BY DEF StoreInv
<1>2. /\ strategies \in Seq([doc : Documents, deleted : BOOLEAN])
      /\ strategies' = Append(strategies, [doc |-> doc, deleted |-> FALSE])
  BY <1>1 DEF StoreTypeOK, Insert
<1>3. /\ Ids(strategies)' = Ids(strategies) \cup {s} /\ s \notin Ids(strategies)
      /\ Len(strategies') = s
      /\ strategies' \in Seq([doc : Documents, deleted : BOOLEAN])
      /\ \A id \in Ids(strategies) : strategies'[id] = strategies[id]
      /\ strategies'[s] = [doc |-> doc, deleted |-> FALSE]
  BY <1>0, <1>2 DEF Ids
<1>4. versions' = Append(versions, Version(s, 1, doc))
  BY <1>3 DEF Insert
<1>5. /\ Ids(versions)' = Ids(versions) \cup {new}
      /\ \A v \in Ids(versions) : versions'[v] = versions[v]
      /\ \A id : id # s => VersionsOf(id)' = VersionsOf(id) /\ Numbers(id)' = Numbers(id)
      /\ VersionsOf(s)' = VersionsOf(s) \cup {new}
      /\ Numbers(s)' = Numbers(s) \cup {1}
      /\ Max(VersionsOf(s)') = new
      /\ versions'[new].doc = doc
  BY <1>1, <1>4, AppendedVersion
<1>6. OnlyAppended
  <2>1. ASSUME NEW id PROVE Numbers(id) \subseteq Numbers(id)'
    <3>1. CASE id = s
      BY <1>5, <3>1
    <3>2. CASE id # s
      BY <1>5, <3>2
    <3>3. QED
      BY <3>1, <3>2
  <2>2. QED
    BY <1>5, <2>1 DEF OnlyAppended
<1>7. StoreTypeOK'
  <2>1. Version(s, 1, doc) \in [strategy : Ids(strategies)', version : Nat \ {0}, doc : Documents]
    BY <1>3 DEF Version
  <2>0. ASSUME NEW A, NEW B, A \subseteq B PROVE Seq(A) \subseteq Seq(B)
    BY <2>0
  <2>2. versions \in Seq([strategy : Ids(strategies)', version : Nat \ {0}, doc : Documents])
    <3>1. [strategy : Ids(strategies), version : Nat \ {0}, doc : Documents]
            \subseteq [strategy : Ids(strategies)', version : Nat \ {0}, doc : Documents]
      BY <1>3
    <3>2. QED
      BY <1>1, <2>0, <3>1 DEF StoreTypeOK
  <2>3. versions' \in Seq([strategy : Ids(strategies)', version : Nat \ {0}, doc : Documents])
    BY <1>4, <2>1, <2>2
  <2>4. runs' \in Seq([strategy : Ids(strategies)', snapshot : Documents, madeOf : Ids(versions)',
                       status : {"PENDING", "COMPLETED", "FAILED"}])
    <3>1. [strategy : Ids(strategies), snapshot : Documents, madeOf : Ids(versions),
           status : {"PENDING", "COMPLETED", "FAILED"}]
            \subseteq [strategy : Ids(strategies)', snapshot : Documents, madeOf : Ids(versions)',
                      status : {"PENDING", "COMPLETED", "FAILED"}]
      BY <1>3, <1>5
    <3>2. runs \in Seq([strategy : Ids(strategies)', snapshot : Documents, madeOf : Ids(versions)',
                       status : {"PENDING", "COMPLETED", "FAILED"}])
      BY <1>1, <2>0, <3>1 DEF StoreTypeOK
    <3>3. QED
      BY <3>2
  <2>5. request' \in [Requests -> RequestType' \cup {<< >>}]
    BY <1>1, <1>3 DEF StoreTypeOK, RequestType
  <2>6. QED
    BY <1>3, <2>3, <2>4, <2>5 DEF StoreTypeOK
<1>8. Histories'
  <2>1. VersionsOf(s) = {} /\ Numbers(s) = {}
    <3>1. \A v \in Ids(versions) : versions[v].strategy # s
      BY <1>1, <1>3, RowsAreTyped
    <3>2. QED
      BY <3>1 DEF VersionsOf, Numbers
  <2>2. Numbers(s)' = 1 .. 1
    BY <1>5, <2>1
  <2>3. InOrder(s)'
    BY <1>3, <1>5, <2>2 DEF InOrder
  <2>4. ASSUME NEW id \in Ids(strategies) PROVE InOrder(id)'
    <3>1. id # s /\ InOrder(id) /\ strategies'[id].doc = strategies[id].doc
      BY <1>1, <1>3 DEF Histories
    <3>2. QED
      BY <1>1, <1>5, <3>1, OtherHistories
  <2>5. QED
    BY <1>3, <2>3, <2>4 DEF Histories
<1>9. QED
  BY <1>1, <1>6, <1>7, <1>8, SnapshotsLast, KnowledgeLasts DEF StoreInv

\* A request that goes on only changes what it has in hand.
LEMMA RequestGoesOn ==
    ASSUME StoreInv, UNCHANGED <<strategies, versions, runs>>,
           NEW q \in Requests, NEW held \in RequestType \cup {<< >>},
           request' = [request EXCEPT ![q] = held],
           held # << >> =>
             /\ held.step = "numbered" =>
                  \E k \in Nat \ {0} : 1 .. k \subseteq Numbers(held.strategy) /\ held.number \in 1 .. k + 1
             /\ held.step = "snapshot" =>
                  held.number \in Ids(versions) /\ versions[held.number].doc = held.doc
    PROVE  StoreInv'
<1>1. StoreTypeOK /\ Histories /\ RequestsKnow /\ RunsKeepTheirSnapshot
  BY DEF StoreInv
<1>2. OnlyAppended /\ \A id : VersionsOf(id)' = VersionsOf(id) /\ Numbers(id)' = Numbers(id)
  BY <1>1, NothingAppended
<1>3. Histories' /\ RunsKeepTheirSnapshot'
  BY <1>1, <1>2, HistoriesLast, SnapshotsLast DEF Ids
<1>4. request \in [Requests -> RequestType \cup {<< >>}]
  BY <1>1 DEF StoreTypeOK
<1>5. StoreTypeOK'
  <2>1. RequestType' = RequestType
    BY DEF RequestType, Ids
  <2>2. request' \in [Requests -> RequestType' \cup {<< >>}]
    BY <1>4, <2>1
  <2>3. QED
    BY <1>1, <2>2 DEF StoreTypeOK, Ids
<1>6. RequestsKnow'
  <2>1. Ids(versions)' = Ids(versions)
    BY DEF Ids
  <2>2. ASSUME NEW p \in Requests, p # q PROVE request'[p] = request[p]
    BY <1>4, <2>2
  <2>3. request'[q] = held
    BY <1>4
  <2>4. ASSUME NEW p \in Requests, request'[p] # << >>
        PROVE  /\ request'[p].step = "numbered" =>
                    \E k \in Nat \ {0} : /\ 1 .. k \subseteq Numbers(request[p].strategy)'
                                         /\ request'[p].number \in 1 .. k + 1
               /\ request'[p].step = "snapshot" =>
                    /\ request'[p].number \in Ids(versions)'
                    /\ versions'[request'[p].number].doc = request'[p].doc
    <3>1. CASE p = q
      BY <1>2, <2>1, <2>3, <2>4, <3>1 DEF Numbers, VersionsOf
    <3>2. CASE p # q
      BY <1>1, <1>2, <2>1, <2>2, <2>4, <3>2 DEF RequestsKnow, Numbers, VersionsOf
    <3>3. QED
      BY <3>1, <3>2
  <2>5. QED
    BY <2>4 DEF RequestsKnow
<1>7. QED
  BY <1>3, <1>5, <1>6 DEF StoreInv

LEMMA CommitKeeps ==
    ASSUME StoreInv, NEW q \in Requests, UpdateCommits(q)
    PROVE  StoreInv'
<1>1. StoreTypeOK /\ Histories /\ RequestsKnow /\ RunsKeepTheirSnapshot
  BY DEF StoreInv
<1>2. PICK req : req = request[q]
  OBVIOUS
<1>3. /\ req \in RequestType /\ req.step = "numbered"
      /\ request' = [request EXCEPT ![q] = << >>]
      /\ request \in [Requests -> RequestType \cup {<< >>}]
  BY <1>1, <1>2 DEF StoreTypeOK, UpdateCommits, Pending
<1>4. PICK s, number, doc : s = req.strategy /\ number = req.number /\ doc = req.doc
  OBVIOUS
<1>5. s \in Ids(strategies) /\ doc \in Documents /\ number \in Nat
  BY <1>3, <1>4 DEF RequestType
<1>6. PICK k \in Nat \ {0} : 1 .. k \subseteq Numbers(s) /\ number \in 1 .. k + 1
  BY <1>1, <1>2, <1>3, <1>4 DEF RequestsKnow, RequestType
<1>7. /\ strategies' = [strategies EXCEPT ![s].doc = doc]
      /\ versions' = Append(versions, Version(s, number, doc))
      /\ runs' = runs
  BY <1>2, <1>4 DEF UpdateCommits
<1>8. /\ strategies' \in Seq([doc : Documents, deleted : BOOLEAN])
      /\ Ids(strategies)' = Ids(strategies)
      /\ strategies'[s].doc = doc
      /\ \A id \in Ids(strategies) : id # s => strategies'[id] = strategies[id]
  <2>1. strategies \in Seq([doc : Documents, deleted : BOOLEAN])
    BY <1>1 DEF StoreTypeOK
  <2>2. s \in DOMAIN strategies /\ strategies[s] \in [doc : Documents, deleted : BOOLEAN]
    BY <1>5, <2>1, RowRead DEF Ids
  <2>3. PICK row : row = [strategies[s] EXCEPT !.doc = doc]
    OBVIOUS
  <2>4. row \in [doc : Documents, deleted : BOOLEAN] /\ row.doc = doc
    BY <1>5, <2>2, <2>3
  <2>5. strategies' = [strategies EXCEPT ![s] = row]
    BY <1>7, <2>3
  <2>6. QED
    BY <2>1, <2>2, <2>4, <2>5, RowWritten DEF Ids
<1> DEFINE new == Len(versions) + 1
<1>9. /\ Ids(versions)' = Ids(versions) \cup {new}
      /\ \A v \in Ids(versions) : versions'[v] = versions[v]
      /\ \A id : id # s => VersionsOf(id)' = VersionsOf(id) /\ Numbers(id)' = Numbers(id)
      /\ VersionsOf(s)' = VersionsOf(s) \cup {new}
      /\ Numbers(s)' = Numbers(s) \cup {number}
      /\ Max(VersionsOf(s)') = new
      /\ versions'[new].doc = doc
  BY <1>1, <1>7, AppendedVersion
<1>10. OnlyAppended
  <2>1. ASSUME NEW id PROVE Numbers(id) \subseteq Numbers(id)'
    <3>1. CASE id = s
      BY <1>9, <3>1
    <3>2. CASE id # s
      BY <1>9, <3>2
    <3>3. QED
      BY <3>1, <3>2
  <2>2. QED
    BY <1>9, <2>1 DEF OnlyAppended
<1>11. StoreTypeOK'
  <2>1. Version(s, number, doc) \in [strategy : Ids(strategies), version : Nat \ {0}, doc : Documents]
    BY <1>5, <1>6 DEF Version
  <2>2. versions' \in Seq([strategy : Ids(strategies), version : Nat \ {0}, doc : Documents])
    BY <1>1, <1>7, <2>1 DEF StoreTypeOK
  <2>3. ASSUME NEW A, NEW B, A \subseteq B PROVE Seq(A) \subseteq Seq(B)
    BY <2>3
  <2>4. [strategy : Ids(strategies), snapshot : Documents, madeOf : Ids(versions),
         status : {"PENDING", "COMPLETED", "FAILED"}]
          \subseteq [strategy : Ids(strategies), snapshot : Documents, madeOf : Ids(versions)',
                    status : {"PENDING", "COMPLETED", "FAILED"}]
    BY <1>9
  <2>5. runs \in Seq([strategy : Ids(strategies), snapshot : Documents, madeOf : Ids(versions)',
                     status : {"PENDING", "COMPLETED", "FAILED"}])
    <3> DEFINE Now  == [strategy : Ids(strategies), snapshot : Documents, madeOf : Ids(versions),
                        status : {"PENDING", "COMPLETED", "FAILED"}]
               Then == [strategy : Ids(strategies), snapshot : Documents, madeOf : Ids(versions)',
                        status : {"PENDING", "COMPLETED", "FAILED"}]
    <3>1. runs \in Seq(Now) /\ Now \subseteq Then
      BY <1>1, <2>4 DEF StoreTypeOK
    <3> HIDE DEF Now, Then
    <3>2. runs \in Seq(Then)
      BY ONLY <2>3, <3>1
    <3>3. QED
      BY <3>2 DEF Then
  <2>6. request' \in [Requests -> RequestType' \cup {<< >>}]
    BY <1>3, <1>8 DEF RequestType
  <2>7. QED
    BY <1>7, <1>8, <2>2, <2>5, <2>6 DEF StoreTypeOK
<1>12. Histories'
  <2>1. InOrder(s)'
    <3>1. PICK n \in Nat \ {0} : Numbers(s) = 1 .. n
      BY <1>1, <1>5 DEF Histories, InOrder
    <3>2. number \in 1 .. n + 1
      <4>1. k <= n
        BY <1>6, <3>1
      <4>2. QED
        BY <1>6, <4>1
    <3>3. Numbers(s)' = 1 .. n \/ Numbers(s)' = 1 .. n + 1
      BY <1>9, <3>1, <3>2
    <3>4. VersionsOf(s)' # {} /\ versions'[Max(VersionsOf(s)')].doc = strategies'[s].doc
      BY <1>8, <1>9
    <3>5. QED
      BY <3>3, <3>4 DEF InOrder
  <2>2. ASSUME NEW id \in Ids(strategies), id # s PROVE InOrder(id)'
    <3>1. InOrder(id) /\ strategies'[id].doc = strategies[id].doc
      BY <1>1, <1>8, <2>2 DEF Histories
    <3>2. QED
      BY <1>1, <1>9, <2>2, <3>1, OtherHistories
  <2>3. QED
    BY <1>8, <2>1, <2>2 DEF Histories
<1>13. \A p \in Requests : request'[p] \in {request[p], << >>}
  BY <1>3
<1>14. QED
  BY <1>1, <1>7, <1>10, <1>11, <1>12, <1>13, SnapshotsLast, KnowledgeLasts DEF StoreInv

LEMMA StoreStep == StoreInv /\ [StoreNext(Documents)]_storeVars => StoreInv'
<1> SUFFICES ASSUME StoreInv, [StoreNext(Documents)]_storeVars PROVE StoreInv'
  OBVIOUS
<1>1. StoreTypeOK /\ Histories /\ RequestsKnow /\ RunsKeepTheirSnapshot
  BY DEF StoreInv
<1>2. request \in [Requests -> RequestType \cup {<< >>}]
  BY <1>1 DEF StoreTypeOK
<1>3. ASSUME NEW doc \in Documents, CreateStrategy(doc) PROVE StoreInv'
  BY <1>3, InsertKeeps DEF CreateStrategy
<1>4. ASSUME NEW id \in Ids(strategies), DuplicateStrategy(id) PROVE StoreInv'
  <2>1. PICK doc \in Documents : doc = strategies[id].doc
    BY <1>1, RowsAreTyped
  <2>2. QED
    BY <1>4, <2>1, InsertKeeps DEF DuplicateStrategy
<1>5. ASSUME NEW id \in Ids(strategies), SoftDelete(id) PROVE StoreInv'
  <2>1. /\ strategies' = [strategies EXCEPT ![id].deleted = TRUE]
        /\ UNCHANGED <<versions, runs, request>>
    BY <1>5 DEF SoftDelete
  <2>2. strategies \in Seq([doc : Documents, deleted : BOOLEAN])
    BY <1>1 DEF StoreTypeOK
  <2>3. id \in DOMAIN strategies /\ strategies[id] \in [doc : Documents, deleted : BOOLEAN]
    BY <2>2, RowRead DEF Ids
  <2>4. PICK row : row = [strategies[id] EXCEPT !.deleted = TRUE]
    OBVIOUS
  <2>5. row \in [doc : Documents, deleted : BOOLEAN] /\ row.doc = strategies[id].doc
    BY <2>3, <2>4
  <2>6. strategies' = [strategies EXCEPT ![id] = row]
    BY <2>1, <2>4
  <2>7. /\ strategies' \in Seq([doc : Documents, deleted : BOOLEAN])
        /\ Ids(strategies)' = Ids(strategies)
        /\ strategies'[id] = row
        /\ \A x \in Ids(strategies) : x # id => strategies'[x] = strategies[x]
    BY <2>2, <2>3, <2>5, <2>6, RowWritten DEF Ids
  <2>8. \A x \in Ids(strategies) : strategies'[x].doc = strategies[x].doc
    BY <2>5, <2>7
  <2>9. Histories'
    BY <1>1, <2>1, <2>7, <2>8, HistoriesLast
  <2>10. StoreTypeOK'
    <3>1. RequestType' = RequestType /\ Ids(versions)' = Ids(versions)
      BY <2>1, <2>7 DEF RequestType, Ids
    <3>2. request' \in [Requests -> RequestType' \cup {<< >>}]
      BY <1>2, <2>1, <3>1
    <3>3. /\ versions' \in Seq([strategy : Ids(strategies)', version : Nat \ {0}, doc : Documents])
          /\ runs' \in Seq([strategy : Ids(strategies)', snapshot : Documents,
                            madeOf : Ids(versions)', status : {"PENDING", "COMPLETED", "FAILED"}])
      BY <1>1, <2>1, <2>7, <3>1 DEF StoreTypeOK
    <3>4. QED
      BY <2>7, <3>2, <3>3 DEF StoreTypeOK
  <2>11. QED
    BY <1>1, <2>1, <2>9, <2>10, NothingAppended, SnapshotsLast, KnowledgeLasts DEF StoreInv
<1>6. ASSUME NEW q \in Requests, NEW id \in Ids(strategies), NEW doc \in Documents, UpdateReads(q, id, doc)
      PROVE  StoreInv'
  <2>1. PICK held : held = [step |-> "read", strategy |-> id, doc |-> doc,
                            before |-> strategies[id].doc, number |-> 0]
    OBVIOUS
  <2>2. held \in RequestType
    BY <1>1, <2>1, RowsAreTyped DEF RequestType
  <2>3. held.step = "read"
    BY <2>1
  <2>4. request' = [request EXCEPT ![q] = held] /\ UNCHANGED <<strategies, versions, runs>>
    BY <1>6, <2>1 DEF UpdateReads
  <2>5. QED
    BY <2>2, <2>3, <2>4, RequestGoesOn
<1>7. ASSUME NEW q \in Requests, UpdateNumbers(q) PROVE StoreInv'
  <2>1. PICK req : req = request[q]
    OBVIOUS
  <2>2. req \in RequestType
    BY <1>2, <1>7, <2>1 DEF UpdateNumbers, Pending
  <2>3. PICK number : number = NextVersionNumber(req.strategy)
    OBVIOUS
  <2>4. PICK k \in Nat \ {0} : Numbers(req.strategy) = 1 .. k
    BY <1>1, <2>2 DEF RequestType, Histories, InOrder
  <2>5. number = k + 1
    <3>1. /\ {0} \cup 1 .. k \in SUBSET (0 .. k) /\ k \in {0} \cup 1 .. k
          /\ \A y \in {0} \cup 1 .. k : y <= k
      OBVIOUS
    <3>2. Max({0} \cup 1 .. k) = k
      <4> DEFINE T == {0} \cup 1 .. k
      <4>1. k \in Nat /\ T \in SUBSET (0 .. k) /\ k \in T /\ \A y \in T : y <= k
        BY <3>1
      <4> HIDE DEF T
      <4>2. Max(T) = k
        BY ONLY <4>1, GreatestIs
      <4>3. QED
        BY <4>2 DEF T
    <3>3. Max({0} \cup Numbers(req.strategy)) = k
      BY <2>4, <3>2
    <3>4. QED
      BY <2>3, <3>3 DEF NextVersionNumber
  <2>6. PICK held : held = [req EXCEPT !.step = "numbered", !.number = number]
    OBVIOUS
  <2>7. /\ held \in RequestType /\ held.step = "numbered"
        /\ held.strategy = req.strategy /\ held.number = number
    <3>1. /\ held.step = "numbered" /\ held.number = number /\ held.strategy = req.strategy
          /\ held = [step |-> "numbered", strategy |-> req.strategy, doc |-> req.doc,
                     before |-> req.before, number |-> number]
      BY <2>2, <2>6 DEF RequestType
    <3>2. number \in Nat
      BY <2>5
    <3>3. QED
      BY <2>2, <3>1, <3>2 DEF RequestType
  <2>8. request' = [request EXCEPT ![q] = held] /\ UNCHANGED <<strategies, versions, runs>>
    BY <1>2, <1>7, <2>1, <2>3, <2>6 DEF UpdateNumbers
  <2>9. 1 .. k \subseteq Numbers(held.strategy) /\ held.number \in 1 .. k + 1
    BY <2>4, <2>5, <2>7
  <2>10. held.step # "snapshot"
    BY <2>7
  <2>11. QED
    BY <2>7, <2>8, <2>9, <2>10, RequestGoesOn
<1>8. ASSUME NEW q \in Requests, UpdateUnchanged(q) PROVE StoreInv'
  <2>1. strategies' = [strategies EXCEPT ![request[q].strategy].doc =
                                           strategies[request[q].strategy].doc]
    BY <1>8 DEF UpdateUnchanged, WrittenBack, JsonChanged
  <2>2. request[q] \in RequestType
    BY <1>2, <1>8 DEF UpdateUnchanged, Pending
  <2>3. strategies \in Seq([doc : Documents, deleted : BOOLEAN]) /\ request[q].strategy \in DOMAIN strategies
    BY <1>1, <2>2 DEF StoreTypeOK, RequestType, Ids
  <2>4. strategies[request[q].strategy] \in [doc : Documents, deleted : BOOLEAN]
    BY <2>3, RowRead
  <2>5. PICK id, row : id = request[q].strategy /\ row = strategies[id]
    OBVIOUS
  <2>6. [row EXCEPT !.doc = row.doc] = row
    BY <2>4, <2>5
  <2>7. strategies' = [strategies EXCEPT ![id] = row]
    BY <2>1, <2>5, <2>6
  <2>8. [strategies EXCEPT ![id] = strategies[id]] = strategies
    BY <2>3
  <2>9. strategies' = strategies
    BY <2>5, <2>7, <2>8
  <2>10. QED
    BY <1>8, <2>9, RequestGoesOn DEF UpdateUnchanged
<1>9. ASSUME NEW q \in Requests, NEW id \in Ids(strategies), RunReads(q, id) PROVE StoreInv'
  <2>1. PICK held : held = [step |-> "snapshot", strategy |-> id, doc |-> strategies[id].doc,
                            before |-> strategies[id].doc, number |-> Max(VersionsOf(id))]
    OBVIOUS
  <2>2. Max(VersionsOf(id)) \in VersionsOf(id)
    <3>1. VersionsOf(id) \in SUBSET (0 .. Len(versions)) /\ Len(versions) \in Nat
      BY <1>1, VersionsAreNumbered
    <3>2. VersionsOf(id) # {}
      BY <1>1 DEF Histories, InOrder
    <3>3. QED
      BY <3>1, <3>2, GreatestNatural
  <2>3. held.number \in Ids(versions) /\ held.number \in Nat
    BY <1>1, <2>1, <2>2, VersionsAreNumbered DEF VersionsOf
  <2>4. held \in RequestType /\ held.step = "snapshot"
    BY <1>1, <2>1, <2>3, RowsAreTyped DEF RequestType
  <2>5. versions[held.number].doc = held.doc
    BY <1>1, <2>1 DEF Histories, InOrder
  <2>6. request' = [request EXCEPT ![q] = held] /\ UNCHANGED <<strategies, versions, runs>>
    BY <1>9, <2>1 DEF RunReads
  <2>7. held.step # "numbered"
    BY <2>4
  <2>8. QED
    BY <2>3, <2>4, <2>5, <2>6, <2>7, RequestGoesOn
<1>10. ASSUME NEW q \in Requests, RequestLost(q) PROVE StoreInv'
  BY <1>10, RequestGoesOn DEF RequestLost
<1>11. ASSUME UNCHANGED <<strategies, versions>>, RunsKeepTheirSnapshot',
              \A p \in Requests : request'[p] \in {request[p], << >>},
              request' \in [Requests -> RequestType \cup {<< >>}],
              runs' \in Seq([strategy : Ids(strategies), snapshot : Documents, madeOf : Ids(versions),
                             status : {"PENDING", "COMPLETED", "FAILED"}])
       PROVE  StoreInv'
  <2>1. /\ RequestType' = RequestType
        /\ Ids(versions)' = Ids(versions) /\ Ids(strategies)' = Ids(strategies)
    BY <1>11 DEF RequestType, Ids
  <2>2. StoreTypeOK'
    BY <1>1, <1>11, <2>1 DEF StoreTypeOK
  <2>3. Histories' /\ RequestsKnow'
    BY <1>1, <1>11, <2>1, NothingAppended, HistoriesLast, KnowledgeLasts
  <2>4. QED
    BY <1>11, <2>2, <2>3 DEF StoreInv
<1>12. runs \in Seq([strategy : Ids(strategies), snapshot : Documents, madeOf : Ids(versions),
                     status : {"PENDING", "COMPLETED", "FAILED"}])
  BY <1>1 DEF StoreTypeOK
<1>13. ASSUME NEW q \in Requests, RunCommits(q) PROVE StoreInv'
  <2>1. request[q] \in RequestType /\ request[q].step = "snapshot"
    BY <1>2, <1>13 DEF RunCommits, Pending
  <2> DEFINE req == request[q]
             row == [strategy |-> req.strategy, snapshot |-> req.doc,
                     status |-> "PENDING", madeOf |-> req.number]
  <2>2. req.number \in Ids(versions) /\ versions[req.number].doc = req.doc
    BY <1>1, <2>1 DEF RequestsKnow, RequestType
  <2>3. row \in [strategy : Ids(strategies), snapshot : Documents, madeOf : Ids(versions),
                 status : {"PENDING", "COMPLETED", "FAILED"}]
    BY <2>1, <2>2 DEF RequestType
  <2>4. row.snapshot = versions[row.madeOf].doc /\ row.status = "PENDING"
    BY <2>2
  <2>5. /\ runs' = Append(runs, row) /\ UNCHANGED <<strategies, versions>>
        /\ request' = [request EXCEPT ![q] = << >>]
    BY <1>13 DEF RunCommits
  <2> HIDE DEF row
  <2>6. /\ runs' \in Seq([strategy : Ids(strategies), snapshot : Documents, madeOf : Ids(versions),
                          status : {"PENDING", "COMPLETED", "FAILED"}])
        /\ \A r \in Ids(runs)' : (r \in Ids(runs) /\ runs'[r] = runs[r]) \/ runs'[r] = row
    BY <1>12, <2>3, <2>5 DEF Ids
  <2>7. RunsKeepTheirSnapshot'
    BY <1>1, <2>4, <2>5, <2>6 DEF RunsKeepTheirSnapshot
  <2>8. QED
    BY <1>2, <1>11, <2>5, <2>6, <2>7
<1>14. ASSUME NEW r \in Ids(runs), RunEvaluates(r) PROVE StoreInv'
  <2> DEFINE ended == IF SignalsRaise(Evaluated(r)) THEN "FAILED" ELSE "COMPLETED"
  <2>1. runs' = [runs EXCEPT ![r].status = ended] /\ UNCHANGED <<strategies, versions, request>>
    BY <1>14 DEF RunEvaluates
  <2>2. Evaluated(r) = versions[runs[r].madeOf].doc
    BY <1>1 DEF Evaluated, RunsKeepTheirSnapshot
  <2>3. ended \in {"COMPLETED", "FAILED"} /\ (ended = "FAILED" <=> SignalsRaise(versions[runs[r].madeOf].doc))
    BY <2>2
  <2> HIDE DEF ended
  <2>4. r \in DOMAIN runs /\ runs[r] \in [strategy : Ids(strategies), snapshot : Documents,
             madeOf : Ids(versions), status : {"PENDING", "COMPLETED", "FAILED"}]
    BY <1>12, RowRead DEF Ids
  <2>5. PICK row : row = [runs[r] EXCEPT !.status = ended]
    OBVIOUS
  <2>6. /\ row \in [strategy : Ids(strategies), snapshot : Documents, madeOf : Ids(versions),
                    status : {"PENDING", "COMPLETED", "FAILED"}]
        /\ row.snapshot = runs[r].snapshot /\ row.madeOf = runs[r].madeOf /\ row.status = ended
    BY <2>3, <2>4, <2>5
  <2>7. runs' = [runs EXCEPT ![r] = row]
    BY <2>1, <2>5
  <2>8. /\ runs' \in Seq([strategy : Ids(strategies), snapshot : Documents, madeOf : Ids(versions),
                          status : {"PENDING", "COMPLETED", "FAILED"}])
        /\ Ids(runs)' = Ids(runs)
        /\ runs'[r] = row
        /\ \A x \in Ids(runs) : x # r => runs'[x] = runs[x]
    BY <1>12, <2>4, <2>6, <2>7, RowWritten DEF Ids
  <2>9. RunsKeepTheirSnapshot'
    BY <1>1, <2>1, <2>3, <2>6, <2>8 DEF RunsKeepTheirSnapshot
  <2>10. QED
    BY <1>2, <1>11, <2>1, <2>8, <2>9
<1>15. CASE UNCHANGED storeVars
  BY <1>1, <1>2, <1>11, <1>12, <1>15 DEF storeVars, RunsKeepTheirSnapshot, Ids
<1>16. ASSUME NEW q \in Requests, UpdateCommits(q) PROVE StoreInv'
  BY <1>16, CommitKeeps
<1>17. QED
  BY <1>3, <1>4, <1>5, <1>6, <1>7, <1>8, <1>9, <1>10, <1>13, <1>14, <1>15, <1>16 DEF StoreNext

\* However updates, copies, deletions and runs overlap or are lost, the tables of
\* strategies keep StoreInv, for any documents, requests and numbers of rows.
THEOREM StoreInvariantHolds == StoreSpec => []StoreInv
<1>1. StoreInit => StoreInv
  BY DEF StoreInit, StoreInv, StoreTypeOK, Histories, RequestsKnow, RunsKeepTheirSnapshot, Ids
<1>2. QED
  BY <1>1, StoreStep, PTL DEF StoreSpec

\* The version numbers of a strategy have no gap, and one of its rows is the
\* document it has: no update that overlaps another makes one current that no row
\* keeps.
THEOREM HistoriesKeepUp == StoreSpec => []HistoryKeepsUp
<1>1. ASSUME StoreInv PROVE HistoryKeepsUp
  <2>1. ASSUME NEW k \in Nat \ {0} PROVE Max(1 .. k) = k
    <3>1. 1 .. k \in SUBSET (0 .. k) /\ k \in 1 .. k
      OBVIOUS
    <3>2. QED
      BY <3>1, GreatestIs
  <2>2. ASSUME NEW id \in Ids(strategies)
        PROVE  /\ Numbers(id) = 1 .. Max(Numbers(id))
               /\ \E v \in VersionsOf(id) : versions[v].doc = strategies[id].doc
    <3>1. PICK k \in Nat \ {0} : Numbers(id) = 1 .. k
      BY <1>1 DEF StoreInv, Histories, InOrder
    <3>2. /\ VersionsOf(id) # {}
          /\ versions[Max(VersionsOf(id))].doc = strategies[id].doc
      BY <1>1 DEF StoreInv, Histories, InOrder
    <3>3. VersionsOf(id) \in SUBSET (0 .. Len(versions)) /\ Len(versions) \in Nat
      BY <1>1, VersionsAreNumbered DEF StoreInv
    <3>4. Max(VersionsOf(id)) \in VersionsOf(id)
      BY <3>2, <3>3, GreatestNatural
    <3>5. QED
      BY <2>1, <3>1, <3>2, <3>4
  <2>3. QED
    BY <2>2 DEF HistoryKeepsUp
<1>2. QED
  BY <1>1, StoreInvariantHolds, PTL

\* A run ends as the version it was made of would, whatever has become of its
\* strategy by the time it is evaluated.
THEOREM RunsAreReproducible == StoreSpec => []RunsKeepTheirSnapshot
  BY StoreInvariantHolds, PTL DEF StoreInv
-----------------------------------------------------------------------------
\* Documents.

\* A valid section holds conditions of the types its own evaluator serves; beside
\* the groups of a GROUP nothing is looked at.
LEMMA SectionsHoldTheirTypes ==
    ASSUME NEW part, NEW section, ValidSection(part, section)
    PROVE  /\ \A c \in InSection(part) : ValidCondition(c, section)
           /\ ~IsGroup(part) => "conditions" \in DOMAIN part
<1>1. ASSUME NEW plain, ValidPlain(plain, section)
      PROVE  /\ "conditions" \in DOMAIN plain
             /\ plain["logic"] \in {"AND", "OR"}
             /\ \A c \in Range(plain["conditions"]) : ValidCondition(c, section)
  <2>1. "logic" \in DOMAIN plain /\ plain["logic"] \in {"AND", "OR"}
    BY <1>1 DEF ValidPlain, Get
  <2>2. "conditions" \in DOMAIN plain
    BY <1>1 DEF ValidPlain, Get
  <2>3. \A k \in DOMAIN plain["conditions"] : ValidCondition(plain["conditions"][k], section)
    BY <1>1, <2>2 DEF ValidPlain, Get
  <2>4. QED
    BY <2>1, <2>2, <2>3 DEF Range
<1>2. CASE Get(part, "logic", "none") = "GROUP"
  <2>1. "logic" \in DOMAIN part /\ part["logic"] = "GROUP"
    BY <1>2 DEF Get
  <2>2. IsGroup(part)
    BY <2>1 DEF IsGroup
  <2>3. \A k \in DOMAIN part["groups"] : ValidPlain(part["groups"][k], section)
    <3>1. "groups" \in DOMAIN part
      BY <1>2 DEF ValidSection, Get
    <3>2. QED
      BY <1>2, <3>1 DEF ValidSection, Get
  <2>4. QED
    BY <1>1, <2>2, <2>3 DEF InSection
<1>3. CASE Get(part, "logic", "none") # "GROUP"
  <2>1. ValidPlain(part, section)
    BY <1>3 DEF ValidSection
  <2>2. ~IsGroup(part)
    BY <1>1, <2>1 DEF IsGroup
  <2>3. QED
    BY <1>1, <2>1, <2>2 DEF InSection
<1>4. QED
  BY <1>2, <1>3

LEMMA ValidDocumentsAreRouted ==
    ASSUME NEW doc, Valid(doc)
    PROVE  /\ \A c \in Signalling(doc) : c.type \in TimeseriesTypes
           /\ "exit_position" \in DOMAIN doc =>
                /\ \A c \in InSection(doc.exit_position) : c.type \in PositionTypes
                /\ \/ IsGroup(doc.exit_position)
                   \/ ExitRules(doc) = InSection(doc.exit_position)
<1>1. \A section \in Sections \cap DOMAIN doc : ValidSection(doc[section], section)
  BY DEF Valid
<1>2. \A section \in Sections \cap DOMAIN doc :
        /\ \A c \in InSection(doc[section]) : ValidCondition(c, section)
        /\ ~IsGroup(doc[section]) => "conditions" \in DOMAIN doc[section]
  BY <1>1, SectionsHoldTheirTypes
<1>3. \A c \in Signalling(doc) : c.type \in TimeseriesTypes
  BY <1>2 DEF Signalling, Sections, ValidCondition, Routed
<1>4. ASSUME "exit_position" \in DOMAIN doc
      PROVE  /\ \A c \in InSection(doc["exit_position"]) : c.type \in PositionTypes
             /\ \/ IsGroup(doc["exit_position"])
                \/ ExitRules(doc) = InSection(doc["exit_position"])
  <2> DEFINE part == doc["exit_position"]
  <2>1. \A c \in InSection(part) : c.type \in PositionTypes
    BY <1>2, <1>4 DEF Sections, TimeseriesSections, ValidCondition, Routed
  <2>2. ASSUME ~IsGroup(part) PROVE ExitRules(doc) = InSection(part)
    <3>1. "conditions" \in DOMAIN part
      BY <1>2, <1>4, <2>2 DEF Sections
    <3>2. QED
      BY <1>4, <2>2, <3>1 DEF ExitRules, Get, InSection
  <2>3. QED
    BY <2>1, <2>2
<1>5. QED
  BY <1>3, <1>4

\* Only valid documents are current or about to be.
AcceptedOnly ==
    /\ \A id \in Ids(strategies) : Valid(strategies[id].doc)
    /\ \A q \in Requests : request[q] # << >> => Valid(request[q].doc)

LEMMA AcceptedStep == StoreInv /\ AcceptedOnly /\ [StoreNext(Documents)]_storeVars => AcceptedOnly'
<1> SUFFICES ASSUME StoreInv, AcceptedOnly, [StoreNext(Documents)]_storeVars PROVE AcceptedOnly'
  OBVIOUS
<1>1. /\ strategies \in Seq([doc : Documents, deleted : BOOLEAN])
      /\ request \in [Requests -> RequestType \cup {<< >>}]
      /\ \A id \in Ids(strategies) : Valid(strategies[id].doc)
      /\ \A q \in Requests : request[q] # << >> => Valid(request[q].doc)
  BY DEF StoreInv, StoreTypeOK, AcceptedOnly
<1>2. ASSUME NEW doc, Valid(doc), Insert(doc), UNCHANGED request PROVE AcceptedOnly'
  <2>1. PICK row : row = [doc |-> doc, deleted |-> FALSE]
    OBVIOUS
  <2>2. row.doc = doc
    BY <2>1
  <2>3. strategies' = Append(strategies, row)
    BY <1>2, <2>1 DEF Insert
  <2>4. \A id \in Ids(strategies)' : (id \in Ids(strategies) /\ strategies'[id] = strategies[id])
                                    \/ strategies'[id] = row
    BY <1>1, <2>3 DEF Ids
  <2>5. QED
    BY <1>1, <1>2, <2>2, <2>4 DEF AcceptedOnly
\* The document of one row changes, or none does.
<1>3. ASSUME NEW id \in Ids(strategies), NEW row, Valid(row.doc),
             strategies' = [strategies EXCEPT ![id] = row],
             \A q \in Requests : request'[q] \in {request[q], << >>}
      PROVE  AcceptedOnly'
  <2>1. /\ Ids(strategies)' = Ids(strategies)
        /\ \A x \in Ids(strategies) : strategies'[x] = IF x = id THEN row ELSE strategies[x]
    BY <1>3 DEF Ids
  <2>2. QED
    BY <1>1, <1>3, <2>1 DEF AcceptedOnly
<1>4. ASSUME NEW q \in Requests, NEW held, held # << >> => Valid(held.doc),
             request' = [request EXCEPT ![q] = held], UNCHANGED strategies
      PROVE  AcceptedOnly'
  <2>1. \A p \in Requests : request'[p] = IF p = q THEN held ELSE request[p]
    BY <1>1, <1>4
  <2>2. QED
    BY <1>1, <1>4, <2>1 DEF AcceptedOnly, Ids
<1>5. ASSUME NEW q \in Requests, request[q] # << >>
      PROVE  /\ request[q] \in RequestType /\ Valid(request[q].doc)
             /\ request[q].strategy \in Ids(strategies)
             /\ strategies[request[q].strategy] \in [doc : Documents, deleted : BOOLEAN]
  <2>1. request[q] \in RequestType /\ Valid(request[q].doc)
    BY <1>1, <1>5
  <2>2. request[q].strategy \in Ids(strategies)
    BY <2>1 DEF RequestType
  <2>3. QED
    BY <1>1, <2>1, <2>2, RowRead DEF Ids
\* What the two ends of an update write.
<1>6. ASSUME NEW q \in Requests, request[q] # << >>, NEW doc, Valid(doc),
             strategies' = [strategies EXCEPT ![request[q].strategy].doc = doc],
             request' = [request EXCEPT ![q] = << >>]
      PROVE  AcceptedOnly'
  <2>1. PICK id, row : id = request[q].strategy /\ row = [strategies[id] EXCEPT !.doc = doc]
    OBVIOUS
  <2>2. id \in Ids(strategies) /\ strategies[id] \in [doc : Documents, deleted : BOOLEAN]
    BY <1>5, <1>6, <2>1
  <2>3. row.doc = doc
    BY <2>1, <2>2
  <2>4. strategies' = [strategies EXCEPT ![id] = row]
    BY <1>6, <2>1
  <2>5. \A p \in Requests : request'[p] \in {request[p], << >>}
    BY <1>1, <1>6
  <2>6. QED
    BY <1>3, <1>6, <2>2, <2>3, <2>4, <2>5
<1>7. ASSUME NEW doc \in Documents, CreateStrategy(doc) PROVE AcceptedOnly'
  BY <1>2, <1>7 DEF CreateStrategy
<1>8. ASSUME NEW id \in Ids(strategies), DuplicateStrategy(id) PROVE AcceptedOnly'
  BY <1>1, <1>2, <1>8 DEF DuplicateStrategy
<1>9. ASSUME NEW id \in Ids(strategies), SoftDelete(id) PROVE AcceptedOnly'
  <2>1. PICK row : row = [strategies[id] EXCEPT !.deleted = TRUE]
    OBVIOUS
  <2>2. strategies[id] \in [doc : Documents, deleted : BOOLEAN]
    BY <1>1, RowRead DEF Ids
  <2>3. row.doc = strategies[id].doc /\ strategies' = [strategies EXCEPT ![id] = row]
    BY <1>9, <2>1, <2>2 DEF SoftDelete
  <2>4. QED
    BY <1>1, <1>3, <1>9, <2>3 DEF SoftDelete
<1>10. ASSUME NEW q \in Requests, NEW id \in Ids(strategies), NEW doc \in Documents, UpdateReads(q, id, doc)
       PROVE  AcceptedOnly'
  <2>1. PICK held : held = [step |-> "read", strategy |-> id, doc |-> doc,
                            before |-> strategies[id].doc, number |-> 0]
    OBVIOUS
  <2>2. held.doc = doc
    BY <2>1
  <2>3. QED
    BY <1>4, <1>10, <2>1, <2>2 DEF UpdateReads
<1>11. ASSUME NEW q \in Requests, UpdateNumbers(q) PROVE AcceptedOnly'
  <2>1. PICK held : held = [request[q] EXCEPT !.step = "numbered",
                                              !.number = NextVersionNumber(request[q].strategy)]
    OBVIOUS
  <2>2. request[q] \in RequestType /\ Valid(request[q].doc)
    BY <1>5, <1>11 DEF UpdateNumbers, Pending
  <2>3. held.doc = request[q].doc
    BY <2>1, <2>2 DEF RequestType
  <2>4. request' = [request EXCEPT ![q] = held] /\ UNCHANGED strategies
    BY <1>1, <1>11, <2>1 DEF UpdateNumbers
  <2>5. QED
    BY <1>4, <2>2, <2>3, <2>4
<1>12. ASSUME NEW q \in Requests, UpdateCommits(q) PROVE AcceptedOnly'
  <2>1. request[q] # << >> /\ Valid(request[q].doc)
    BY <1>5, <1>12 DEF UpdateCommits, Pending
  <2>2. QED
    BY <1>6, <1>12, <2>1 DEF UpdateCommits
<1>13. ASSUME NEW q \in Requests, UpdateUnchanged(q) PROVE AcceptedOnly'
  <2>1. request[q] # << >> /\ Valid(WrittenBack(request[q]))
    BY <1>1, <1>5, <1>13 DEF UpdateUnchanged, Pending, WrittenBack
  <2>2. QED
    BY <1>6, <1>13, <2>1 DEF UpdateUnchanged
<1>14. ASSUME NEW q \in Requests, NEW id \in Ids(strategies), RunReads(q, id) PROVE AcceptedOnly'
  <2>1. PICK held : held = [step |-> "snapshot", strategy |-> id, doc |-> strategies[id].doc,
                            before |-> strategies[id].doc, number |-> Max(VersionsOf(id))]
    OBVIOUS
  <2>2. held.doc = strategies[id].doc
    BY <2>1
  <2>3. QED
    BY <1>1, <1>4, <1>14, <2>1, <2>2 DEF RunReads
<1>15. ASSUME NEW q \in Requests, RunCommits(q) \/ RequestLost(q) PROVE AcceptedOnly'
  BY <1>4, <1>15 DEF RunCommits, RequestLost
<1>16. ASSUME NEW r \in Ids(runs), RunEvaluates(r) PROVE AcceptedOnly'
  BY <1>1, <1>16 DEF RunEvaluates, AcceptedOnly, Ids
<1>17. CASE UNCHANGED storeVars
  BY <1>1, <1>17 DEF storeVars, AcceptedOnly, Ids
<1>18. QED
  BY <1>7, <1>8, <1>9, <1>10, <1>11, <1>12, <1>13, <1>14, <1>15, <1>16, <1>17 DEF StoreNext

\* Whatever is created, copied and updated while requests overlap, the conditions
\* of entry, filters and exit_signal are on the time series, those of exit_position
\* on the position, and the engine reads the latter unless they are in a GROUP: the
\* documents are valid when they are read, and what is read is what a commit writes.
THEOREM SavedConditionsAreRouted == StoreSpec => []ConditionsAreRouted
<1>1. StoreInit => AcceptedOnly
  BY DEF StoreInit, AcceptedOnly, Ids
<1>2. AcceptedOnly => ConditionsAreRouted
  <2>1. ASSUME AcceptedOnly, NEW id \in Ids(strategies) PROVE Valid(strategies[id].doc)
    BY <2>1 DEF AcceptedOnly
  <2>2. QED
    BY <2>1, ValidDocumentsAreRouted DEF ConditionsAreRouted
<1>3. QED
  BY <1>1, <1>2, AcceptedStep, StoreInvariantHolds, PTL DEF StoreSpec

\* The rows of strategies, versions and runs have their types, and point at rows
\* that are there: nothing is deleted under a request that has read it.
THEOREM StoreStaysTyped == StoreSpec => []StoreTypeOK
  BY StoreInvariantHolds, PTL DEF StoreInv

\* Ids of lists and items stay within bounds, and visits hold what they have seen.
THEOREM WatchStaysTyped == WatchSpec => []WatchTypeOK
<1>1. WatchInit => WatchInv
  BY WatchlistAssumption DEF WatchInit, WatchInv, WatchTypeOK, ItemsAreSound
<1>2. QED
  BY <1>1, WatchStep, PTL DEF WatchSpec, WatchInv
=============================================================================
