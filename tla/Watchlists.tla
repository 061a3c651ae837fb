----------------------------- MODULE Watchlists -----------------------------
(***************************************************************************)
(* api/routes_watchlists.py and models/watchlist.py: lists of symbols that *)
(* requests create, fill, empty and delete at the same time.  A request    *)
(* looks at the tables first and writes when its session commits; SQLite   *)
(* gives a new row the id after the greatest one in use, so that an id     *)
(* whose row was deleted may come back.                                    *)
(***************************************************************************)
EXTENDS Naturals, FiniteSetsExt

CONSTANTS
    Watched,     \* symbols users watch
    Visits,      \* requests that may be under way at the same time
    MaxLists,    \* bound: the greatest id of a list
    MaxItems     \* bound: the greatest id of an item

ASSUME WatchlistAssumption == MaxLists \in Nat /\ MaxItems \in Nat

VARIABLES
    lists,     \* watchlists: the ids there is a row for
    items,     \* watchlist_items: id -> list and symbol
    visit      \* what a request has seen: empty or one record

watchVars == <<lists, items, visit>>

WatchInit ==
    /\ lists = {}
    /\ items = << >>
    /\ visit = [v \in Visits |-> << >>]

FreshId(ids)  == Max({0} \cup ids) + 1
ItemsOf(list) == {i \in DOMAIN items : items[i].list = list}
Without(ids)  == [i \in DOMAIN items \ ids |-> items[i]]

\* create_watchlist
CreateList ==
    /\ FreshId(lists) <= MaxLists
    /\ lists' = lists \cup {FreshId(lists)}
    /\ UNCHANGED <<items, visit>>

\* Every other request answers 404 when its list is not there, and else goes on
\* with what it has seen.
Looks(v, list, seen) ==
    /\ visit[v] = << >>
    /\ list \in lists
    /\ visit' = [visit EXCEPT ![v] = seen]
    /\ UNCHANGED <<lists, items>>

Seen(v, wants) == visit[v] # << >> /\ visit[v].wants = wants

Answered(v) == visit' = [visit EXCEPT ![v] = << >>]

\* add_symbol: 409 when the list has the symbol already.
AddLooks(v, list, symbol) ==
    /\ \A i \in ItemsOf(list) : items[i].symbol # symbol
    /\ Looks(v, list, [wants |-> "add", list |-> list, symbol |-> symbol, found |-> {}])

\* IntegrityError: of the unique index, or of the foreign key of a list that has
\* been deleted since.
Conflicts(list, symbol) ==
    \/ list \notin lists
    \/ \E i \in ItemsOf(list) : items[i].symbol = symbol

\* The flush that inserts, and the commit; on an IntegrityError 409 after all.
AddWrites(v) ==
    /\ Seen(v, "add")
    /\ LET list   == visit[v].list
           symbol == visit[v].symbol
           id     == FreshId(DOMAIN items)
       IN  \/ /\ ~Conflicts(list, symbol)
              /\ id <= MaxItems
              /\ items' = [i \in DOMAIN items \cup {id} |->
                             IF i = id THEN [list |-> list, symbol |-> symbol] ELSE items[i]]
           \/ Conflicts(list, symbol) /\ items' = items
    /\ Answered(v)
    /\ UNCHANGED lists

\* remove_symbol: the row it finds, if any, is deleted by its id.
RemoveLooks(v, list, symbol) ==
    Looks(v, list, [wants |-> "remove", list |-> list, symbol |-> symbol,
                    found |-> {i \in ItemsOf(list) : items[i].symbol = symbol}])

RemoveWrites(v) ==
    /\ Seen(v, "remove")
    /\ items' = Without(visit[v].found)
    /\ Answered(v)
    /\ UNCHANGED lists

\* delete_watchlist: cascade of the relationship, the rows that were loaded.
DeleteLooks(v, list) ==
    Looks(v, list, [wants |-> "delete", list |-> list, found |-> ItemsOf(list)])

\* Mutation: no ON DELETE CASCADE.
OnlyLoaded(list) == {}

\* ON DELETE CASCADE, for the rows that came later.
Cascaded(list) == ItemsOf(list)

DeleteWrites(v) ==
    /\ Seen(v, "delete")
    /\ lists' = lists \ {visit[v].list}
    /\ items' = Without(visit[v].found \cup Cascaded(visit[v].list))
    /\ Answered(v)

\* An exception before the commit, or the process dies: the session rolls back.
VisitLost(v) ==
    /\ visit[v] # << >>
    /\ Answered(v)
    /\ UNCHANGED <<lists, items>>

WatchNext ==
    \/ CreateList
    \/ \E v \in Visits :
        \/ \E list \in lists :
            \/ DeleteLooks(v, list)
            \/ \E symbol \in Watched : AddLooks(v, list, symbol) \/ RemoveLooks(v, list, symbol)
        \/ AddWrites(v) \/ RemoveWrites(v) \/ DeleteWrites(v) \/ VisitLost(v)

WatchSpec == WatchInit /\ [][WatchNext]_watchVars
-----------------------------------------------------------------------------
VisitType ==
    [wants : {"add", "remove"}, list : Nat, symbol : Watched, found : SUBSET Nat]
      \cup [wants : {"delete"}, list : Nat, found : SUBSET Nat]

WatchTypeOK ==
    /\ lists \subseteq 1 .. MaxLists
    /\ items \in [DOMAIN items -> [list : Nat, symbol : Watched]]
    /\ DOMAIN items \subseteq 1 .. MaxItems
    /\ visit \in [Visits -> VisitType \cup {<< >>}]

\* Whatever requests overlap, a list has a symbol once, and no item is left of a
\* list that has been deleted.
ItemsAreSound ==
    /\ \A i, j \in DOMAIN items : items[i] = items[j] => i = j
    /\ \A i \in DOMAIN items : items[i].list \in lists
=============================================================================
