----------------------------- MODULE CashManager -----------------------------
(***************************************************************************)
(* portfolio/cash_manager.py: when the sale of holdings to fund a buy is   *)
(* triggered, what is sold and how much of it.  The loop of                *)
(* handle_shortage runs in the engine, which decides on the price.         *)
(***************************************************************************)
EXTENDS Ledger, FiniteSetsExt

\* The strategy's cash_management section: enabled; trigger, one of
\* "cash_below_daily_buy_budget" and "cash_below_threshold", with threshold (-1
\* when it is missing); fraction, in percent; method; repeat.
CONSTANT CashRule

ASSUME CashRuleAssumption ==
    /\ CashRule.enabled \in BOOLEAN /\ CashRule.repeat \in BOOLEAN
    /\ CashRule.trigger \in {"cash_below_daily_buy_budget", "cash_below_threshold"}
    /\ CashRule.threshold \in Nat \cup {-1}
    /\ CashRule.fraction \in 0..100
    /\ CashRule.method \in {"lowest_return", "highest_return", "largest_value"}

Quantity(s) == MapThenSumSet(LAMBDA g : groups[g].remaining, GroupsOf(s))
Value(s)    == Quantity(s) * quote[s].cur
Invested(s) == MapThenSumSet(LAMBDA g : groups[g].entryPrice * groups[g].remaining, GroupsOf(s))

IsTriggered(required) ==
    /\ CashRule.enabled
    /\ IF CashRule.trigger = "cash_below_threshold"
       THEN CashRule.threshold # -1 /\ cash < CashRule.threshold
       ELSE cash < required

\* unrealized_return_pct of s below that of t, without the division.
EarnsLess(s, t) == Value(s) * Invested(t) < Value(t) * Invested(s)

\* The keys of _select_position; the symbol breaks ties, ascending, so that one
\* holding precedes all others.
Precedes(s, t) ==
    LET before(a, b) ==
          CASE CashRule.method = "lowest_return"  -> EarnsLess(a, b)
            [] CashRule.method = "highest_return" -> EarnsLess(b, a)
            [] CashRule.method = "largest_value"  -> Value(a) > Value(b)
    IN  before(s, t) \/ (~before(t, s) /\ s < t)

SelectPosition(s) == s \in Held /\ \A t \in Held \ {s} : Precedes(s, t)

SharesToSell(s) == (Quantity(s) * CashRule.fraction) \div 100

\* The condition of the loop and its two breaks.
CanRaise(required) ==
    /\ IsTriggered(required)
    /\ \E s \in Held : SelectPosition(s) /\ SharesToSell(s) > 0
=============================================================================
