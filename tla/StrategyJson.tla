---------------------------- MODULE StrategyJson ----------------------------
(***************************************************************************)
(* What a strategy document may look like: schemas/strategy_json.py, and   *)
(* the readers that later take a document apart.  A document, a section    *)
(* and a condition are records with the keys their author wrote; null is   *)
(* an absent key, a value of a wrong JSON type is an object without keys,  *)
(* a number of a wrong type is negative.                                   *)
(***************************************************************************)
EXTENDS Conditions

TimeseriesSections == {"entry", "exit_signal", "filters"}
Sections           == TimeseriesSections \cup {"exit_position"}

\* dict.get
Get(object, key, default) == IF key \in DOMAIN object THEN object[key] ELSE default

\* Mutation: a condition of any type may stand in any section.
RoutedAnywhere(c, section) == TRUE

\* A condition on the position has its place in exit_position, one on the time
\* series everywhere else.
Routed(c, section) ==
    (c.type \in PositionTypes) <=> (section \notin TimeseriesSections)

ValidCondition(c, section) ==
    /\ "type" \in DOMAIN c
    /\ c.type \in TimeseriesTypes \cup PositionTypes
    /\ Routed(c, section)
    /\ Get(c, "operator", ">") \in AllowedOperators

\* logic and at least one condition: a plain section, or one group of a GROUP.
ValidPlain(part, section) ==
    LET conditions == Get(part, "conditions", << >>)
    IN  /\ Get(part, "logic", "none") \in {"AND", "OR"}
        /\ conditions # << >>
        /\ \A k \in DOMAIN conditions : ValidCondition(conditions[k], section)

\* Groups hold plain sections only: a GROUP in a GROUP is refused.
ValidSection(part, section) ==
    IF Get(part, "logic", "none") = "GROUP"
    THEN LET groups == Get(part, "groups", << >>)
         IN  /\ Get(part, "operator", "none") \in {"AND", "OR"}
             /\ groups # << >>
             /\ \A k \in DOMAIN groups : ValidPlain(groups[k], section)
    ELSE ValidPlain(part, section)

ValidSizing(sizing) ==
    LET method == Get(sizing, "method", "none")
    IN  /\ method \in {"fixed_amount", "fixed_ratio", "equal_weight", "daily_budget"}
        /\ method = "fixed_amount" => Get(sizing, "amount", -1) > 0
        /\ method = "fixed_ratio" =>
             LET ratio == Get(sizing, "ratio", NaN) IN Less(Num(0), ratio) /\ ~Less(Num(1), ratio)
        /\ Get(sizing, "max_positions", 1) >= 1
        /\ Get(sizing, "max_daily_entries", 0) >= 0
        /\ Get(sizing, "daily_buy_budget", 0) >= 0

\* One rate, or the rates from given days on, oldest first.
ValidTax(tax) ==
    IF "flat" \in DOMAIN tax
    THEN tax.flat >= 0
    ELSE LET rates == Get(tax, "dated", << >>)
         IN  /\ rates # << >>
             /\ \A k \in DOMAIN rates :
                  Get(rates[k], "from", -1) >= 0 /\ Get(rates[k], "rate", -1) >= 0
             /\ \A j, k \in DOMAIN rates : j < k => rates[j].from <= rates[k].from

ValidExecution(execution) ==
    /\ \A key \in {"entry_price", "exit_price"} :
         Get(execution, key, "open") \in {"open", "close", "next_open", "next_close"}
    /\ \A key \in {"fee_rate", "slippage"} : Get(execution, key, 0) >= 0
    /\ Get(execution, "tick_rounding", "nearest") \in {"buy_up_sell_down", "nearest"}
    /\ "tax_rate" \in DOMAIN execution => ValidTax(execution.tax_rate)

ValidPriority(priority) ==
    /\ Get(priority, "method", "random") \in
         {"trading_value_desc", "market_cap_desc", "market_cap_asc", "volume_ratio_desc",
          "price_change_desc", "random"}
    /\ Get(priority, "tie_breaker", "symbol_asc") \in {"symbol_asc", "symbol_desc"}

\* validate_strategy_json.
Valid(doc) ==
    /\ "entry" \in DOMAIN doc
    /\ {"exit_signal", "exit_position"} \cap DOMAIN doc # {}
    /\ \A section \in Sections \cap DOMAIN doc : ValidSection(doc[section], section)
    /\ "position_sizing" \in DOMAIN doc => ValidSizing(doc.position_sizing)
    /\ "execution" \in DOMAIN doc => ValidExecution(doc.execution)
    /\ "priority" \in DOMAIN doc => ValidPriority(doc.priority)

-----------------------------------------------------------------------------
\* The conditions written in a section.
InSection(part) ==
    IF IsGroup(part) THEN UNION {Range(part.groups[k].conditions) : k \in DOMAIN part.groups}
                     ELSE Range(part.conditions)

\* The conditions StrategyEngine.generate_signals evaluates.
Signalling(doc)  == UNION {InSection(doc[section]) : section \in TimeseriesSections \cap DOMAIN doc}

\* The rules the engine evaluates for a position: _get_exit_position_rules
\* reads the key conditions of exit_position and nothing else.
ExitRules(doc) ==
    Range(Get(Get(doc, "exit_position", << >>), "conditions", << >>))

\* generate_signals raises, and the run with it.
SignalsRaise(doc) == \E c \in Signalling(doc) : Raises(c)
=============================================================================
