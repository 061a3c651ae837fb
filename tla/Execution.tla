----------------------------- MODULE Execution -----------------------------
(***************************************************************************)
(* What a trade costs: backtest/execution.py and backtest/tick.py.  Prices *)
(* and amounts are won.  Rates are per mille.  A price a rule derives from *)
(* a percentage is passed in hundredths of a won, so no rounding happens   *)
(* before the one of round_to_tick.                                        *)
(***************************************************************************)
EXTENDS Integers, FiniteSets

CONSTANTS
    FeeRate,       \* fee_rate, of a buy and of a sale
    Slippage,      \* slippage
    TaxRates,      \* tax_rate: from-date -> rate of the transaction tax
    TickRounding   \* tick_rounding: "buy_up_sell_down" or "nearest"

\* Rates far below what would make a sale cost more than it brings in.
ASSUME RatesAssumption ==
    /\ FeeRate \in 0..249
    /\ Slippage \in 0..999
    /\ IsFiniteSet(DOMAIN TaxRates)
    /\ \A from \in DOMAIN TaxRates : from \in Int /\ TaxRates[from] \in 0..249
    /\ TickRounding \in {"buy_up_sell_down", "nearest"}

\* _round_krw: n/d to the next won, halves up.
RoundKrw(n, d) == (2 * n + d) \div (2 * d)

\* round(): n/d to the next integer, halves to the even one.
RoundHalfEven(n, d) ==
    LET q == n \div d
        r == n % d
    IN  IF 2 * r < d \/ (2 * r = d /\ q % 2 = 0) THEN q ELSE q + 1

\* get_tax_rate: the last entry that has started by the date.
TaxRate(date) ==
    LET started == {from \in DOMAIN TaxRates : from <= date}
    IN  IF started = {} THEN 0
        ELSE TaxRates[CHOOSE from \in started : \A f \in started : f <= from]

\* tick_size_for
TickSize(price) ==
    CASE price < 2000   -> 1
      [] price < 5000   -> 5
      [] price < 20000  -> 10
      [] price < 50000  -> 50
      [] price < 200000 -> 100
      [] price < 500000 -> 500
      [] OTHER          -> 1000

\* round_to_tick of n/d.
RoundToTick(n, d, side) ==
    LET tick == TickSize(n \div d) IN
      tick * (IF TickRounding = "nearest" THEN RoundHalfEven(n, d * tick)
              ELSE IF side = "buy" THEN (n + d * tick - 1) \div (d * tick)
              ELSE n \div (d * tick))

\* apply_slippage_and_tick: a buyer pays more, a seller gets less.
BuyPrice(won)   == RoundToTick(won * (1000 + Slippage), 1000, "buy")
SellPrice(cent) == RoundToTick(cent * (1000 - Slippage), 100000, "sell")

\* net_amount of calculate_buy_cost and of calculate_sell_proceeds.
BuyCost(price, quantity) ==
    LET gross == price * quantity IN gross + RoundKrw(gross * FeeRate, 1000)

SellProceeds(price, quantity, date) ==
    LET gross == price * quantity
    IN  gross - RoundKrw(gross * FeeRate, 1000) - RoundKrw(gross * TaxRate(date), 1000)
=============================================================================
