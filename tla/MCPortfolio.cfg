SPECIFICATION Spec
CONSTANTS
  Symbols = {s1, s2}
  InitialCash = 5500
  FeeRate = 15
  Slippage = 0
  TaxRates <- Taxes
  TickRounding = "buy_up_sell_down"
  Prices = {1001, 1500}
  Dates = {1, 2}
  MaxQty = 3
  MaxTrades = 3
  Pyramiding = {TRUE, FALSE}
INVARIANTS TypeOK CashMatchesLog ResultsMatchAccount
PROPERTIES ImplementsAccount OldestFirst SplitWithinRounding SaleIsFilled
CHECK_DEADLOCK FALSE
