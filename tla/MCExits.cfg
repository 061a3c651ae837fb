SPECIFICATION Spec
CONSTANTS
  Symbols = {1}
  InitialCash = 4000
  FeeRate = 1
  Slippage = 1
  TaxRates <- Taxes
  TickRounding = "buy_up_sell_down"
  CashRule <- NoCashRule
  Bars <- AllBars
  Gaps = {1, 2}
  MaxDay = 5
  EndDate = 4
  Config <- TheConfig
  Rules <- TheRules
  Delisted <- None
  Estimated <- None
INVARIANTS TypeOK LossIsCapped
PROPERTIES FillsWithinTheDay TrailingUsesYesterday RunEnds
