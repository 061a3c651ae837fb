SPECIFICATION Spec
CONSTANTS
  Symbols = {1, 2, 3}
  InitialCash = 5500
  FeeRate = 1
  Slippage = 0
  TaxRates <- Taxes
  TickRounding = "buy_up_sell_down"
  CashRule <- TheCashRule
  Bars <- AllBars
  Gaps = {1}
  MaxDay = 3
  EndDate = 3
  Config <- OneEntryADay
  Rules <- TheRules
  Delisted <- TheDelisted
  Estimated <- TheEstimated
PROPERTY HeldTakeNoSlot

