SPECIFICATION Spec
CONSTANTS
  None = None
  InitialBalance = 12
  Bots = {b1}
  Requests = {r1}
  DefaultSetting <- TightLoss
  Payloads <- NoPayload
  Tickers <- Quotes
  FxRates <- ApiRates
  SellPrices <- LowPrices
  SellVolumes <- WholeVolume
  Operations = {"start", "sell"}
  Faults = {"midnight"}
  MaxRows = 3
PROPERTY DailyLossOnly
