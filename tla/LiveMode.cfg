SPECIFICATION Spec
CONSTANTS
  None = None
  InitialBalance = 12
  Bots = {b1}
  Requests = {r1}
  DefaultSetting <- Premium
  Payloads <- LivePayloads
  Tickers <- Quotes
  FxRates <- ApiRates
  SellPrices <- SalePrices
  SellVolumes <- WholeVolume
  Operations = {"start", "settings"}
  Faults = {}
  MaxRows = 2
INVARIANT NoLiveTrade
