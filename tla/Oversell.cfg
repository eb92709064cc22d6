SPECIFICATION Spec
CONSTANTS
  None = None
  InitialBalance = 12
  Bots = {b1}
  Requests = {r1}
  DefaultSetting <- BaseGap
  Payloads <- NoPayload
  Tickers <- Quotes
  FxRates <- ApiRates
  SellPrices <- SalePrices
  SellVolumes <- WholeVolume
  Operations = {"start", "sell"}
  Faults = {}
  MaxRows = 3
INVARIANT NoShortSale
