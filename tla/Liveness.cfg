SPECIFICATION FairSpec
CONSTANTS
  None = None
  InitialBalance = 12
  Bots = {b1, b2}
  Requests = {r1, r2}
  DefaultSetting <- Premium
  Payloads <- NoPayload
  Tickers <- Quotes
  FxRates <- ApiRates
  SellPrices <- SalePrices
  SellVolumes <- WholeVolume
  Operations = {"start", "stop"}
  Faults = {"crash"}
  MaxRows = 1
INVARIANT IInv
PROPERTIES KeepsPromise RequestsAnswered PassesEnd
