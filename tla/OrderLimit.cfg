SPECIFICATION Spec
CONSTANTS
  None = None
  InitialBalance = 12
  Bots = {b1}
  Requests = {r1}
  DefaultSetting <- Premium
  Payloads <- NoPayload
  Tickers <- Quotes
  FxRates <- ApiRates
  SellPrices <- SalePrices
  SellVolumes <- WholeVolume
  Operations = {"start"}
  Faults = {}
  MaxRows = 2
PROPERTY OrderWithinMax
