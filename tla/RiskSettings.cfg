SPECIFICATION Spec
CONSTANTS
  None = None
  InitialBalance = 12
  Bots = {b1}
  Requests = {r1}
  DefaultSetting <- LossCutAt3
  Payloads <- RiskPayloads
  Tickers <- FlatQuotes
  FxRates <- TwoRates
  SellPrices <- FlatPrices
  SellVolumes <- PartVolume
  Operations = {"start", "settings", "sell"}
  Faults = {"midnight"}
  MaxRows = 3
INVARIANTS Solvent AveragePaid NoFreeMoney
PROPERTIES DailyCap LossCutSellsAll KeepsPromise
