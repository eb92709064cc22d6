SPECIFICATION Spec
CONSTANTS
  None = None
  InitialBalance = 12
  Bots = {b1}
  Requests = {r1, r2}
  DefaultSetting <- BaseGap
  Payloads <- SkewPayloads
  Tickers <- Quotes
  FxRates <- ApiRates
  SellPrices <- SalePrices
  SellVolumes <- WholeVolume
  Operations = {"start", "stop", "settings"}
  Faults = {"crash"}
  MaxRows = 1
PROPERTIES SettingsSurvive NoResurrection KeepsPromise
SYMMETRY RequestSymmetry
