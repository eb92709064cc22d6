SPECIFICATION Spec
CONSTANTS
  None = None
  InitialBalance = 12
  Bots = {b1}
  Requests = {r1, r2}
  DefaultSetting <- BaseGap
  Payloads <- NoPayload
  Tickers <- Quotes
  FxRates <- ApiRates
  SellPrices <- HighPrices
  SellVolumes <- PartOrMore
  Operations = {"start", "stop", "sell"}
  Faults = {"midnight", "crash"}
  MaxRows = 3
INVARIANTS TypeOK Solvent StopBoundsTrading IInv
PROPERTIES DecisionHolds NoResurrection DailyCap OversoldOnlyIfStale
SYMMETRY RequestSymmetry
