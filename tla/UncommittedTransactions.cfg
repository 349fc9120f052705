\* Two tokens, two orders on each side, two match IDs.
SPECIFICATION Spec
CONSTANTS
  Symbols = {"A", "B"}
  Addresses = {"u", "v"}
  OrderIDs = {1, 2}
  TransferIDs = {1}
  FreezeIDs = {1}
  MatchIDs = {1, 2, 3}
  Heights = {3}
  Modulus = 8
  MatchChain = "MATCH"
  None = None
  NaNAsAmount = 4
  FloorPriceTimes <- MCFloorPriceTimes
  CeilPriceTimes <- MCCeilPriceTimes
  Offered <- MCOffered
  MaxUncommitted = 4
INVARIANTS
  TypeOK
  OrderBookkeeping
  UpdatesCountMatches
  Conservation
  LimitPriceRespected
  UndoNeverStops
PROPERTIES
  UndoIsExact
  ImplementsUndoLog
