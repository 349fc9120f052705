\* Can the order be undone that a cancel closed?
SPECIFICATION Spec
CONSTANTS
  Symbols = {"A", "B"}
  Addresses = {"u", "v"}
  OrderIDs = {1, 2}
  TransferIDs = {1}
  FreezeIDs = {1}
  MatchIDs = {1, 2, 3}
  Heights = {3}
  Modulus = 8
  MatchChain = "MATCH"
  None = None
  NaNAsAmount = 4
  FloorPriceTimes <- MCFloorPriceTimes
  CeilPriceTimes <- MCCeilPriceTimes
  Offered <- OfferedWithCancels
  MaxUncommitted = 4
INVARIANTS
  UndoNeverStops
