\* Orders of peers are matched, while they add blocks and forks; one crash.
SPECIFICATION MatcherSpec
CONSTANTS
  Symbols = {"A", "B"}
  Addresses = {"u", "v"}
  OrderIDs = {1, 2}
  TransferIDs = {1, 2}
  FreezeIDs = {1, 2, 3}
  MatchIDs = {1, 2, 3, 4, 5, 6, 7}
  Heights = {3, 4}
  Modulus = 8
  MatchChain = "MATCH"
  None = None
  FloorPriceTimes <- MCFloorPriceTimes
  CeilPriceTimes <- MCCeilPriceTimes
  SymbolRank <- MCSymbolRank
  StartBlocks <- TwoBuyers
  PeerBlocks <- PeerOrders
  MempoolTxs = {}
  MaxHeight = 3
  MaxUncommitted = 3
  MaxCrashes = 1
  MaxGoroutines = 1
  MaxPeerSteps = 2
\* The bound on the steps of peers may stop the instance.
CHECK_DEADLOCK FALSE
INVARIANTS
  NoMatchForgottenUnlessRefused
  OnlyMinedOrdersBooked
PROPERTIES
  SearchLeavesOrders
  MatchesFoundAreValid
