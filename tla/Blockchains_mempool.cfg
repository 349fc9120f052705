\* Transactions wait for a block while peers' blocks and forks come; one crash.
SPECIFICATION Spec
CONSTANTS
  Symbols = {"A", "B"}
  Addresses = {"u", "v"}
  OrderIDs = {1, 2}
  TransferIDs = {1, 2}
  FreezeIDs = {1, 2, 3}
  MatchIDs = {1, 2}
  Heights = {3, 4}
  Modulus = 8
  MatchChain = "MATCH"
  None = None
  FloorPriceTimes <- MCFloorPriceTimes
  CeilPriceTimes <- MCCeilPriceTimes
  SymbolRank <- MCSymbolRank
  StartBlocks <- GenesisAndB
  PeerBlocks <- PeerTradesAndClaims
  MempoolTxs <- ClientTxs
  MaxHeight = 4
  MaxUncommitted = 3
  MaxCrashes = 1
INVARIANTS
  OrdersKnowTheirMatches
  Conservation
PROPERTIES
  TokenChainKept
