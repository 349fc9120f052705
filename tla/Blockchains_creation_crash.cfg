\* A node restarts on a block with a creation and a match.
SPECIFICATION Spec
CONSTANTS
  Symbols = {"A", "B", "C"}
  Addresses = {"u", "v"}
  OrderIDs = {1, 2}
  TransferIDs = {1, 2}
  FreezeIDs = {1, 2, 3}
  MatchIDs = {1, 2}
  Heights = {3, 4}
  Modulus = 8
  MatchChain = "MATCH"
  None = None
  FloorPriceTimes <- MCFloorPriceTimes
  CeilPriceTimes <- MCCeilPriceTimes
  SymbolRank <- MCSymbolRank
  StartBlocks <- GenesisAndB
  PeerBlocks <- PeerCreation
  MempoolTxs = {}
  MaxHeight = 5
  MaxUncommitted = 0
  MaxCrashes = 1
PROPERTIES
  TokenChainKept
