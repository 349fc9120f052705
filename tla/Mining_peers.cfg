\* A block or a rollback comes from a peer while the node mines.
SPECIFICATION FairMiningSpec
CONSTANTS
  Symbols = {"A", "B"}
  Addresses = {"u", "v"}
  OrderIDs = {1, 2}
  TransferIDs = {1, 2, 3}
  FreezeIDs = {1, 2, 3}
  MatchIDs = {1, 2}
  Heights = {3, 4}
  Modulus = 8
  MatchChain = "MATCH"
  None = None
  FloorPriceTimes <- MCFloorPriceTimes
  CeilPriceTimes <- MCCeilPriceTimes
  SymbolRank <- MCSymbolRank
  StartBlocks <- TradedTokens
  PeerBlocks <- PeerTransfer
  MempoolTxs = {}
  MaxHeight = 3
  MaxUncommitted = 3
  MaxCrashes = 0
  MaxBlockSize = 1
  MaxPeerSteps = 1
  MaxGoroutines = 1
\* The instance may come to an end: at MaxHeight nothing is mined, and a panic
\* stops the node.
CHECK_DEADLOCK FALSE
PROPERTIES
  MiningResumesOnLiveToken
