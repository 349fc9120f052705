\* A node without peers; the second of two transfers needs the first.
SPECIFICATION MiningSpec
CONSTANTS
  Symbols = {"A", "B"}
  Addresses = {"u", "v"}
  OrderIDs = {1, 2}
  TransferIDs = {1, 2, 3}
  FreezeIDs = {1, 2, 3}
  MatchIDs = {1, 2}
  Heights = {3, 4}
  Modulus = 8
  MatchChain = "MATCH"
  None = None
  FloorPriceTimes <- MCFloorPriceTimes
  CeilPriceTimes <- MCCeilPriceTimes
  SymbolRank <- MCSymbolRank
  StartBlocks <- TwoTokens
  PeerBlocks <- PeerTransfer
  MempoolTxs <- Dependent
  MaxHeight = 2
  MaxUncommitted = 3
  MaxCrashes = 0
  MaxBlockSize = 1
  MaxPeerSteps = 0
  MaxGoroutines = 2
\* The instance may come to an end: at MaxHeight nothing is mined, and a panic
\* stops the node.
CHECK_DEADLOCK FALSE
INVARIANTS
  LedgerIsAsMined
