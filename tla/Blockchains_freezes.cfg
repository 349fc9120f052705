\* Freezes, the heights that end them, and forks.
SPECIFICATION Spec
CONSTANTS
  Symbols = {"A"}
  Addresses = {"u", "v"}
  OrderIDs = {1, 2}
  TransferIDs = {1, 2}
  FreezeIDs = {1, 2, 3}
  MatchIDs = {1, 2}
  Heights = {3, 4}
  Modulus = 8
  MatchChain = "MATCH"
  None = None
  FloorPriceTimes <- MCFloorPriceTimes
  CeilPriceTimes <- MCCeilPriceTimes
  SymbolRank <- MCSymbolRank
  StartBlocks <- Genesis
  PeerBlocks <- PeerFreezes
  MempoolTxs <- ClientFreezes
  MaxHeight = 6
  MaxUncommitted = 2
  MaxCrashes = 0
INVARIANTS
  LedgerIsReplay
  Conservation
