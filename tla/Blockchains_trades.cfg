\* Two tokens traded by blocks of peers, forks and one crash.
SPECIFICATION FairSpec
CONSTANTS
  Symbols = {"A", "B"}
  Addresses = {"u", "v"}
  OrderIDs = {1, 2}
  TransferIDs = {1, 2}
  FreezeIDs = {1, 2, 3}
  MatchIDs = {1, 2}
  Heights = {3, 4}
  Modulus = 8
  MatchChain = "MATCH"
  None = None
  FloorPriceTimes <- MCFloorPriceTimes
  CeilPriceTimes <- MCCeilPriceTimes
  SymbolRank <- MCSymbolRank
  StartBlocks <- Genesis
  PeerBlocks <- PeerTrades
  MempoolTxs = {}
  MaxHeight = 5
  MaxUncommitted = 0
  MaxCrashes = 1
INVARIANTS
  TypeOK
  LedgerIsReplay
  MinedOrdersBooked
  OrdersKnowTheirMatches
  Conservation
  NeverPanics
PROPERTIES
  TokenChainKept
  RecoveryFinishes
