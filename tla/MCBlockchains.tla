---------------------------- MODULE MCBlockchains ----------------------------
(***************************************************************************)
(* Small instances of Blockchains: the native token A, a second token B,   *)
(* two addresses, and the blocks that peers offer.                         *)
(***************************************************************************)
EXTENDS Blockchains

\* Prices, exact for such amounts: see MCUncommittedTransactions.
MCFloorPriceTimes(n, d, t) ==
  IF d = 0 THEN None
  ELSE LET q == (n * t) \div d IN IF q < Modulus THEN q ELSE None

MCCeilPriceTimes(n, d, t) ==
  IF d = 0 THEN None
  ELSE LET q == (n * t + d - 1) \div d IN IF q < Modulus THEN q ELSE None

\* The names of the tokens in their order as strings: B is the base of A and B.
MCSymbolRank ==
  [s \in Symbols |-> CASE s = "A" -> 1 [] s = "B" -> 2 [] OTHER -> 3]

A == "A"
B == "B"
M == MatchChain

Create(symbol, supply, creator) ==
  [type |-> "CREATE_TOKEN", chain |-> M, Symbol |-> symbol,
   TotalSupply |-> supply, CreatorAddress |-> creator]

AnOrder(chain, id, buySymbol, sell, buy, seller) ==
  [type |-> "ORDER", chain |-> chain,
   order |-> [ID |-> id, BuySymbol |-> buySymbol, AmountToSell |-> sell,
              AmountToBuy |-> buy, SellerAddress |-> seller]]

AMatch(id, buyID, sellID, transferAmt, gain, loss) ==
  [type |-> "MATCH", chain |-> M, MatchID |-> id, SellSymbol |-> A,
   SellOrderID |-> sellID, SellerGain |-> gain, BuySymbol |-> B,
   BuyOrderID |-> buyID, BuyerLoss |-> loss, TransferAmt |-> transferAmt]

ATransfer(chain, id, amount, from, to) ==
  [type |-> "TRANSFER", chain |-> chain, ID |-> id, Amount |-> amount,
   FromAddress |-> from, ToAddress |-> to]

AFreeze(chain, id, amount, from, height) ==
  [type |-> "FREEZE", chain |-> chain, ID |-> id, Amount |-> amount,
   FromAddress |-> from, UnfreezeBlock |-> height]

AClaim(chain, address, amount) ==
  [type |-> "CLAIM_FUNDS", chain |-> chain, Address |-> address, Amount |-> amount]

ACancel(symbol, id) ==
  [type |-> "CANCEL_ORDER", chain |-> M, OrderSymbol |-> symbol, OrderID |-> id]

Of(symbol, txs) == [symbol |-> symbol, txs |-> txs]

\* u owns A; v owns B once it is created.
CreateA == Create(A, 5, "u")
CreateB == Create(B, 5, "v")
Genesis == <<Of(M, <<CreateA>>)>>
GenesisAndB == <<Of(M, <<CreateA>>), Of(M, <<CreateB>>)>>

\* u sells 4 A for 2 B.  v sells 1 B for 2 A, and 2 B for 2 A: each fills one
\* half of u's order, the second with a surplus.
SellA == AnOrder(A, 1, B, 4, 2, "u")
SellB1 == AnOrder(B, 1, A, 1, 2, "v")
SellB2 == AnOrder(B, 2, A, 2, 2, "v")
Match1 == AMatch(1, 1, 1, 2, 1, 1)
Match2 == AMatch(2, 2, 1, 2, 1, 2)

\* Orders, matches, transfers and creations, on their own and together; the
\* last match of all names a wrong amount.
PeerTrades == {
  Of(A, <<SellA>>),
  Of(A, <<ATransfer(A, 1, 1, "u", "v"), SellA>>),
  Of(B, <<ATransfer(B, 1, 2, "v", "u"), SellB1>>),
  Of(B, <<SellB1>>),
  Of(B, <<SellB2>>),
  Of(M, <<CreateB>>),
  Of(M, <<Match1>>),
  Of(M, <<Match2>>),
  Of(M, <<Match2, Match1>>),
  Of(M, <<Match1, AMatch(2, 2, 1, 2, 2, 2)>>)}

\* What clients and the matcher offer while peers' blocks come.
ClientTxs == {SellA, ATransfer(A, 1, 1, "u", "v"), AClaim(A, "v", 2), SellB1, SellB2,
              Match1, Match2, CreateB, ACancel(A, 2)}
PeerTradesAndClaims == {
  Of(A, <<SellA>>),
  Of(A, <<AClaim(A, "v", 2)>>),
  Of(B, <<SellB1>>),
  Of(B, <<SellB2>>),
  Of(M, <<CreateB>>),
  Of(M, <<Match1>>)}

\* Freezes until a height that is still to come, or not any more.
PeerFreezes == {
  Of(A, <<>>),
  Of(A, <<ATransfer(A, 1, 2, "u", "v"), AFreeze(A, 1, 2, "u", 3)>>),
  Of(A, <<AFreeze(A, 2, 1, "v", 3), AFreeze(A, 3, 1, "u", 4)>>)}
ClientFreezes == {AFreeze(A, 1, 2, "u", 3), AFreeze(A, 3, 1, "u", 4),
                  ATransfer(A, 2, 3, "u", "v")}

\* A third token is created by the block that holds a match of the other two.
CreateC == Create("C", 1, "u")
PeerCreation == {
  Of(A, <<SellA>>), Of(B, <<SellB1>>), Of(M, <<CreateC, Match1>>)}

=============================================================================
