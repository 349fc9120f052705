---------------------- MODULE MCUncommittedTransactions ----------------------
(***************************************************************************)
(* A small instance of UncommittedTransactions: two tokens, two addresses, *)
(* and a set of transactions in which every kind can be accepted and every *)
(* guard can refuse one.                                                   *)
(***************************************************************************)
EXTENDS UncommittedTransactions

CONSTANTS NaNAsAmount  \* uint64(NaN), which Go leaves to the platform

\* The prices where rounding to a float64 changes nothing: the quotients of
\* amounts below 11 (the least exception is 15 / 11 * 11).
MCFloorPriceTimes(n, d, t) ==
  IF d = 0 THEN None
  ELSE LET q == (n * t) \div d IN IF q < Modulus THEN q ELSE None

MCCeilPriceTimes(n, d, t) ==
  IF d = 0 THEN IF t = 0 THEN NaNAsAmount ELSE None
  ELSE LET q == (n * t + d - 1) \div d IN IF q < Modulus THEN q ELSE None

A == "A"
B == "B"

Creates == {
  [type |-> "CREATE_TOKEN", chain |-> MatchChain, Symbol |-> A,
   TotalSupply |-> 5, CreatorAddress |-> "u"],
  [type |-> "CREATE_TOKEN", chain |-> MatchChain, Symbol |-> B,
   TotalSupply |-> 5, CreatorAddress |-> "v"]}

AnOrder(chain, id, buySymbol, sell, buy, seller) ==
  [type |-> "ORDER", chain |-> chain,
   order |-> [ID |-> id, BuySymbol |-> buySymbol, AmountToSell |-> sell,
              AmountToBuy |-> buy, SellerAddress |-> seller]]

\* u sells A for B, v sells B for A, with sizes that fill each other partly,
\* exactly and with a surplus; id 1 is offered twice on A.
Orders == {
  AnOrder(A, 1, B, 3, 2, "u"),
  AnOrder(A, 1, B, 1, 1, "u"),
  AnOrder(B, 1, A, 4, 2, "v"),
  AnOrder(B, 2, A, 1, 1, "v"),
  AnOrder(A, 2, B, 2, 1, "u"),
  AnOrder(B, 2, A, 2, 3, "v")}

\* Every match of two of these orders, right or wrong amounts.
Matches ==
  [type : {"MATCH"}, chain : {MatchChain}, MatchID : MatchIDs,
   SellSymbol : {A}, SellOrderID : {1, 2}, SellerGain : 1 .. 2,
   BuySymbol : {B}, BuyOrderID : {1, 2}, BuyerLoss : 1 .. 4,
   TransferAmt : 1 .. 2]

Claims ==
  [type : {"CLAIM_FUNDS"}, chain : {A}, Address : {"v"}, Amount : {1, 2}]
  \cup [type : {"CLAIM_FUNDS"}, chain : {B}, Address : {"u"}, Amount : {1}]

Moves == {
  [type |-> "TRANSFER", chain |-> A, ID |-> 1, Amount |-> 3,
   FromAddress |-> "u", ToAddress |-> "v"],
  [type |-> "FREEZE", chain |-> A, ID |-> 1, Amount |-> 2,
   FromAddress |-> "u", UnfreezeBlock |-> 3]}

Cancels == {[type |-> "CANCEL_ORDER", chain |-> MatchChain,
             OrderSymbol |-> A, OrderID |-> 1],
            [type |-> "CANCEL_ORDER", chain |-> MatchChain,
             OrderSymbol |-> B, OrderID |-> 1]}

MCOffered == Creates \cup Orders \cup Matches \cup Claims \cup Moves
OfferedWithCancels ==
  Creates \cup Orders \cup Cancels \cup {m \in Matches : m.MatchID = 1}
    \cup [type : {"CLAIM_FUNDS"}, chain : {A}, Address : {"u"}, Amount : {1}]

=============================================================================
