---------------------------- MODULE ConsensusState ----------------------------
(***************************************************************************)
(* The ledger of a node (consensus_state.go): for every token the open and *)
(* the filled orders, the balances, the funds waiting to be claimed and    *)
(* the frozen ones.  This module has no variables: a state of the ledger   *)
(* is a value, a transaction maps one to the next, and undoing the         *)
(* transaction maps it back.  The modules that hold a ledger in a variable *)
(* (UncommittedTransactions, Blockchains) extend this one.                 *)
(*                                                                         *)
(* Go's maps are total functions here: an absent amount is 0, as reading   *)
(* it in Go returns, and an absent order or counter is None.               *)
(***************************************************************************)
EXTENDS Integers, FiniteSets

CONSTANTS
  Symbols,      \* names of tokens, each the name of its chain too
  Addresses, OrderIDs, TransferIDs, FreezeIDs, MatchIDs,
  Heights,      \* block heights a freeze can name
  Modulus,      \* amounts are uint64: Modulus stands for 2^64
  MatchChain,   \* MATCH_CHAIN, the chain of matches and created tokens
  None,
  FloorPriceTimes(_, _, _),  \* floor((float64(n) / float64(d)) * float64(t))
  CeilPriceTimes(_, _, _)    \* the same with ceil; None: more than a uint64

ASSUME ModulusAssumption == Modulus \in Nat \ {0}

Amount == 0 .. Modulus - 1

Order == [ID : OrderIDs, BuySymbol : Symbols, AmountToSell : Amount,
          AmountToBuy : Amount, SellerAddress : Addresses]

TokenState ==
  [openOrders        : [OrderIDs -> Order \cup {None}],
   orderUpdatesCount : [OrderIDs -> Int \cup {None}],
   balances          : [Addresses -> Amount],
   unclaimedFunds    : [Addresses -> Amount],
   deletedOrders     : [OrderIDs -> Order \cup {None}],
   usedTransferIDs   : SUBSET TransferIDs,
   usedFreezeIDs     : SUBSET FreezeIDs,
   frozenTokenStore  : [Heights -> [Addresses -> Amount]],
   totalSupply       : Amount]

\* createdTokens has a symbol exactly when tokenStates has it; its TokenInfo
\* is the totalSupply of the token's state.
State == [tokenStates : [Symbols -> TokenState \cup {None}],
          usedMatchIDs : SUBSET MatchIDs]

ASSUME NoneAssumption ==
  None \notin Int /\ None \notin Order /\ None \notin TokenState

\* What the prices are computed with is left open but for their type: Go rounds
\* to a float64 twice before it truncates.
ASSUME PriceAssumption ==
  \A n, d, t \in Amount : /\ FloorPriceTimes(n, d, t) \in Amount \cup {None}
                          /\ CeilPriceTimes(n, d, t) \in Amount \cup {None}

-----------------------------------------------------------------------------
\* Transactions, with the chain whose block holds them.

OrderTx == [type : {"ORDER"}, chain : Symbols, order : Order]
ClaimTx == [type : {"CLAIM_FUNDS"}, chain : Symbols,
            Address : Addresses, Amount : Amount]
TransferTx == [type : {"TRANSFER"}, chain : Symbols, ID : TransferIDs,
               Amount : Amount, FromAddress : Addresses, ToAddress : Addresses]
FreezeTx == [type : {"FREEZE"}, chain : Symbols, ID : FreezeIDs,
             Amount : Amount, FromAddress : Addresses, UnfreezeBlock : Heights]
MatchTx == [type : {"MATCH"}, chain : {MatchChain}, MatchID : MatchIDs,
            SellSymbol : Symbols, SellOrderID : OrderIDs, SellerGain : Amount,
            BuySymbol : Symbols, BuyOrderID : OrderIDs, BuyerLoss : Amount,
            TransferAmt : Amount]
CreateTx == [type : {"CREATE_TOKEN"}, chain : {MatchChain}, Symbol : Symbols,
             TotalSupply : Amount, CreatorAddress : Addresses]
CancelTx == [type : {"CANCEL_ORDER"}, chain : {MatchChain},
             OrderSymbol : Symbols, OrderID : OrderIDs]

TokenTx == OrderTx \cup ClaimTx \cup TransferTx \cup FreezeTx
Transaction == TokenTx \cup MatchTx \cup CreateTx \cup CancelTx

-----------------------------------------------------------------------------
\* uint64 addition and subtraction.

Plus(a, b) == IF a + b < Modulus THEN a + b ELSE a + b - Modulus
Minus(a, b) == IF a >= b THEN a - b ELSE a - b + Modulus

-----------------------------------------------------------------------------
\* The transactions of a token's chain, on the state ts of that token.

OrderAccepted(ts, o) ==
  /\ ts.balances[o.SellerAddress] >= o.AmountToSell
  /\ ts.deletedOrders[o.ID] = None
  /\ ts.openOrders[o.ID] = None

\* Mutant: no update counter.
AddOrder_NoCounter(ts, o) ==
  [ts EXCEPT !.openOrders[o.ID] = o,
             !.balances[o.SellerAddress] = Minus(@, o.AmountToSell)]

AddOrder(ts, o) ==
  [ts EXCEPT !.openOrders[o.ID] = o,
             !.balances[o.SellerAddress] = Minus(@, o.AmountToSell),
             !.orderUpdatesCount[o.ID] = 0]

\* Mutants: the update counter stays; the amount is not given back.
RollbackOrder_KeepsCounter(ts, o) ==
  [ts EXCEPT !.openOrders[o.ID] = None,
             !.balances[o.SellerAddress] = Plus(@, o.AmountToSell)]
RollbackOrder_NoRefund(ts, o) ==
  [ts EXCEPT !.openOrders[o.ID] = None, !.orderUpdatesCount[o.ID] = None]

RollbackOrder(ts, o) ==
  [ts EXCEPT !.openOrders[o.ID] = None,
             !.balances[o.SellerAddress] = Plus(@, o.AmountToSell),
             !.orderUpdatesCount[o.ID] = None]

ClaimAccepted(ts, c) == ts.unclaimedFunds[c.Address] >= c.Amount

AddClaimFunds(ts, c) ==
  [ts EXCEPT !.unclaimedFunds[c.Address] = Minus(@, c.Amount),
             !.balances[c.Address] = Plus(@, c.Amount)]

\* Mutant: the balance stays.
RollbackClaimFunds_StaysPaid(ts, c) ==
  [ts EXCEPT !.unclaimedFunds[c.Address] = Plus(@, c.Amount)]

RollbackClaimFunds(ts, c) ==
  [ts EXCEPT !.unclaimedFunds[c.Address] = Plus(@, c.Amount),
             !.balances[c.Address] = Minus(@, c.Amount)]

\* Take the amount from one address, then give it to another or to the same.
Moved(balances, from, to, amount) ==
  [[balances EXCEPT ![from] = Minus(@, amount)] EXCEPT ![to] = Plus(@, amount)]

TransferAccepted(ts, tr) ==
  /\ tr.ID \notin ts.usedTransferIDs
  /\ ts.balances[tr.FromAddress] >= tr.Amount

AddTransfer(ts, tr) ==
  [ts EXCEPT !.balances = Moved(@, tr.FromAddress, tr.ToAddress, tr.Amount),
             !.usedTransferIDs = @ \cup {tr.ID}]

\* Mutant: the ID stays used.
RollbackTransfer_KeepsID(ts, tr) ==
  [ts EXCEPT !.balances = Moved(@, tr.ToAddress, tr.FromAddress, tr.Amount)]

RollbackTransfer(ts, tr) ==
  [ts EXCEPT !.balances = Moved(@, tr.ToAddress, tr.FromAddress, tr.Amount),
             !.usedTransferIDs = @ \ {tr.ID}]

\* Nothing compares UnfreezeBlock with the height of the chain.
FreezeAccepted(ts, f) ==
  /\ f.ID \notin ts.usedFreezeIDs
  /\ ts.balances[f.FromAddress] >= f.Amount

AddFreeze(ts, f) ==
  [ts EXCEPT !.balances[f.FromAddress] = Minus(@, f.Amount),
             !.frozenTokenStore[f.UnfreezeBlock][f.FromAddress] = Plus(@, f.Amount),
             !.usedFreezeIDs = @ \cup {f.ID}]

RollbackFreeze(ts, f) ==
  [ts EXCEPT !.balances[f.FromAddress] = Plus(@, f.Amount),
             !.frozenTokenStore[f.UnfreezeBlock][f.FromAddress] = Minus(@, f.Amount),
             !.usedFreezeIDs = @ \ {f.ID}]

\* The amounts frozen until a height are returned when a block of that height
\* is added.  The entry stays in the store.
ApplyUnfreezesForBlock(ts, height) ==
  IF height \notin Heights THEN ts
  ELSE [ts EXCEPT !.balances =
          [a \in Addresses |-> Plus(@[a], ts.frozenTokenStore[height][a])]]

RollbackUnfreezesForBlock(ts, height) ==
  IF height \notin Heights THEN ts
  ELSE [ts EXCEPT !.balances =
          [a \in Addresses |-> Minus(@[a], ts.frozenTokenStore[height][a])]]

TokenTxAccepted(ts, tx) ==
  \/ tx.type = "ORDER" /\ OrderAccepted(ts, tx.order)
  \/ tx.type = "CLAIM_FUNDS" /\ ClaimAccepted(ts, tx)
  \/ tx.type = "TRANSFER" /\ TransferAccepted(ts, tx)
  \/ tx.type = "FREEZE" /\ FreezeAccepted(ts, tx)

TokenTxApplied(ts, tx) ==
  CASE tx.type = "ORDER" -> AddOrder(ts, tx.order)
    [] tx.type = "CLAIM_FUNDS" -> AddClaimFunds(ts, tx)
    [] tx.type = "TRANSFER" -> AddTransfer(ts, tx)
    [] tx.type = "FREEZE" -> AddFreeze(ts, tx)

TokenTxUndone(ts, tx) ==
  CASE tx.type = "ORDER" -> RollbackOrder(ts, tx.order)
    [] tx.type = "CLAIM_FUNDS" -> RollbackClaimFunds(ts, tx)
    [] tx.type = "TRANSFER" -> RollbackTransfer(ts, tx)
    [] tx.type = "FREEZE" -> RollbackFreeze(ts, tx)

-----------------------------------------------------------------------------
\* Matches.  The buyer's order sells BuySymbol and is open on that token; the
\* seller's order is open on SellSymbol.

\* Mutant: the seller's gain is rounded down too.
MatchAmounts_RoundedDown(buy, sell) ==
  IF buy.AmountToBuy > sell.AmountToSell
  THEN [transferAmt |-> sell.AmountToSell,
        sellerGain  |-> sell.AmountToBuy,
        buyerLoss   |-> FloorPriceTimes(buy.AmountToSell, buy.AmountToBuy,
                                        sell.AmountToSell)]
  ELSE [transferAmt |-> buy.AmountToBuy,
        sellerGain  |-> FloorPriceTimes(sell.AmountToBuy, sell.AmountToSell,
                                        buy.AmountToBuy),
        buyerLoss   |-> buy.AmountToSell]

\* What a match of two orders must move: the whole of the smaller order and
\* the larger order's price for it.
MatchAmounts(buy, sell) ==
  IF buy.AmountToBuy > sell.AmountToSell
  THEN [transferAmt |-> sell.AmountToSell,
        sellerGain  |-> sell.AmountToBuy,
        buyerLoss   |-> FloorPriceTimes(buy.AmountToSell, buy.AmountToBuy,
                                        sell.AmountToSell)]
  ELSE [transferAmt |-> buy.AmountToBuy,
        sellerGain  |-> CeilPriceTimes(sell.AmountToBuy, sell.AmountToSell,
                                       buy.AmountToBuy),
        buyerLoss   |-> buy.AmountToSell]

MatchAccepted(bs, ss, m) ==
  LET buy == bs.openOrders[m.BuyOrderID]
      sell == ss.openOrders[m.SellOrderID]
  IN /\ buy # None
     /\ sell # None
     /\ sell.AmountToSell >= m.TransferAmt
     /\ MatchAmounts(buy, sell) = [transferAmt |-> m.TransferAmt,
                                   sellerGain  |-> m.SellerGain,
                                   buyerLoss   |-> m.BuyerLoss]
     /\ m.SellerGain <= m.BuyerLoss
     /\ m.BuyerLoss <= buy.AmountToSell

\* An order once it bought and sold some, and before it did.
Reduced(o, bought, sold) ==
  [o EXCEPT !.AmountToBuy = Minus(@, bought), !.AmountToSell = Minus(@, sold)]
Restored(o, bought, sold) ==
  [o EXCEPT !.AmountToBuy = Plus(@, bought), !.AmountToSell = Plus(@, sold)]

\* Mutant: what is left to sell is not refunded.
FillOrder_NoRefund(ts, id, order, bought, sold, counterparty, credit) ==
  LET o == Reduced(order, bought, sold)
      paid == [ts EXCEPT !.unclaimedFunds[counterparty] = Plus(@, credit),
                         !.orderUpdatesCount[id] = @ + 1]
  IN IF o.AmountToBuy = 0
     THEN [paid EXCEPT !.deletedOrders[id] = o, !.openOrders[id] = None]
     ELSE [paid EXCEPT !.openOrders[id] = o]

\* One side of a match on the token of state ts: a copy of the open order id
\* buys bought and sells sold, and the owner of the other order is credited.  An
\* order with nothing left to buy is deleted, and what it has left to sell
\* refunded.
FillOrder(ts, id, order, bought, sold, counterparty, credit) ==
  LET o == Reduced(order, bought, sold)
      paid == [ts EXCEPT !.unclaimedFunds[counterparty] = Plus(@, credit),
                         !.orderUpdatesCount[id] = @ + 1]
  IN IF o.AmountToBuy = 0
     THEN [paid EXCEPT !.unclaimedFunds[o.SellerAddress] = Plus(@, o.AmountToSell),
                       !.deletedOrders[id] = o,
                       !.openOrders[id] = None]
     ELSE [paid EXCEPT !.openOrders[id] = o]

\* GetBuySellOrdersForMatch looks among the deleted orders first.
OrderForMatch(ts, id) ==
  IF ts.deletedOrders[id] # None THEN ts.deletedOrders[id] ELSE ts.openOrders[id]

\* Mutant: the refund stays.
Undelete_KeepsRefund(ts, id, order) == [ts EXCEPT !.deletedOrders[id] = None]

\* One side of a match undone, in two parts.  If the order is deleted its refund
\* is taken back, without a check that it is still unclaimed.  Then the order, as
\* it was before the match, is open.
Undelete(ts, id, order) ==
  IF ts.deletedOrders[id] = None THEN ts
  ELSE [ts EXCEPT
          !.unclaimedFunds[order.SellerAddress] = Minus(@, order.AmountToSell),
          !.deletedOrders[id] = None]

\* Mutant: the update counter stays.
Reopen_KeepsCounter(ts, id, order, bought, sold, counterparty, credit) ==
  [ts EXCEPT !.unclaimedFunds[counterparty] = Minus(@, credit),
             !.openOrders[id] = Restored(order, bought, sold)]

Reopen(ts, id, order, bought, sold, counterparty, credit) ==
  [ts EXCEPT !.unclaimedFunds[counterparty] = Minus(@, credit),
             !.orderUpdatesCount[id] = @ - 1,
             !.openOrders[id] = Restored(order, bought, sold)]

-----------------------------------------------------------------------------
\* The state of a token just created, once the genesis block of its chain has
\* claimed the whole supply for the creator.
UnclaimedToken(supply, creator) ==
  [openOrders        |-> [id \in OrderIDs |-> None],
   orderUpdatesCount |-> [id \in OrderIDs |-> None],
   balances          |-> [a \in Addresses |-> 0],
   unclaimedFunds    |-> [a \in Addresses |-> IF a = creator THEN supply ELSE 0],
   deletedOrders     |-> [id \in OrderIDs |-> None],
   usedTransferIDs   |-> {},
   usedFreezeIDs     |-> {},
   frozenTokenStore  |-> [h \in Heights |-> [a \in Addresses |-> 0]],
   totalSupply       |-> supply]

NewToken(supply, creator) ==
  AddClaimFunds(UnclaimedToken(supply, creator),
                [Address |-> creator, Amount |-> supply])

\* NewConsensusState: no token exists.
NewConsensusState ==
  [tokenStates |-> [s \in Symbols |-> None], usedMatchIDs |-> {}]

-----------------------------------------------------------------------------
\* The transactions on a whole state.

Exists(cs, symbol) == cs.tokenStates[symbol] # None

\* addGenericTransaction answers true.  It never does for a cancel: the result
\* of AddCancelOrder is not assigned.
Accepted(cs, tx) ==
  \/ /\ tx.type \in {"ORDER", "CLAIM_FUNDS", "TRANSFER", "FREEZE"}
     /\ Exists(cs, tx.chain)
     /\ TokenTxAccepted(cs.tokenStates[tx.chain], tx)
  \/ /\ tx.type = "MATCH"
     /\ tx.MatchID \notin cs.usedMatchIDs
     /\ Exists(cs, tx.BuySymbol)
     /\ Exists(cs, tx.SellSymbol)
     /\ MatchAccepted(cs.tokenStates[tx.BuySymbol],
                      cs.tokenStates[tx.SellSymbol], tx)
  \/ /\ tx.type = "CREATE_TOKEN"
     /\ ~Exists(cs, tx.Symbol)

\* The two orders are copies, written back the seller's first: with two tokens
\* that is all the same, but nothing here refuses a match of a token with itself,
\* nor of an order with itself, and then the buyer's copy is what is left.
AddMatch(cs, m) ==
  LET buy == cs.tokenStates[m.BuySymbol].openOrders[m.BuyOrderID]
      sell == cs.tokenStates[m.SellSymbol].openOrders[m.SellOrderID]
  IN [tokenStates |->
        [cs.tokenStates EXCEPT
           ![m.SellSymbol] = FillOrder(@, m.SellOrderID, sell, m.SellerGain,
                                       m.TransferAmt, buy.SellerAddress, m.TransferAmt),
           ![m.BuySymbol] = FillOrder(@, m.BuyOrderID, buy, m.TransferAmt,
                                      m.BuyerLoss, sell.SellerAddress, m.SellerGain)],
      usedMatchIDs |-> cs.usedMatchIDs \cup {m.MatchID}]

\* Applied(cs, tx), for an accepted transaction.
Applied(cs, tx) ==
  CASE tx.type = "MATCH" -> AddMatch(cs, tx)
    [] tx.type = "CREATE_TOKEN" ->
         [cs EXCEPT !.tokenStates[tx.Symbol] =
                      NewToken(tx.TotalSupply, tx.CreatorAddress)]
    [] OTHER -> [cs EXCEPT !.tokenStates[tx.chain] = TokenTxApplied(@, tx)]

\* The half of a cancel that happens although the transaction is rejected: the
\* order is closed and its amount can be claimed, but it is not deleted either.
CancelTakesEffect(cs, c) ==
  /\ Exists(cs, c.OrderSymbol)
  /\ cs.tokenStates[c.OrderSymbol].openOrders[c.OrderID] # None

AddCancelOrder(cs, c) ==
  LET o == cs.tokenStates[c.OrderSymbol].openOrders[c.OrderID]
  IN [cs EXCEPT !.tokenStates[c.OrderSymbol] =
        [@ EXCEPT !.unclaimedFunds[o.SellerAddress] = Plus(@, o.AmountToSell),
                  !.openOrders[c.OrderID] = None,
                  !.orderUpdatesCount[c.OrderID] = @ + 1]]

\* What is left of a rejected transaction.
AfterRejected(cs, tx) ==
  IF tx.type = "CANCEL_ORDER" /\ CancelTakesEffect(cs, tx)
  THEN AddCancelOrder(cs, tx)
  ELSE cs

-----------------------------------------------------------------------------
\* Undoing.

\* A match is only undone when what it paid is still unclaimed; otherwise, or
\* when one of its orders is in neither map, the code panics.  The seller's gain
\* is taken back before the buyer's is looked at.
MatchUndoable(cs, m) ==
  /\ Exists(cs, m.BuySymbol)
  /\ Exists(cs, m.SellSymbol)
  /\ LET bs == cs.tokenStates[m.BuySymbol]
         ss == cs.tokenStates[m.SellSymbol]
         buy == OrderForMatch(bs, m.BuyOrderID)
         sell == OrderForMatch(ss, m.SellOrderID)
         paid == [cs.tokenStates EXCEPT
                    ![m.BuySymbol].unclaimedFunds[sell.SellerAddress] =
                       Minus(@, m.SellerGain)]
     IN /\ buy # None
        /\ sell # None
        /\ bs.unclaimedFunds[sell.SellerAddress] >= m.SellerGain
        /\ paid[m.SellSymbol].unclaimedFunds[buy.SellerAddress] >= m.TransferAmt

\* An order with updates left sends the code to roll back the match chain; an
\* order without a counter makes it panic.
OrderUndoable(cs, tx) ==
  /\ Exists(cs, tx.chain)
  /\ cs.tokenStates[tx.chain].orderUpdatesCount[tx.order.ID] = 0

\* The transaction can be undone at once, without a panic and without rolling
\* back another chain.
Undoable(cs, tx) ==
  CASE tx.type = "MATCH" -> MatchUndoable(cs, tx)
    [] tx.type = "ORDER" -> OrderUndoable(cs, tx)
    [] tx.type = "CREATE_TOKEN" -> Exists(cs, tx.Symbol)
    [] OTHER -> Exists(cs, tx.chain)

RollbackMatch(cs, m) ==
  LET buy == OrderForMatch(cs.tokenStates[m.BuySymbol], m.BuyOrderID)
      sell == OrderForMatch(cs.tokenStates[m.SellSymbol], m.SellOrderID)
      undeleted == [cs.tokenStates EXCEPT
                      ![m.BuySymbol] = Undelete(@, m.BuyOrderID, buy),
                      ![m.SellSymbol] = Undelete(@, m.SellOrderID, sell)]
  IN [tokenStates |->
        [undeleted EXCEPT
           ![m.SellSymbol] = Reopen(@, m.SellOrderID, sell, m.SellerGain,
                                    m.TransferAmt, buy.SellerAddress, m.TransferAmt),
           ![m.BuySymbol] = Reopen(@, m.BuyOrderID, buy, m.TransferAmt,
                                   m.BuyerLoss, sell.SellerAddress, m.SellerGain)],
      usedMatchIDs |-> cs.usedMatchIDs \ {m.MatchID}]

\* Undone(cs, tx), for an undoable transaction.
Undone(cs, tx) ==
  CASE tx.type = "MATCH" -> RollbackMatch(cs, tx)
    [] tx.type = "CREATE_TOKEN" -> [cs EXCEPT !.tokenStates[tx.Symbol] = None]
    [] OTHER -> [cs EXCEPT !.tokenStates[tx.chain] = TokenTxUndone(@, tx)]

-----------------------------------------------------------------------------
\* Invariants of a ledger that its rollbacks rely on.

\* An order is open or deleted, never both, and has an update counter exactly
\* while it is one of the two; a deleted order has nothing left to buy.
OrdersFiled(ts) ==
  \A id \in OrderIDs :
    /\ ts.openOrders[id] = None \/ ts.deletedOrders[id] = None
    /\ ts.orderUpdatesCount[id] = None
         <=> ts.openOrders[id] = None /\ ts.deletedOrders[id] = None
    /\ ts.openOrders[id] # None => ts.openOrders[id].ID = id
    /\ ts.deletedOrders[id] # None => /\ ts.deletedOrders[id].ID = id
                                      /\ ts.deletedOrders[id].AmountToBuy = 0

LedgerFiled(cs) ==
  \A s \in Symbols : Exists(cs, s) => OrdersFiled(cs.tokenStates[s])

\* The matches of ms on order id, when it is on token s, and the other way round.
MatchesBuying(ms, s, id) == {m \in ms : m.BuySymbol = s /\ m.BuyOrderID = id}
MatchesSelling(ms, s, id) == {m \in ms : m.SellSymbol = s /\ m.SellOrderID = id}

\* With the matches ms in force, the counter of an order is how many of them are
\* on it, and the used match IDs are theirs.
CountedIn(ledger, ms) ==
  /\ ledger.usedMatchIDs = {m.MatchID : m \in ms}
  /\ \A s \in Symbols, id \in OrderIDs :
       Exists(ledger, s) /\ ledger.tokenStates[s].orderUpdatesCount[id] # None =>
         ledger.tokenStates[s].orderUpdatesCount[id]
           = Cardinality(MatchesBuying(ms, s, id)) + Cardinality(MatchesSelling(ms, s, id))

=============================================================================
