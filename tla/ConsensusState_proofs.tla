------------------------ MODULE ConsensusState_proofs ------------------------
(***************************************************************************)
(* What every transaction does to a ledger, for every value of the         *)
(* constants: it leads to a ledger, keeps its orders filed, and undoing it *)
(* gives back the ledger it was applied to.                                *)
(***************************************************************************)
EXTENDS ConsensusState, FiniteSetTheorems, TLAPS

-----------------------------------------------------------------------------
\* uint64 arithmetic.

\* An amount is a natural below the modulus.
LEMMA AmountIsNat ==
  ASSUME NEW a \in Amount
  PROVE  a \in Nat /\ a < Modulus
BY ModulusAssumption DEF Amount

\* A sum of amounts is an amount.
LEMMA PlusType ==
  ASSUME NEW a \in Amount, NEW b \in Amount
  PROVE  Plus(a, b) \in Amount
BY ModulusAssumption DEF Amount, Plus

\* A difference of amounts is an amount.
LEMMA MinusType ==
  ASSUME NEW a \in Amount, NEW b \in Amount
  PROVE  Minus(a, b) \in Amount
BY ModulusAssumption DEF Amount, Minus

\* Subtracting takes back what was added, even when the sum wrapped.
LEMMA MinusOfPlus ==
  ASSUME NEW a \in Amount, NEW b \in Amount
  PROVE  Minus(Plus(a, b), b) = a
BY ModulusAssumption DEF Amount, Plus, Minus

\* Adding takes back what was subtracted, even when the difference wrapped.
LEMMA PlusOfMinus ==
  ASSUME NEW a \in Amount, NEW b \in Amount
  PROVE  Plus(Minus(a, b), b) = a
BY ModulusAssumption DEF Amount, Plus, Minus

-----------------------------------------------------------------------------
\* Types.

\* Placing an order leads to a state of the token.
LEMMA OrderAddedType ==
  ASSUME NEW ts \in TokenState, NEW o \in Order
  PROVE  AddOrder(ts, o) \in TokenState
<1>1. /\ o.ID \in OrderIDs
      /\ o.SellerAddress \in Addresses
      /\ o.AmountToSell \in Amount
  BY DEF Order
<1>2. Minus(ts.balances[o.SellerAddress], o.AmountToSell) \in Amount
  BY <1>1, MinusType DEF TokenState
<1> DEFINE opened == [ts.openOrders EXCEPT ![o.ID] = o]
           paid == [ts.balances EXCEPT ![o.SellerAddress] = Minus(@, o.AmountToSell)]
           counts == [ts.orderUpdatesCount EXCEPT ![o.ID] = 0]
<1>3. opened \in [OrderIDs -> Order \cup {None}]
  BY <1>1 DEF TokenState
<1>4. paid \in [Addresses -> Amount]
  BY <1>1, <1>2 DEF TokenState
<1>5. counts \in [OrderIDs -> Int \cup {None}]
  BY <1>1 DEF TokenState
<1>6. AddOrder(ts, o) = [ts EXCEPT !.openOrders = opened, !.balances = paid,
                                   !.orderUpdatesCount = counts]
  BY DEF AddOrder
<1> QED BY <1>3, <1>4, <1>5, <1>6 DEF TokenState

\* Claiming funds leads to a state of the token.
LEMMA ClaimAddedType ==
  ASSUME NEW ts \in TokenState, NEW c, c.Address \in Addresses, c.Amount \in Amount
  PROVE  AddClaimFunds(ts, c) \in TokenState
<1>1. /\ Minus(ts.unclaimedFunds[c.Address], c.Amount) \in Amount
      /\ Plus(ts.balances[c.Address], c.Amount) \in Amount
  BY MinusType, PlusType DEF TokenState
<1> QED BY <1>1 DEF AddClaimFunds, TokenState

\* Moving an amount keeps every balance an amount.
LEMMA MovedType ==
  ASSUME NEW b \in [Addresses -> Amount], NEW from \in Addresses,
         NEW to \in Addresses, NEW amount \in Amount
  PROVE  Moved(b, from, to, amount) \in [Addresses -> Amount]
<1> DEFINE taken == [b EXCEPT ![from] = Minus(@, amount)]
<1>1. Minus(b[from], amount) \in Amount
  BY MinusType
<1>2. taken \in [Addresses -> Amount]
  BY <1>1
<1>3. Plus(taken[to], amount) \in Amount
  BY <1>2, PlusType
<1> QED BY <1>2, <1>3 DEF Moved

\* A transfer leads to a state of the token.
LEMMA TransferAddedType ==
  ASSUME NEW ts \in TokenState, NEW tr \in TransferTx
  PROVE  AddTransfer(ts, tr) \in TokenState
<1>1. Moved(ts.balances, tr.FromAddress, tr.ToAddress, tr.Amount)
        \in [Addresses -> Amount]
  BY MovedType DEF TokenState, TransferTx
<1> QED BY <1>1 DEF AddTransfer, TokenState, TransferTx

\* A freeze leads to a state of the token.
LEMMA FreezeAddedType ==
  ASSUME NEW ts \in TokenState, NEW f \in FreezeTx
  PROVE  AddFreeze(ts, f) \in TokenState
<1>1. /\ Minus(ts.balances[f.FromAddress], f.Amount) \in Amount
      /\ Plus(ts.frozenTokenStore[f.UnfreezeBlock][f.FromAddress], f.Amount) \in Amount
  BY MinusType, PlusType DEF TokenState, FreezeTx
<1> QED BY <1>1 DEF AddFreeze, TokenState, FreezeTx

-----------------------------------------------------------------------------
\* Matches.  An order that a match of two tokens fills is Filled on its own token,
\* and Unfilled when the match is undone.
Filled(ts, id, bought, sold, counterparty, credit) ==
  FillOrder(ts, id, ts.openOrders[id], bought, sold, counterparty, credit)

Unfilled(ts, id, bought, sold, counterparty, credit) ==
  LET o == OrderForMatch(ts, id)
  IN Reopen(Undelete(ts, id, o), id, o, bought, sold, counterparty, credit)

\* The code does not ask that the tokens of a match be two.  What is proved here and
\* in the modules that extend this one is about transactions that do.
BetweenTokens(tx) == tx.type = "MATCH" => tx.BuySymbol # tx.SellSymbol

\* With two tokens no side of a match sees what the other does.
LEMMA AddMatchOfTwo ==
  ASSUME NEW cs \in State, NEW m \in MatchTx, m.BuySymbol # m.SellSymbol
  PROVE  LET bs == cs.tokenStates[m.BuySymbol]
             ss == cs.tokenStates[m.SellSymbol]
         IN AddMatch(cs, m) =
              [tokenStates |->
                 [cs.tokenStates EXCEPT
                    ![m.BuySymbol] = Filled(bs, m.BuyOrderID, m.TransferAmt, m.BuyerLoss,
                                            ss.openOrders[m.SellOrderID].SellerAddress,
                                            m.SellerGain),
                    ![m.SellSymbol] = Filled(ss, m.SellOrderID, m.SellerGain, m.TransferAmt,
                                             bs.openOrders[m.BuyOrderID].SellerAddress,
                                             m.TransferAmt)],
               usedMatchIDs |-> cs.usedMatchIDs \cup {m.MatchID}]
<1>1. /\ m.BuySymbol \in Symbols /\ m.SellSymbol \in Symbols
      /\ cs.tokenStates \in [Symbols -> TokenState \cup {None}]
  BY DEF MatchTx, State
<1> QED BY <1>1 DEF AddMatch, Filled

LEMMA RollbackMatchOfTwo ==
  ASSUME NEW cs \in State, NEW m \in MatchTx, m.BuySymbol # m.SellSymbol
  PROVE  LET bs == cs.tokenStates[m.BuySymbol]
             ss == cs.tokenStates[m.SellSymbol]
         IN RollbackMatch(cs, m) =
              [tokenStates |->
                 [cs.tokenStates EXCEPT
                    ![m.BuySymbol] = Unfilled(bs, m.BuyOrderID, m.TransferAmt, m.BuyerLoss,
                                              OrderForMatch(ss, m.SellOrderID).SellerAddress,
                                              m.SellerGain),
                    ![m.SellSymbol] = Unfilled(ss, m.SellOrderID, m.SellerGain, m.TransferAmt,
                                               OrderForMatch(bs, m.BuyOrderID).SellerAddress,
                                               m.TransferAmt)],
               usedMatchIDs |-> cs.usedMatchIDs \ {m.MatchID}]
<1>1. /\ m.BuySymbol \in Symbols /\ m.SellSymbol \in Symbols
      /\ cs.tokenStates \in [Symbols -> TokenState \cup {None}]
  BY DEF MatchTx, State
<1> QED BY <1>1 DEF RollbackMatch, Unfilled

LEMMA UndoableMatchOfTwo ==
  ASSUME NEW cs \in State, NEW m \in MatchTx, m.BuySymbol # m.SellSymbol
  PROVE  LET bs == cs.tokenStates[m.BuySymbol]
             ss == cs.tokenStates[m.SellSymbol]
             buy == OrderForMatch(bs, m.BuyOrderID)
             sell == OrderForMatch(ss, m.SellOrderID)
         IN MatchUndoable(cs, m) <=>
              /\ Exists(cs, m.BuySymbol) /\ Exists(cs, m.SellSymbol)
              /\ buy # None /\ sell # None
              /\ bs.unclaimedFunds[sell.SellerAddress] >= m.SellerGain
              /\ ss.unclaimedFunds[buy.SellerAddress] >= m.TransferAmt
<1>1. /\ m.BuySymbol \in Symbols /\ m.SellSymbol \in Symbols
      /\ cs.tokenStates \in [Symbols -> TokenState \cup {None}]
  BY DEF MatchTx, State
<1> QED BY <1>1 DEF MatchUndoable

\* What the fields of an order become when it is filled.
LEMMA OrderFilledType ==
  ASSUME NEW o \in Order, NEW bought \in Amount, NEW sold \in Amount
  PROVE  /\ Reduced(o, bought, sold) \in Order
         /\ Restored(o, bought, sold) \in Order
         /\ Reduced(o, bought, sold).ID = o.ID
         /\ Reduced(o, bought, sold).SellerAddress = o.SellerAddress
         /\ Restored(Reduced(o, bought, sold), bought, sold) = o
<1>1. /\ Minus(o.AmountToBuy, bought) \in Amount
      /\ Minus(o.AmountToSell, sold) \in Amount
      /\ Plus(o.AmountToBuy, bought) \in Amount
      /\ Plus(o.AmountToSell, sold) \in Amount
  BY MinusType, PlusType DEF Order
<1>2. /\ Plus(Minus(o.AmountToBuy, bought), bought) = o.AmountToBuy
      /\ Plus(Minus(o.AmountToSell, sold), sold) = o.AmountToSell
  BY PlusOfMinus DEF Order
<1> QED BY <1>1, <1>2 DEF Order, Reduced, Restored

\* One side of a match leads to a state of the token.
LEMMA FilledType ==
  ASSUME NEW ts \in TokenState, NEW id \in OrderIDs, ts.openOrders[id] # None,
         ts.orderUpdatesCount[id] # None,
         NEW bought \in Amount, NEW sold \in Amount,
         NEW counterparty \in Addresses, NEW credit \in Amount
  PROVE  Filled(ts, id, bought, sold, counterparty, credit) \in TokenState
<1> DEFINE o == Reduced(ts.openOrders[id], bought, sold)
           paid == [ts EXCEPT !.unclaimedFunds[counterparty] = Plus(@, credit),
                              !.orderUpdatesCount[id] = @ + 1]
<1>1. ts.openOrders[id] \in Order
  BY DEF TokenState
<1>2. o \in Order
  BY <1>1, OrderFilledType
<1>3. o.SellerAddress \in Addresses /\ o.AmountToSell \in Amount
  BY <1>2 DEF Order
<1>4. paid \in TokenState
  <2>1. Plus(ts.unclaimedFunds[counterparty], credit) \in Amount
    BY PlusType DEF TokenState
  <2>2. ts.orderUpdatesCount[id] + 1 \in Int
    BY DEF TokenState
  <2> QED BY <2>1, <2>2 DEF TokenState
<1> HIDE DEF o, paid
<1>5. CASE o.AmountToBuy = 0
  <2>1. Plus(paid.unclaimedFunds[o.SellerAddress], o.AmountToSell) \in Amount
    BY <1>3, <1>4, PlusType DEF TokenState
  <2>2. [paid EXCEPT !.unclaimedFunds[o.SellerAddress] = Plus(@, o.AmountToSell),
                     !.deletedOrders[id] = o,
                     !.openOrders[id] = None] \in TokenState
    BY <1>2, <1>4, <2>1 DEF TokenState
  <2> QED BY <1>5, <2>2 DEF Filled, FillOrder, o, paid
<1>6. CASE o.AmountToBuy # 0
  <2>1. [paid EXCEPT !.openOrders[id] = o] \in TokenState
    BY <1>2, <1>4 DEF TokenState
  <2> QED BY <1>6, <2>1 DEF Filled, FillOrder, o, paid
<1> QED BY <1>5, <1>6

\* One side of a match adds one to the counter of its order.
LEMMA FilledCounts ==
  ASSUME NEW ts \in TokenState, NEW id \in OrderIDs, ts.openOrders[id] # None,
         NEW bought, NEW sold, NEW counterparty, NEW credit
  PROVE  LET us == Filled(ts, id, bought, sold, counterparty, credit)
         IN /\ us.orderUpdatesCount
                 = [ts.orderUpdatesCount EXCEPT ![id] = ts.orderUpdatesCount[id] + 1]
            /\ us.totalSupply = ts.totalSupply
BY DEF Filled, FillOrder, TokenState

-----------------------------------------------------------------------------
\* Undoing the transaction just applied gives back the state of the token.

\* Rolling back an order gives back the state it was placed in.
LEMMA OrderUndone ==
  ASSUME NEW ts \in TokenState, OrdersFiled(ts), NEW o \in Order,
         OrderAccepted(ts, o)
  PROVE  RollbackOrder(AddOrder(ts, o), o) = ts
<1> DEFINE after == AddOrder(ts, o)
<1>1. /\ o.ID \in OrderIDs
      /\ o.SellerAddress \in Addresses
      /\ o.AmountToSell \in Amount
  BY DEF Order
<1>2. /\ ts.openOrders[o.ID] = None
      /\ ts.orderUpdatesCount[o.ID] = None
  BY <1>1 DEF OrderAccepted, OrdersFiled
<1>3. Plus(after.balances[o.SellerAddress], o.AmountToSell)
        = ts.balances[o.SellerAddress]
  BY <1>1, PlusOfMinus DEF TokenState, AddOrder
<1>4. [after.openOrders EXCEPT ![o.ID] = None] = ts.openOrders
  BY <1>1, <1>2 DEF TokenState, AddOrder
<1>5. [after.orderUpdatesCount EXCEPT ![o.ID] = None] = ts.orderUpdatesCount
  BY <1>1, <1>2 DEF TokenState, AddOrder
<1>6. [after.balances EXCEPT ![o.SellerAddress] = Plus(@, o.AmountToSell)]
        = ts.balances
  BY <1>1, <1>3 DEF TokenState, AddOrder
<1>7. RollbackOrder(after, o)
        = [ts EXCEPT !.openOrders = ts.openOrders, !.balances = ts.balances,
                     !.orderUpdatesCount = ts.orderUpdatesCount]
  BY <1>4, <1>5, <1>6 DEF RollbackOrder, AddOrder, TokenState
<1> QED BY <1>7 DEF TokenState

\* Rolling back a claim gives back the state it was made in.
LEMMA ClaimUndone ==
  ASSUME NEW ts \in TokenState, NEW c, c.Address \in Addresses, c.Amount \in Amount
  PROVE  RollbackClaimFunds(AddClaimFunds(ts, c), c) = ts
<1> DEFINE after == AddClaimFunds(ts, c)
<1>1. /\ Plus(after.unclaimedFunds[c.Address], c.Amount)
           = ts.unclaimedFunds[c.Address]
      /\ Minus(after.balances[c.Address], c.Amount) = ts.balances[c.Address]
  BY PlusOfMinus, MinusOfPlus DEF TokenState, AddClaimFunds
<1>2. /\ [after.unclaimedFunds EXCEPT ![c.Address] = Plus(@, c.Amount)]
           = ts.unclaimedFunds
      /\ [after.balances EXCEPT ![c.Address] = Minus(@, c.Amount)] = ts.balances
  BY <1>1 DEF TokenState, AddClaimFunds
<1>3. RollbackClaimFunds(after, c)
        = [ts EXCEPT !.unclaimedFunds = ts.unclaimedFunds, !.balances = ts.balances]
  BY <1>2 DEF RollbackClaimFunds, AddClaimFunds, TokenState
<1> QED BY <1>3 DEF TokenState

\* Moving an amount back restores the balances, also when it was moved from an
\* address to itself.
LEMMA MovedBack ==
  ASSUME NEW b \in [Addresses -> Amount], NEW from \in Addresses,
         NEW to \in Addresses, NEW amount \in Amount
  PROVE  Moved(Moved(b, from, to, amount), to, from, amount) = b
<1> DEFINE taken == [b EXCEPT ![from] = Minus(@, amount)]
           moved == Moved(b, from, to, amount)
<1>1. Minus(b[from], amount) \in Amount
  BY MinusType
<1>2. taken \in [Addresses -> Amount]
  BY <1>1
<1>3. Minus(moved[to], amount) = taken[to]
  BY <1>2, MinusOfPlus DEF Moved
<1>4. [moved EXCEPT ![to] = Minus(@, amount)] = taken
  BY <1>2, <1>3 DEF Moved
<1>5. Plus(taken[from], amount) = b[from]
  BY PlusOfMinus
<1>6. [taken EXCEPT ![from] = Plus(@, amount)] = b
  BY <1>5
<1> QED BY <1>4, <1>6 DEF Moved

\* Rolling back a transfer gives back the state it was made in, also when the
\* two addresses are the same.
LEMMA TransferUndone ==
  ASSUME NEW ts \in TokenState, NEW tr \in TransferTx, TransferAccepted(ts, tr)
  PROVE  RollbackTransfer(AddTransfer(ts, tr), tr) = ts
<1> DEFINE after == AddTransfer(ts, tr)
<1>1. Moved(after.balances, tr.ToAddress, tr.FromAddress, tr.Amount) = ts.balances
  BY MovedBack DEF AddTransfer, TokenState, TransferTx
<1>2. after.usedTransferIDs \ {tr.ID} = ts.usedTransferIDs
  BY DEF AddTransfer, TokenState, TransferAccepted
<1>3. RollbackTransfer(after, tr)
        = [ts EXCEPT !.balances = ts.balances, !.usedTransferIDs = ts.usedTransferIDs]
  BY <1>1, <1>2 DEF RollbackTransfer, AddTransfer, TokenState
<1> QED BY <1>3 DEF TokenState

\* Rolling back a freeze gives back the state it was made in.
LEMMA FreezeUndone ==
  ASSUME NEW ts \in TokenState, NEW f \in FreezeTx, FreezeAccepted(ts, f)
  PROVE  RollbackFreeze(AddFreeze(ts, f), f) = ts
<1> DEFINE after == AddFreeze(ts, f)
           h == f.UnfreezeBlock
           a == f.FromAddress
<1>1. h \in Heights /\ a \in Addresses /\ f.Amount \in Amount
  BY DEF FreezeTx
<1>2. /\ Plus(after.balances[a], f.Amount) = ts.balances[a]
      /\ Minus(after.frozenTokenStore[h][a], f.Amount) = ts.frozenTokenStore[h][a]
  BY <1>1, PlusOfMinus, MinusOfPlus DEF TokenState, AddFreeze
<1>3. [after.balances EXCEPT ![a] = Plus(@, f.Amount)] = ts.balances
  BY <1>1, <1>2 DEF TokenState, AddFreeze
<1>4. [after.frozenTokenStore EXCEPT ![h][a] = Minus(@, f.Amount)]
        = ts.frozenTokenStore
  BY <1>1, <1>2 DEF TokenState, AddFreeze
<1>5. after.usedFreezeIDs \ {f.ID} = ts.usedFreezeIDs
  BY DEF AddFreeze, TokenState, FreezeAccepted
<1>6. RollbackFreeze(after, f)
        = [after EXCEPT !.balances = ts.balances,
                        !.frozenTokenStore = ts.frozenTokenStore,
                        !.usedFreezeIDs = ts.usedFreezeIDs]
  <2>1. RollbackFreeze(after, f)
          = [after EXCEPT
               !.balances = [after.balances EXCEPT ![a] = Plus(@, f.Amount)],
               !.frozenTokenStore = [after.frozenTokenStore EXCEPT
                                       ![h][a] = Minus(@, f.Amount)],
               !.usedFreezeIDs = after.usedFreezeIDs \ {f.ID}]
    <3> HIDE DEF after
    <3> QED BY DEF RollbackFreeze
  <2> HIDE DEF after, h, a
  <2> QED BY <2>1, <1>3, <1>4, <1>5
<1>7. [after EXCEPT !.balances = ts.balances,
                    !.frozenTokenStore = ts.frozenTokenStore,
                    !.usedFreezeIDs = ts.usedFreezeIDs] = ts
  BY DEF AddFreeze, TokenState
<1> QED BY <1>6, <1>7

-----------------------------------------------------------------------------
\* One side of a match.

\* The order of a fill is found again, filled, in the map it was filed in; an
\* order that is filed in neither map before is not affected.
LEMMA OrderAfterFill ==
  ASSUME NEW ts \in TokenState, OrdersFiled(ts),
         NEW id \in OrderIDs, ts.openOrders[id] # None,
         NEW bought \in Amount, NEW sold \in Amount,
         NEW counterparty \in Addresses, NEW credit \in Amount
  PROVE  /\ OrderForMatch(Filled(ts, id, bought, sold, counterparty, credit), id)
              = Reduced(ts.openOrders[id], bought, sold)
         /\ OrderForMatch(Filled(ts, id, bought, sold, counterparty, credit), id) # None
         /\ OrderForMatch(Filled(ts, id, bought, sold, counterparty, credit),
                          id).SellerAddress = ts.openOrders[id].SellerAddress
<1> DEFINE o == Reduced(ts.openOrders[id], bought, sold)
           after == Filled(ts, id, bought, sold, counterparty, credit)
<1>1. ts.openOrders[id] \in Order
  BY DEF TokenState
<1>2. o \in Order
  BY <1>1, OrderFilledType
<1>3. o # None
  BY <1>2, NoneAssumption
<1>4. o.SellerAddress = ts.openOrders[id].SellerAddress
  BY <1>1, OrderFilledType
<1> HIDE DEF o
<1>5. after.openOrders[id] = (IF o.AmountToBuy = 0 THEN None ELSE o)
  BY DEF Filled, FillOrder, TokenState, o
<1>6. after.deletedOrders[id] = (IF o.AmountToBuy = 0 THEN o ELSE None)
  BY DEF Filled, FillOrder, TokenState, OrdersFiled, o
<1>7. OrderForMatch(after, id) = o
  BY <1>3, <1>5, <1>6 DEF OrderForMatch
<1> QED BY <1>3, <1>4, <1>7 DEF o

\* One side of a match leaves the orders of the token filed.
LEMMA FilledFiled ==
  ASSUME NEW ts \in TokenState, OrdersFiled(ts),
         NEW id \in OrderIDs, ts.openOrders[id] # None,
         NEW bought \in Amount, NEW sold \in Amount,
         NEW counterparty \in Addresses, NEW credit \in Amount
  PROVE  OrdersFiled(Filled(ts, id, bought, sold, counterparty, credit))
<1> DEFINE o == Reduced(ts.openOrders[id], bought, sold)
           after == Filled(ts, id, bought, sold, counterparty, credit)
<1>1. ts.openOrders[id] \in Order
  BY DEF TokenState
<1>2. o # None /\ o.ID = id
  <2>1. o \in Order /\ o.ID = ts.openOrders[id].ID
    BY <1>1, OrderFilledType
  <2> QED BY <2>1, NoneAssumption DEF OrdersFiled
<1>3. ts.orderUpdatesCount[id] + 1 # None
  <2>1. ts.orderUpdatesCount[id] \in Int
    BY DEF TokenState, OrdersFiled
  <2> QED BY <2>1, NoneAssumption
<1> HIDE DEF o
<1>4. /\ after.openOrders =
           [ts.openOrders EXCEPT ![id] = IF o.AmountToBuy = 0 THEN None ELSE o]
      /\ after.deletedOrders =
           IF o.AmountToBuy = 0 THEN [ts.deletedOrders EXCEPT ![id] = o]
                                ELSE ts.deletedOrders
      /\ after.orderUpdatesCount = [ts.orderUpdatesCount EXCEPT ![id] = @ + 1]
  BY DEF Filled, FillOrder, TokenState, o
<1> HIDE DEF after
<1>5. ASSUME NEW i \in OrderIDs, i # id
      PROVE  /\ after.openOrders[i] = ts.openOrders[i]
             /\ after.deletedOrders[i] = ts.deletedOrders[i]
             /\ after.orderUpdatesCount[i] = ts.orderUpdatesCount[i]
  BY <1>4, <1>5 DEF TokenState
<1>6. /\ after.openOrders[id] = (IF o.AmountToBuy = 0 THEN None ELSE o)
      /\ after.deletedOrders[id] = (IF o.AmountToBuy = 0 THEN o ELSE None)
      /\ after.orderUpdatesCount[id] # None
  BY <1>3, <1>4 DEF TokenState, OrdersFiled
<1>7. OrdersFiled(after)
  BY <1>2, <1>5, <1>6 DEF OrdersFiled
<1> QED BY <1>7 DEF after

\* Undoing a fill gives back the state of the token.
LEMMA FillUndone ==
  ASSUME NEW ts \in TokenState, OrdersFiled(ts),
         NEW id \in OrderIDs, ts.openOrders[id] # None,
         NEW bought \in Amount, NEW sold \in Amount,
         NEW counterparty \in Addresses, NEW credit \in Amount
  PROVE  Unfilled(Filled(ts, id, bought, sold, counterparty, credit),
                  id, bought, sold, counterparty, credit) = ts
<1> DEFINE o == Reduced(ts.openOrders[id], bought, sold)
           after == Filled(ts, id, bought, sold, counterparty, credit)
           owner == o.SellerAddress
           credited == [ts.unclaimedFunds EXCEPT ![counterparty] = Plus(@, credit)]
           counted == [ts.orderUpdatesCount EXCEPT ![id] = @ + 1]
<1>1. ts.openOrders[id] \in Order
  BY DEF TokenState
<1>2. o \in Order
  BY <1>1, OrderFilledType
<1>3. owner \in Addresses /\ o.AmountToSell \in Amount /\ o # None
  BY <1>2, NoneAssumption DEF Order
<1>4. ts.orderUpdatesCount[id] \in Int
  BY DEF TokenState, OrdersFiled
<1>5. ts.deletedOrders[id] = None
  BY DEF OrdersFiled
\* The order gets its amounts back.
<1>6. Restored(o, bought, sold) = ts.openOrders[id]
  BY <1>1, OrderFilledType
\* The credit is taken back.
<1>7. Plus(ts.unclaimedFunds[counterparty], credit) \in Amount
  BY PlusType DEF TokenState
<1>8. credited \in [Addresses -> Amount]
  BY <1>7 DEF TokenState
<1>9. [credited EXCEPT ![counterparty] = Minus(@, credit)] = ts.unclaimedFunds
  <2>1. Minus(credited[counterparty], credit) = ts.unclaimedFunds[counterparty]
    BY MinusOfPlus DEF TokenState
  <2> QED BY <2>1 DEF TokenState
\* The refund of a deleted order is taken back.
<1>10. LET refunded == [credited EXCEPT ![owner] = Plus(@, o.AmountToSell)]
       IN  [refunded EXCEPT ![owner] = Minus(@, o.AmountToSell)] = credited
  <2> DEFINE refunded == [credited EXCEPT ![owner] = Plus(@, o.AmountToSell)]
  <2>1. Minus(refunded[owner], o.AmountToSell) = credited[owner]
    BY <1>3, <1>8, MinusOfPlus
  <2> HIDE DEF credited, owner
  <2> QED BY <1>3, <1>8, <2>1
<1>11. [counted EXCEPT ![id] = @ - 1] = ts.orderUpdatesCount
  <2>1. (ts.orderUpdatesCount[id] + 1) - 1 = ts.orderUpdatesCount[id]
    BY <1>4
  <2> QED BY <2>1 DEF TokenState
<1>12. OrderForMatch(after, id) = o
  BY OrderAfterFill
<1> HIDE DEF o, credited, counted
<1>13. CASE o.AmountToBuy = 0
  <2> DEFINE refunded == [credited EXCEPT ![owner] = Plus(@, o.AmountToSell)]
  <2>1. after = [ts EXCEPT !.unclaimedFunds = refunded,
                           !.orderUpdatesCount = counted,
                           !.deletedOrders = [ts.deletedOrders EXCEPT ![id] = o],
                           !.openOrders = [ts.openOrders EXCEPT ![id] = None]]
    <3> DEFINE paid == [ts EXCEPT !.unclaimedFunds = credited,
                                  !.orderUpdatesCount = counted]
    <3>1. after = [paid EXCEPT !.unclaimedFunds[owner] = Plus(@, o.AmountToSell),
                               !.deletedOrders[id] = o,
                               !.openOrders[id] = None]
      BY <1>13 DEF Filled, FillOrder, o, credited, counted
    <3> QED BY <3>1 DEF TokenState
  <2>2. after.deletedOrders[id] # None
    BY <2>1, <1>3 DEF TokenState
  <2>3. /\ [[ts.deletedOrders EXCEPT ![id] = o] EXCEPT ![id] = None] = ts.deletedOrders
        /\ [[ts.openOrders EXCEPT ![id] = None] EXCEPT ![id] = ts.openOrders[id]]
             = ts.openOrders
    BY <1>5 DEF TokenState
  <2> DEFINE unrefunded ==
        [after EXCEPT !.unclaimedFunds[owner] = Minus(@, o.AmountToSell),
                      !.deletedOrders[id] = None]
  <2>4. Unfilled(after, id, bought, sold, counterparty, credit)
          = [unrefunded EXCEPT !.unclaimedFunds[counterparty] = Minus(@, credit),
                               !.orderUpdatesCount[id] = @ - 1,
                               !.openOrders[id] = ts.openOrders[id]]
    BY <2>2, <1>6, <1>12 DEF Unfilled, Undelete, Reopen
  <2>5. unrefunded = [ts EXCEPT !.unclaimedFunds = credited,
                                !.orderUpdatesCount = counted,
                                !.deletedOrders = ts.deletedOrders,
                                !.openOrders = [ts.openOrders EXCEPT ![id] = None]]
    BY <2>1, <2>3, <1>10 DEF TokenState
  <2> HIDE DEF unrefunded
  <2>6. Unfilled(after, id, bought, sold, counterparty, credit)
          = [ts EXCEPT !.unclaimedFunds = ts.unclaimedFunds,
                       !.orderUpdatesCount = ts.orderUpdatesCount,
                       !.deletedOrders = ts.deletedOrders,
                       !.openOrders = ts.openOrders]
    BY <2>3, <2>4, <2>5, <1>9, <1>11 DEF TokenState
  <2> QED BY <2>6 DEF TokenState
<1>14. CASE o.AmountToBuy # 0
  <2>1. after = [ts EXCEPT !.unclaimedFunds = credited,
                           !.orderUpdatesCount = counted,
                           !.openOrders = [ts.openOrders EXCEPT ![id] = o]]
    <3> DEFINE paid == [ts EXCEPT !.unclaimedFunds = credited,
                                  !.orderUpdatesCount = counted]
    <3>1. after = [paid EXCEPT !.openOrders[id] = o]
      BY <1>14 DEF Filled, FillOrder, o, credited, counted
    <3> QED BY <3>1 DEF TokenState
  <2>2. after.deletedOrders[id] = None
    BY <2>1, <1>5 DEF TokenState
  <2>3. [[ts.openOrders EXCEPT ![id] = o] EXCEPT ![id] = ts.openOrders[id]]
          = ts.openOrders
    BY DEF TokenState
  <2> DEFINE unrefunded ==
        IF after.deletedOrders[id] = None THEN after
        ELSE [after EXCEPT !.unclaimedFunds[owner] = Minus(@, o.AmountToSell),
                           !.deletedOrders[id] = None]
  <2>4. Unfilled(after, id, bought, sold, counterparty, credit)
          = [unrefunded EXCEPT !.unclaimedFunds[counterparty] = Minus(@, credit),
                               !.orderUpdatesCount[id] = @ - 1,
                               !.openOrders[id] = ts.openOrders[id]]
    BY <1>6, <1>12 DEF Unfilled, Undelete, Reopen
  <2>5. unrefunded = [ts EXCEPT !.unclaimedFunds = credited,
                                !.orderUpdatesCount = counted,
                                !.deletedOrders = ts.deletedOrders,
                                !.openOrders = [ts.openOrders EXCEPT ![id] = o]]
    BY <2>1, <2>2 DEF TokenState
  <2> HIDE DEF unrefunded
  <2>6. /\ [unrefunded.unclaimedFunds EXCEPT ![counterparty] = Minus(@, credit)]
             = ts.unclaimedFunds
        /\ [unrefunded.orderUpdatesCount EXCEPT ![id] = @ - 1]
             = ts.orderUpdatesCount
        /\ [unrefunded.openOrders EXCEPT ![id] = ts.openOrders[id]] = ts.openOrders
    BY <2>3, <2>5, <1>9, <1>11 DEF TokenState
  <2>7. Unfilled(after, id, bought, sold, counterparty, credit)
          = [unrefunded EXCEPT !.unclaimedFunds = ts.unclaimedFunds,
                               !.orderUpdatesCount = ts.orderUpdatesCount,
                               !.openOrders = ts.openOrders]
    BY <2>4, <2>6
  <2> QED BY <2>5, <2>7 DEF TokenState
<1> QED BY <1>13, <1>14

-----------------------------------------------------------------------------
\* The transactions of a token's chain.

\* A transaction is of the kind its type says.
LEMMA KindOfTx ==
  ASSUME NEW tx \in Transaction
  PROVE  /\ tx.type = "ORDER" => tx \in OrderTx
         /\ tx.type = "CLAIM_FUNDS" => tx \in ClaimTx
         /\ tx.type = "TRANSFER" => tx \in TransferTx
         /\ tx.type = "FREEZE" => tx \in FreezeTx
         /\ tx.type = "MATCH" => tx \in MatchTx
         /\ tx.type = "CREATE_TOKEN" => tx \in CreateTx
         /\ tx.type = "CANCEL_ORDER" => tx \in CancelTx
BY DEF Transaction, TokenTx, OrderTx, ClaimTx, TransferTx, FreezeTx, MatchTx,
       CreateTx, CancelTx

\* Placing an order leaves the orders of the token filed.
LEMMA OrderAddedFiled ==
  ASSUME NEW ts \in TokenState, OrdersFiled(ts), NEW o \in Order,
         OrderAccepted(ts, o)
  PROVE  OrdersFiled(AddOrder(ts, o))
<1>1. o.ID \in OrderIDs /\ o # None
  BY NoneAssumption DEF Order
<1>2. 0 # None
  BY NoneAssumption
<1> QED BY <1>1, <1>2 DEF OrdersFiled, OrderAccepted, AddOrder, TokenState

\* An accepted transaction leads to a state of the token with its orders filed,
\* and undoing it leads back.
LEMMA TokenTxStep ==
  ASSUME NEW ts \in TokenState, OrdersFiled(ts), NEW tx \in Transaction,
         TokenTxAccepted(ts, tx)
  PROVE  /\ TokenTxApplied(ts, tx) \in TokenState
         /\ OrdersFiled(TokenTxApplied(ts, tx))
         /\ TokenTxUndone(TokenTxApplied(ts, tx), tx) = ts
<1>1. CASE tx.type = "ORDER"
  <2>1. tx.order \in Order
    BY <1>1, KindOfTx DEF OrderTx
  <2>2. OrderAccepted(ts, tx.order)
    BY <1>1 DEF TokenTxAccepted
  <2>3. TokenTxApplied(ts, tx) = AddOrder(ts, tx.order)
    BY <1>1 DEF TokenTxApplied
  <2>4. TokenTxUndone(AddOrder(ts, tx.order), tx)
          = RollbackOrder(AddOrder(ts, tx.order), tx.order)
    BY <1>1 DEF TokenTxUndone
  <2> QED BY <2>1, <2>2, <2>3, <2>4, OrderAddedType, OrderAddedFiled, OrderUndone
<1>2. CASE tx.type = "CLAIM_FUNDS"
  <2>1. tx.Address \in Addresses /\ tx.Amount \in Amount
    BY <1>2, KindOfTx DEF ClaimTx
  <2>2. TokenTxApplied(ts, tx) = AddClaimFunds(ts, tx)
    BY <1>2 DEF TokenTxApplied
  <2>3. TokenTxUndone(AddClaimFunds(ts, tx), tx)
          = RollbackClaimFunds(AddClaimFunds(ts, tx), tx)
    BY <1>2 DEF TokenTxUndone
  <2>4. OrdersFiled(AddClaimFunds(ts, tx))
    BY DEF OrdersFiled, AddClaimFunds, TokenState
  <2> QED BY <2>1, <2>2, <2>3, <2>4, ClaimAddedType, ClaimUndone
<1>3. CASE tx.type = "TRANSFER"
  <2>1. tx \in TransferTx
    BY <1>3, KindOfTx
  <2>2. TransferAccepted(ts, tx)
    BY <1>3 DEF TokenTxAccepted
  <2>3. TokenTxApplied(ts, tx) = AddTransfer(ts, tx)
    BY <1>3 DEF TokenTxApplied
  <2>4. TokenTxUndone(AddTransfer(ts, tx), tx)
          = RollbackTransfer(AddTransfer(ts, tx), tx)
    BY <1>3 DEF TokenTxUndone
  <2>5. OrdersFiled(AddTransfer(ts, tx))
    BY DEF OrdersFiled, AddTransfer, TokenState
  <2> QED BY <2>1, <2>2, <2>3, <2>4, <2>5, TransferAddedType, TransferUndone
<1>4. CASE tx.type = "FREEZE"
  <2>1. tx \in FreezeTx
    BY <1>4, KindOfTx
  <2>2. FreezeAccepted(ts, tx)
    BY <1>4 DEF TokenTxAccepted
  <2>3. TokenTxApplied(ts, tx) = AddFreeze(ts, tx)
    BY <1>4 DEF TokenTxApplied
  <2>4. TokenTxUndone(AddFreeze(ts, tx), tx)
          = RollbackFreeze(AddFreeze(ts, tx), tx)
    BY <1>4 DEF TokenTxUndone
  <2>5. OrdersFiled(AddFreeze(ts, tx))
    BY DEF OrdersFiled, AddFreeze, TokenState
  <2> QED BY <2>1, <2>2, <2>3, <2>4, <2>5, FreezeAddedType, FreezeUndone
<1> QED BY <1>1, <1>2, <1>3, <1>4 DEF TokenTxAccepted

-----------------------------------------------------------------------------
\* A new token.

\* A token just created is a state with its orders filed.
LEMMA NewTokenStep ==
  ASSUME NEW supply \in Amount, NEW creator \in Addresses
  PROVE  /\ NewToken(supply, creator) \in TokenState
         /\ OrdersFiled(NewToken(supply, creator))
<1> DEFINE c == [Address |-> creator, Amount |-> supply]
           unclaimed == UnclaimedToken(supply, creator)
<1>1. 0 \in Amount
  BY ModulusAssumption DEF Amount
<1>2. unclaimed \in TokenState
  BY <1>1 DEF UnclaimedToken, TokenState
<1>3. NewToken(supply, creator) = AddClaimFunds(unclaimed, c)
  BY DEF NewToken
<1>4. c.Address \in Addresses /\ c.Amount \in Amount
  OBVIOUS
<1>5. OrdersFiled(unclaimed)
  BY DEF OrdersFiled, UnclaimedToken
<1> HIDE DEF c, unclaimed
<1>6. AddClaimFunds(unclaimed, c) \in TokenState
  BY <1>2, <1>4, ClaimAddedType
<1>7. OrdersFiled(AddClaimFunds(unclaimed, c))
  BY <1>2, <1>5 DEF OrdersFiled, AddClaimFunds, TokenState
<1> QED BY <1>3, <1>6, <1>7

-----------------------------------------------------------------------------
\* The transactions on the whole ledger.

\* A ledger with the state of one token replaced, and put back.
LEMMA OneTokenChanged ==
  ASSUME NEW cs \in State, LedgerFiled(cs), NEW s \in Symbols,
         NEW ts \in TokenState, OrdersFiled(ts)
  PROVE  LET after == [cs EXCEPT !.tokenStates[s] = ts]
         IN /\ after \in State
            /\ LedgerFiled(after)
            /\ after.tokenStates[s] = ts
            /\ ts # None
            /\ [after EXCEPT !.tokenStates[s] = cs.tokenStates[s]] = cs
<1> DEFINE after == [cs EXCEPT !.tokenStates[s] = ts]
<1>1. after \in State
  BY DEF State
<1>2. /\ after.tokenStates[s] = ts
      /\ \A other \in Symbols : other # s =>
           after.tokenStates[other] = cs.tokenStates[other]
  BY DEF State
<1>3. LedgerFiled(after)
  BY <1>2 DEF LedgerFiled, Exists
<1>4. [after EXCEPT !.tokenStates[s] = cs.tokenStates[s]] = cs
  BY DEF State
<1>5. ts # None
  BY NoneAssumption
<1> QED BY <1>1, <1>2, <1>3, <1>4, <1>5

\* What the lemmas on one transaction say together: the ledger it leads to, and
\* that undoing it leads back.
GoodStep(cs, tx) ==
  /\ Applied(cs, tx) \in State
  /\ LedgerFiled(Applied(cs, tx))
  /\ Undone(Applied(cs, tx), tx) = cs

\* A transaction of a token's chain is a good step of the ledger.
LEMMA TokenTxOnLedger ==
  ASSUME NEW cs \in State, LedgerFiled(cs), NEW tx \in Transaction, Accepted(cs, tx),
         tx.type \in {"ORDER", "CLAIM_FUNDS", "TRANSFER", "FREEZE"}
  PROVE  GoodStep(cs, tx)
<1> DEFINE s == tx.chain
           before == cs.tokenStates[s]
           ts == TokenTxApplied(before, tx)
           after == [cs EXCEPT !.tokenStates[s] = ts]
<1>1. s \in Symbols
  BY KindOfTx DEF OrderTx, ClaimTx, TransferTx, FreezeTx
<1>2. before \in TokenState /\ OrdersFiled(before) /\ TokenTxAccepted(before, tx)
  BY <1>1 DEF Accepted, Exists, LedgerFiled, State
<1>3. ts \in TokenState /\ OrdersFiled(ts) /\ TokenTxUndone(ts, tx) = before
  BY <1>2, TokenTxStep
<1>4. Applied(cs, tx) = after
  BY DEF Applied
<1>5. Undone(after, tx) = [after EXCEPT !.tokenStates[s] = TokenTxUndone(@, tx)]
  BY DEF Undone
<1> HIDE DEF s, before, ts
<1>6. /\ after \in State
      /\ LedgerFiled(after)
      /\ [after EXCEPT !.tokenStates[s] = cs.tokenStates[s]] = cs
  BY <1>1, <1>3, OneTokenChanged
<1>7. after.tokenStates[s] = ts
  BY <1>1 DEF State
<1>8. Undone(after, tx) = cs
  BY <1>3, <1>5, <1>6, <1>7 DEF before
<1> QED BY <1>4, <1>6, <1>8 DEF GoodStep

\* Creating a token is a good step of the ledger.
LEMMA CreateOnLedger ==
  ASSUME NEW cs \in State, LedgerFiled(cs), NEW tx \in Transaction, Accepted(cs, tx),
         tx.type = "CREATE_TOKEN"
  PROVE  GoodStep(cs, tx)
<1> DEFINE s == tx.Symbol
           ts == NewToken(tx.TotalSupply, tx.CreatorAddress)
           after == [cs EXCEPT !.tokenStates[s] = ts]
<1>1. /\ s \in Symbols
      /\ tx.TotalSupply \in Amount
      /\ tx.CreatorAddress \in Addresses
  BY KindOfTx DEF CreateTx
<1>2. ts \in TokenState /\ OrdersFiled(ts)
  BY <1>1, NewTokenStep
<1>3. cs.tokenStates[s] = None
  BY DEF Accepted, Exists
<1>4. Applied(cs, tx) = after
  BY DEF Applied
<1>5. Undone(after, tx) = [after EXCEPT !.tokenStates[s] = None]
  BY DEF Undone
<1> HIDE DEF s, ts
<1>6. /\ after \in State
      /\ LedgerFiled(after)
      /\ [after EXCEPT !.tokenStates[s] = cs.tokenStates[s]] = cs
  BY <1>1, <1>2, OneTokenChanged
<1>7. Undone(after, tx) = cs
  BY <1>3, <1>5, <1>6
<1> QED BY <1>4, <1>6, <1>7 DEF GoodStep

\* A match is a good step of the ledger.
LEMMA MatchOnLedger ==
  ASSUME NEW cs \in State, LedgerFiled(cs), NEW tx \in Transaction, Accepted(cs, tx),
         tx.type = "MATCH", tx.BuySymbol # tx.SellSymbol
  PROVE  GoodStep(cs, tx)
<1> DEFINE bs == cs.tokenStates[tx.BuySymbol]
           ss == cs.tokenStates[tx.SellSymbol]
           buyer == bs.openOrders[tx.BuyOrderID].SellerAddress
           seller == ss.openOrders[tx.SellOrderID].SellerAddress
           bs2 == Filled(bs, tx.BuyOrderID, tx.TransferAmt, tx.BuyerLoss,
                         seller, tx.SellerGain)
           ss2 == Filled(ss, tx.SellOrderID, tx.SellerGain, tx.TransferAmt,
                         buyer, tx.TransferAmt)
           after == AddMatch(cs, tx)
<1>1. /\ tx.BuySymbol \in Symbols /\ tx.SellSymbol \in Symbols
      /\ tx.BuyOrderID \in OrderIDs /\ tx.SellOrderID \in OrderIDs
      /\ tx.TransferAmt \in Amount /\ tx.BuyerLoss \in Amount
      /\ tx.SellerGain \in Amount /\ tx.MatchID \in MatchIDs
  BY KindOfTx DEF MatchTx
<1>2. /\ Exists(cs, tx.BuySymbol) /\ Exists(cs, tx.SellSymbol)
      /\ tx.MatchID \notin cs.usedMatchIDs
      /\ bs.openOrders[tx.BuyOrderID] # None
      /\ ss.openOrders[tx.SellOrderID] # None
  BY DEF Accepted, MatchAccepted
<1>3. /\ bs \in TokenState /\ OrdersFiled(bs)
      /\ ss \in TokenState /\ OrdersFiled(ss)
  BY <1>1, <1>2 DEF LedgerFiled, State, Exists
<1>4. buyer \in Addresses /\ seller \in Addresses
  <2>1. /\ bs.openOrders[tx.BuyOrderID] \in Order
        /\ ss.openOrders[tx.SellOrderID] \in Order
    BY <1>1, <1>2, <1>3 DEF TokenState
  <2> QED BY <2>1 DEF Order
<1>5. /\ bs.orderUpdatesCount[tx.BuyOrderID] # None
      /\ ss.orderUpdatesCount[tx.SellOrderID] # None
  BY <1>1, <1>2, <1>3 DEF OrdersFiled
<1>6. after = [tokenStates |-> [cs.tokenStates EXCEPT ![tx.BuySymbol] = bs2,
                                                      ![tx.SellSymbol] = ss2],
               usedMatchIDs |-> cs.usedMatchIDs \cup {tx.MatchID}]
  BY KindOfTx, AddMatchOfTwo
<1> HIDE DEF bs, ss, buyer, seller, after
<1>7. /\ bs2 \in TokenState /\ OrdersFiled(bs2)
      /\ ss2 \in TokenState /\ OrdersFiled(ss2)
  BY <1>1, <1>2, <1>3, <1>4, <1>5, FilledType, FilledFiled
<1>8. /\ OrderForMatch(bs2, tx.BuyOrderID).SellerAddress = buyer
      /\ OrderForMatch(ss2, tx.SellOrderID).SellerAddress = seller
  BY <1>1, <1>2, <1>3, <1>4, OrderAfterFill DEF buyer, seller
<1>9. /\ Unfilled(bs2, tx.BuyOrderID, tx.TransferAmt, tx.BuyerLoss,
                  seller, tx.SellerGain) = bs
      /\ Unfilled(ss2, tx.SellOrderID, tx.SellerGain, tx.TransferAmt,
                  buyer, tx.TransferAmt) = ss
  BY <1>1, <1>2, <1>3, <1>4, FillUndone
<1> HIDE DEF bs2, ss2
<1>10. /\ after \in State
       /\ after.tokenStates[tx.BuySymbol] = bs2
       /\ after.tokenStates[tx.SellSymbol] = ss2
       /\ \A s \in Symbols \ {tx.BuySymbol, tx.SellSymbol} :
            after.tokenStates[s] = cs.tokenStates[s]
  BY <1>1, <1>6, <1>7 DEF State
<1>11. LedgerFiled(after)
  BY <1>7, <1>10 DEF LedgerFiled, Exists
<1>12. RollbackMatch(after, tx)
         = [tokenStates |-> [after.tokenStates EXCEPT ![tx.BuySymbol] = bs,
                                                      ![tx.SellSymbol] = ss],
            usedMatchIDs |-> after.usedMatchIDs \ {tx.MatchID}]
  BY <1>1, <1>8, <1>9, <1>10, KindOfTx, RollbackMatchOfTwo
<1>13. RollbackMatch(after, tx) = cs
  <2>1. after.usedMatchIDs \ {tx.MatchID} = cs.usedMatchIDs
    BY <1>2, <1>6
  <2>2. [after.tokenStates EXCEPT ![tx.BuySymbol] = bs, ![tx.SellSymbol] = ss]
          = cs.tokenStates
    BY <1>1, <1>6 DEF State, bs, ss
  <2> QED BY <1>12, <2>1, <2>2 DEF State
<1>14. Applied(cs, tx) = after /\ Undone(after, tx) = RollbackMatch(after, tx)
  BY DEF Applied, Undone, after
<1> QED BY <1>10, <1>11, <1>13, <1>14 DEF GoodStep

\* An accepted transaction keeps the ledger a ledger and its orders filed, and
\* rolling it back gives the ledger it was applied to: the Add and Rollback
\* operations of consensus_state.go are inverse, whatever the amounts and the
\* rounding of the prices.  They are not for a match of a token with itself.
THEOREM AcceptedStep ==
  ASSUME NEW cs \in State, LedgerFiled(cs), NEW tx \in Transaction, Accepted(cs, tx),
         BetweenTokens(tx)
  PROVE  /\ Applied(cs, tx) \in State
         /\ LedgerFiled(Applied(cs, tx))
         /\ Undone(Applied(cs, tx), tx) = cs
<1>1. \/ tx.type \in {"ORDER", "CLAIM_FUNDS", "TRANSFER", "FREEZE"}
      \/ tx.type = "MATCH"
      \/ tx.type = "CREATE_TOKEN"
  BY DEF Accepted
<1> QED BY <1>1, TokenTxOnLedger, MatchOnLedger, CreateOnLedger DEF GoodStep, BetweenTokens

-----------------------------------------------------------------------------
\* The matches in force.

\* Every match in force was accepted, and its two orders are still known.
KnownIn(ledger, ms) ==
  /\ IsFiniteSet(ms) /\ ms \subseteq MatchTx
  /\ \A m \in ms :
       /\ m.SellerGain <= m.BuyerLoss
       /\ Exists(ledger, m.BuySymbol) /\ Exists(ledger, m.SellSymbol)
       /\ ledger.tokenStates[m.BuySymbol].orderUpdatesCount[m.BuyOrderID] # None
       /\ ledger.tokenStates[m.SellSymbol].orderUpdatesCount[m.SellOrderID] # None

\* The fields of a match.
LEMMA MatchFields ==
  ASSUME NEW m \in MatchTx
  PROVE  /\ m.BuySymbol \in Symbols /\ m.SellSymbol \in Symbols
         /\ m.BuyOrderID \in OrderIDs /\ m.SellOrderID \in OrderIDs
         /\ m.MatchID \in MatchIDs
         /\ m.TransferAmt \in Amount /\ m.BuyerLoss \in Amount /\ m.SellerGain \in Amount
         /\ m.TransferAmt \in Nat /\ m.BuyerLoss \in Nat /\ m.SellerGain \in Nat
         /\ m.type = "MATCH"
BY AmountIsNat DEF MatchTx

\* The matches on an order, with one match more.
LEMMA MatchesOfOneMore ==
  ASSUME NEW ms, IsFiniteSet(ms), NEW m, m \notin ms, NEW s, NEW id
  PROVE  /\ IsFiniteSet(MatchesBuying(ms, s, id)) /\ m \notin MatchesBuying(ms, s, id)
         /\ IsFiniteSet(MatchesSelling(ms, s, id)) /\ m \notin MatchesSelling(ms, s, id)
         /\ m.BuySymbol = s /\ m.BuyOrderID = id =>
              MatchesBuying(ms \cup {m}, s, id) = MatchesBuying(ms, s, id) \cup {m}
         /\ ~(m.BuySymbol = s /\ m.BuyOrderID = id) =>
              MatchesBuying(ms \cup {m}, s, id) = MatchesBuying(ms, s, id)
         /\ m.SellSymbol = s /\ m.SellOrderID = id =>
              MatchesSelling(ms \cup {m}, s, id) = MatchesSelling(ms, s, id) \cup {m}
         /\ ~(m.SellSymbol = s /\ m.SellOrderID = id) =>
              MatchesSelling(ms \cup {m}, s, id) = MatchesSelling(ms, s, id)
<1>1. /\ IsFiniteSet(MatchesBuying(ms, s, id)) /\ m \notin MatchesBuying(ms, s, id)
      /\ IsFiniteSet(MatchesSelling(ms, s, id)) /\ m \notin MatchesSelling(ms, s, id)
  BY FS_Subset DEF MatchesBuying, MatchesSelling
<1> QED BY <1>1 DEF MatchesBuying, MatchesSelling

\* Their number goes up by one, for the two orders of the match.
LEMMA CountsOfOneMore ==
  ASSUME NEW ms, IsFiniteSet(ms), NEW m, m \notin ms, NEW s, NEW id
  PROVE  /\ Cardinality(MatchesBuying(ms, s, id)) \in Nat
         /\ Cardinality(MatchesSelling(ms, s, id)) \in Nat
         /\ Cardinality(MatchesBuying(ms \cup {m}, s, id))
              = Cardinality(MatchesBuying(ms, s, id))
                + (IF m.BuySymbol = s /\ m.BuyOrderID = id THEN 1 ELSE 0)
         /\ Cardinality(MatchesSelling(ms \cup {m}, s, id))
              = Cardinality(MatchesSelling(ms, s, id))
                + (IF m.SellSymbol = s /\ m.SellOrderID = id THEN 1 ELSE 0)
<1> DEFINE B == MatchesBuying(ms, s, id)
           S == MatchesSelling(ms, s, id)
<1>1. /\ IsFiniteSet(B) /\ IsFiniteSet(S) /\ m \notin B /\ m \notin S
      /\ Cardinality(B) \in Nat /\ Cardinality(S) \in Nat
  BY MatchesOfOneMore, FS_CardinalityType
<1>2. /\ m.BuySymbol = s /\ m.BuyOrderID = id =>
           MatchesBuying(ms \cup {m}, s, id) = B \cup {m}
      /\ ~(m.BuySymbol = s /\ m.BuyOrderID = id) =>
           MatchesBuying(ms \cup {m}, s, id) = B
      /\ m.SellSymbol = s /\ m.SellOrderID = id =>
           MatchesSelling(ms \cup {m}, s, id) = S \cup {m}
      /\ ~(m.SellSymbol = s /\ m.SellOrderID = id) =>
           MatchesSelling(ms \cup {m}, s, id) = S
  BY DEF MatchesBuying, MatchesSelling
<1> HIDE DEF B, S
<1>3. Cardinality(B \cup {m}) = Cardinality(B) + 1 /\ Cardinality(S \cup {m}) = Cardinality(S) + 1
  BY <1>1, FS_AddElement
<1>4. Cardinality(B) + 0 = Cardinality(B) /\ Cardinality(S) + 0 = Cardinality(S)
  BY <1>1
<1> QED BY <1>1, <1>2, <1>3, <1>4 DEF B, S

\* No match in force is on an order without a counter.
LEMMA UncountedUnmatched ==
  ASSUME NEW ledger, NEW ms, KnownIn(ledger, ms), NEW s \in Symbols, NEW id \in OrderIDs,
         ~Exists(ledger, s) \/ ledger.tokenStates[s].orderUpdatesCount[id] = None
  PROVE  MatchesBuying(ms, s, id) = {} /\ MatchesSelling(ms, s, id) = {}
BY DEF KnownIn, MatchesBuying, MatchesSelling

-----------------------------------------------------------------------------
\* A ledger and the matches in force, when transactions are added and undone in
\* any order that the counters of the orders allow.

\* With the matches ms in force: they are of two tokens and have IDs of their own,
\* the ledger knows and counts them, and a deleted order has some.
Tallied(ledger, ms) ==
  /\ ledger \in State /\ LedgerFiled(ledger)
  /\ KnownIn(ledger, ms) /\ CountedIn(ledger, ms)
  /\ \A m \in ms : m.BuySymbol # m.SellSymbol
  /\ \A m, n \in ms : m.MatchID = n.MatchID => m = n
  /\ \A s \in Symbols, id \in OrderIDs :
       Exists(ledger, s) /\ ledger.tokenStates[s].deletedOrders[id] # None =>
         ledger.tokenStates[s].orderUpdatesCount[id] # 0

\* The numbers of matches on an order are naturals.
LEMMA CountsAreNat ==
  ASSUME NEW ms, IsFiniteSet(ms), NEW s, NEW id
  PROVE  /\ Cardinality(MatchesBuying(ms, s, id)) \in Nat
         /\ Cardinality(MatchesSelling(ms, s, id)) \in Nat
<1>1. IsFiniteSet(MatchesBuying(ms, s, id)) /\ IsFiniteSet(MatchesSelling(ms, s, id))
  BY FS_Subset DEF MatchesBuying, MatchesSelling
<1> QED BY <1>1, FS_CardinalityType

\* A match in force is counted for both of its orders.
LEMMA MatchedIsCounted ==
  ASSUME NEW ledger, NEW ms, Tallied(ledger, ms), NEW m \in ms
  PROVE  /\ Exists(ledger, m.BuySymbol) /\ Exists(ledger, m.SellSymbol)
         /\ ledger.tokenStates[m.BuySymbol].orderUpdatesCount[m.BuyOrderID] \notin {0, None}
         /\ ledger.tokenStates[m.SellSymbol].orderUpdatesCount[m.SellOrderID] \notin {0, None}
<1>1. /\ Exists(ledger, m.BuySymbol) /\ Exists(ledger, m.SellSymbol)
      /\ ledger.tokenStates[m.BuySymbol].orderUpdatesCount[m.BuyOrderID] # None
      /\ ledger.tokenStates[m.SellSymbol].orderUpdatesCount[m.SellOrderID] # None
  BY DEF Tallied, KnownIn
<1>2. /\ m.BuySymbol \in Symbols /\ m.SellSymbol \in Symbols
      /\ m.BuyOrderID \in OrderIDs /\ m.SellOrderID \in OrderIDs
      /\ IsFiniteSet(ms)
  BY MatchFields DEF Tallied, KnownIn
<1>3. ASSUME NEW s \in Symbols, NEW id \in OrderIDs,
             m \in MatchesBuying(ms, s, id) \/ m \in MatchesSelling(ms, s, id),
             Exists(ledger, s), ledger.tokenStates[s].orderUpdatesCount[id] # None
      PROVE  ledger.tokenStates[s].orderUpdatesCount[id] # 0
  <2> DEFINE B == MatchesBuying(ms, s, id)
             S == MatchesSelling(ms, s, id)
  <2>1. IsFiniteSet(B) /\ IsFiniteSet(S)
    BY <1>2, FS_Subset DEF MatchesBuying, MatchesSelling
  <2>2. Cardinality(B) \in Nat /\ Cardinality(S) \in Nat
    BY <2>1, FS_CardinalityType
  <2>3. Cardinality(B) # 0 \/ Cardinality(S) # 0
    BY <1>3, <2>1, FS_EmptySet
  <2>4. ledger.tokenStates[s].orderUpdatesCount[id] = Cardinality(B) + Cardinality(S)
    BY <1>3 DEF Tallied, CountedIn
  <2> HIDE DEF B, S
  <2> QED BY <2>2, <2>3, <2>4
<1>4. /\ m \in MatchesBuying(ms, m.BuySymbol, m.BuyOrderID)
      /\ m \in MatchesSelling(ms, m.SellSymbol, m.SellOrderID)
  BY DEF MatchesBuying, MatchesSelling
<1> QED BY <1>1, <1>2, <1>3, <1>4

\* How the counter of an order changes when no match is added or undone: an order
\* without updates comes or goes.
CounterKept(before, now) == \/ now = before
                            \/ before = None /\ now = 0
                            \/ before = 0 /\ now = None

\* The matches stay known and counted while tokens stay and counters change so.
LEMMA TallyKept ==
  ASSUME NEW ledger, NEW ms, Tallied(ledger, ms), NEW after \in State, LedgerFiled(after),
         after.usedMatchIDs = ledger.usedMatchIDs,
         \A s \in Symbols : Exists(ledger, s) => Exists(after, s),
         \A s \in Symbols, id \in OrderIDs : Exists(ledger, s) =>
           CounterKept(ledger.tokenStates[s].orderUpdatesCount[id],
                       after.tokenStates[s].orderUpdatesCount[id]),
         \A s \in Symbols, id \in OrderIDs : Exists(after, s) /\ ~Exists(ledger, s) =>
           after.tokenStates[s].orderUpdatesCount[id] = None,
         \A s \in Symbols, id \in OrderIDs :
           Exists(after, s) /\ after.tokenStates[s].deletedOrders[id] # None =>
             after.tokenStates[s].orderUpdatesCount[id] # 0
  PROVE  Tallied(after, ms)
<1>1. IsFiniteSet(ms) /\ ms \subseteq MatchTx
  BY DEF Tallied, KnownIn
<1>2. KnownIn(after, ms)
  <2> SUFFICES ASSUME NEW m \in ms
               PROVE  /\ m.SellerGain <= m.BuyerLoss
                      /\ Exists(after, m.BuySymbol) /\ Exists(after, m.SellSymbol)
                      /\ after.tokenStates[m.BuySymbol].orderUpdatesCount[m.BuyOrderID] # None
                      /\ after.tokenStates[m.SellSymbol].orderUpdatesCount[m.SellOrderID] # None
    BY <1>1 DEF KnownIn
  <2>1. /\ m.BuySymbol \in Symbols /\ m.SellSymbol \in Symbols
        /\ m.BuyOrderID \in OrderIDs /\ m.SellOrderID \in OrderIDs
    BY <1>1, MatchFields
  <2>2. m.SellerGain <= m.BuyerLoss
    BY DEF Tallied, KnownIn
  <2> QED BY <2>1, <2>2, MatchedIsCounted DEF CounterKept
<1>3. ASSUME NEW s \in Symbols, NEW id \in OrderIDs, Exists(after, s),
             after.tokenStates[s].orderUpdatesCount[id] # None
      PROVE  after.tokenStates[s].orderUpdatesCount[id]
               = Cardinality(MatchesBuying(ms, s, id)) + Cardinality(MatchesSelling(ms, s, id))
  <2>1. Exists(ledger, s)
    BY <1>3
  <2>2. CASE ledger.tokenStates[s].orderUpdatesCount[id] # None
    <3>1. after.tokenStates[s].orderUpdatesCount[id]
            = ledger.tokenStates[s].orderUpdatesCount[id]
      BY <1>3, <2>1, <2>2 DEF CounterKept
    <3> QED BY <2>1, <2>2, <3>1 DEF Tallied, CountedIn
  <2>3. CASE ledger.tokenStates[s].orderUpdatesCount[id] = None
    <3>1. after.tokenStates[s].orderUpdatesCount[id] = 0
      BY <1>3, <2>1, <2>3 DEF CounterKept
    <3>2. MatchesBuying(ms, s, id) = {} /\ MatchesSelling(ms, s, id) = {}
      BY <2>3, UncountedUnmatched DEF Tallied
    <3> QED BY <3>1, <3>2, FS_EmptySet
  <2> QED BY <2>2, <2>3
<1>4. CountedIn(after, ms)
  BY <1>3 DEF CountedIn, Tallied
<1> QED BY <1>2, <1>4 DEF Tallied

\* The state of one token changes and no match is added or undone.
LEMMA TokenKeepsTally ==
  ASSUME NEW ledger, NEW ms, Tallied(ledger, ms), NEW s \in Symbols, Exists(ledger, s),
         NEW ts \in TokenState, OrdersFiled(ts),
         \A id \in OrderIDs : CounterKept(ledger.tokenStates[s].orderUpdatesCount[id],
                                          ts.orderUpdatesCount[id]),
         \A id \in OrderIDs : ts.deletedOrders[id] # None => ts.orderUpdatesCount[id] # 0
  PROVE  Tallied([ledger EXCEPT !.tokenStates[s] = ts], ms)
<1> DEFINE after == [ledger EXCEPT !.tokenStates[s] = ts]
<1>1. ledger \in State /\ LedgerFiled(ledger)
  BY DEF Tallied
<1>2. /\ after \in State /\ after.tokenStates[s] = ts /\ ts # None
      /\ after.usedMatchIDs = ledger.usedMatchIDs
      /\ \A t \in Symbols : t # s => after.tokenStates[t] = ledger.tokenStates[t]
  BY <1>1, NoneAssumption DEF State
<1>3. LedgerFiled(after)
  <2> HIDE DEF after
  <2> QED BY <1>1, <1>2 DEF LedgerFiled, Exists
<1> HIDE DEF after
<1>4. \A t \in Symbols : Exists(ledger, t) => Exists(after, t)
  BY <1>2, <1>3 DEF Exists
<1>5. \A t \in Symbols, id \in OrderIDs : Exists(ledger, t) =>
        CounterKept(ledger.tokenStates[t].orderUpdatesCount[id],
                    after.tokenStates[t].orderUpdatesCount[id])
  BY <1>2, <1>3 DEF CounterKept
<1>6. \A t \in Symbols, id \in OrderIDs : Exists(after, t) /\ ~Exists(ledger, t) =>
        after.tokenStates[t].orderUpdatesCount[id] = None
  BY <1>2, <1>3 DEF Exists
<1>7. \A t \in Symbols, id \in OrderIDs :
        Exists(after, t) /\ after.tokenStates[t].deletedOrders[id] # None =>
          after.tokenStates[t].orderUpdatesCount[id] # 0
  BY <1>2, <1>3 DEF Exists, Tallied
<1>8. Tallied(after, ms)
  BY <1>2, <1>3, <1>4, <1>5, <1>6, <1>7, TallyKept
<1> QED BY <1>8 DEF after

\* A token without orders comes into being.
LEMMA NewTokenKeepsTally ==
  ASSUME NEW ledger, NEW ms, Tallied(ledger, ms), NEW s \in Symbols, ~Exists(ledger, s),
         NEW ts \in TokenState, OrdersFiled(ts),
         \A id \in OrderIDs : ts.orderUpdatesCount[id] = None
  PROVE  Tallied([ledger EXCEPT !.tokenStates[s] = ts], ms)
<1> DEFINE after == [ledger EXCEPT !.tokenStates[s] = ts]
<1>1. ledger \in State /\ LedgerFiled(ledger)
  BY DEF Tallied
<1>2. /\ after \in State /\ after.tokenStates[s] = ts /\ ts # None
      /\ after.usedMatchIDs = ledger.usedMatchIDs
      /\ \A t \in Symbols : t # s => after.tokenStates[t] = ledger.tokenStates[t]
  BY <1>1, NoneAssumption DEF State
<1>3. LedgerFiled(after)
  <2> HIDE DEF after
  <2> QED BY <1>1, <1>2 DEF LedgerFiled, Exists
<1> HIDE DEF after
<1>4. \A t \in Symbols : Exists(ledger, t) => Exists(after, t)
  BY <1>2, <1>3 DEF Exists
<1>5. \A t \in Symbols, id \in OrderIDs : Exists(ledger, t) =>
        CounterKept(ledger.tokenStates[t].orderUpdatesCount[id],
                    after.tokenStates[t].orderUpdatesCount[id])
  BY <1>2 DEF CounterKept
<1>6. \A t \in Symbols, id \in OrderIDs : Exists(after, t) /\ ~Exists(ledger, t) =>
        after.tokenStates[t].orderUpdatesCount[id] = None
  BY <1>2, <1>3 DEF Exists
<1>7. \A t \in Symbols, id \in OrderIDs :
        Exists(after, t) /\ after.tokenStates[t].deletedOrders[id] # None =>
          after.tokenStates[t].orderUpdatesCount[id] # 0
  <2>1. 0 # None
    BY NoneAssumption
  <2> QED BY <1>2, <2>1 DEF Exists, Tallied
<1>8. Tallied(after, ms)
  BY <1>2, <1>3, <1>4, <1>5, <1>6, <1>7, TallyKept
<1> QED BY <1>8 DEF after

\* A token on which no match is in force is gone.
LEMMA NoTokenKeepsTally ==
  ASSUME NEW ledger, NEW ms, Tallied(ledger, ms), NEW s \in Symbols,
         \A m \in ms : m.BuySymbol # s /\ m.SellSymbol # s
  PROVE  Tallied([ledger EXCEPT !.tokenStates[s] = None], ms)
<1> DEFINE after == [ledger EXCEPT !.tokenStates[s] = None]
<1>1. ledger \in State /\ LedgerFiled(ledger)
  BY DEF Tallied
<1>2. /\ after \in State /\ after.tokenStates[s] = None
      /\ after.usedMatchIDs = ledger.usedMatchIDs
      /\ \A t \in Symbols : t # s => after.tokenStates[t] = ledger.tokenStates[t]
  BY <1>1 DEF State
<1> HIDE DEF after
<1>3. LedgerFiled(after)
  BY <1>1, <1>2 DEF LedgerFiled, Exists
<1>4. ms \subseteq MatchTx
  BY DEF Tallied, KnownIn
<1>5. KnownIn(after, ms)
  <2> SUFFICES ASSUME NEW m \in ms
               PROVE  /\ m.SellerGain <= m.BuyerLoss
                      /\ Exists(after, m.BuySymbol) /\ Exists(after, m.SellSymbol)
                      /\ after.tokenStates[m.BuySymbol].orderUpdatesCount[m.BuyOrderID] # None
                      /\ after.tokenStates[m.SellSymbol].orderUpdatesCount[m.SellOrderID] # None
    BY DEF KnownIn, Tallied
  <2>1. m.BuySymbol \in Symbols /\ m.SellSymbol \in Symbols
    BY <1>4, MatchFields
  <2>2. /\ after.tokenStates[m.BuySymbol] = ledger.tokenStates[m.BuySymbol]
        /\ after.tokenStates[m.SellSymbol] = ledger.tokenStates[m.SellSymbol]
    BY <1>2, <2>1
  <2>3. /\ m.SellerGain <= m.BuyerLoss
        /\ Exists(ledger, m.BuySymbol) /\ Exists(ledger, m.SellSymbol)
        /\ ledger.tokenStates[m.BuySymbol].orderUpdatesCount[m.BuyOrderID] # None
        /\ ledger.tokenStates[m.SellSymbol].orderUpdatesCount[m.SellOrderID] # None
    BY DEF Tallied, KnownIn
  <2> QED BY <2>2, <2>3 DEF Exists
<1>6. CountedIn(after, ms)
  BY <1>2 DEF Tallied, CountedIn, Exists
<1>7. \A t \in Symbols, id \in OrderIDs :
        Exists(after, t) /\ after.tokenStates[t].deletedOrders[id] # None =>
          after.tokenStates[t].orderUpdatesCount[id] # 0
  BY <1>2 DEF Tallied, Exists
<1>8. Tallied(after, ms)
  BY <1>2, <1>3, <1>5, <1>6, <1>7 DEF Tallied
<1> QED BY <1>8 DEF after

\* A transaction of a token's chain is applied.
LEMMA TokenTxKeepsTally ==
  ASSUME NEW ledger, NEW ms, Tallied(ledger, ms), NEW tx \in Transaction,
         Accepted(ledger, tx), tx.type \in {"ORDER", "CLAIM_FUNDS", "TRANSFER", "FREEZE"}
  PROVE  /\ Tallied(Applied(ledger, tx), ms)
         /\ tx.type = "ORDER" =>
              ledger.tokenStates[tx.chain].orderUpdatesCount[tx.order.ID] = None
<1> DEFINE s == tx.chain
           ts == ledger.tokenStates[s]
           us == TokenTxApplied(ts, tx)
<1>1. s \in Symbols
  BY KindOfTx DEF OrderTx, ClaimTx, TransferTx, FreezeTx
<1>2. /\ ts \in TokenState /\ OrdersFiled(ts) /\ TokenTxAccepted(ts, tx)
      /\ Exists(ledger, s)
  BY <1>1 DEF Accepted, Exists, LedgerFiled, State, Tallied
<1>3. us \in TokenState /\ OrdersFiled(us)
  BY <1>2, TokenTxStep
<1>4. Applied(ledger, tx) = [ledger EXCEPT !.tokenStates[s] = us]
  BY DEF Applied
<1>5. tx.type = "ORDER" => /\ tx.order \in Order
                           /\ ts.orderUpdatesCount[tx.order.ID] = None
                           /\ ts.deletedOrders[tx.order.ID] = None
  <2> SUFFICES ASSUME tx.type = "ORDER"
               PROVE  /\ tx.order \in Order
                      /\ ts.orderUpdatesCount[tx.order.ID] = None
                      /\ ts.deletedOrders[tx.order.ID] = None
    OBVIOUS
  <2>1. tx.order \in Order /\ tx.order.ID \in OrderIDs
    BY KindOfTx DEF OrderTx, Order
  <2>2. OrderAccepted(ts, tx.order)
    BY <1>2 DEF TokenTxAccepted
  <2> QED BY <1>2, <2>1, <2>2 DEF OrderAccepted, OrdersFiled
<1>6. \/ /\ us.orderUpdatesCount = ts.orderUpdatesCount
         /\ us.deletedOrders = ts.deletedOrders
      \/ /\ tx.type = "ORDER"
         /\ us.orderUpdatesCount = [ts.orderUpdatesCount EXCEPT ![tx.order.ID] = 0]
         /\ us.deletedOrders = ts.deletedOrders
  <2>1. CASE tx.type = "ORDER"
    BY <2>1, <1>2 DEF TokenTxApplied, AddOrder, TokenState
  <2>2. CASE tx.type = "CLAIM_FUNDS"
    BY <2>2, <1>2 DEF TokenTxApplied, AddClaimFunds, TokenState
  <2>3. CASE tx.type = "TRANSFER"
    BY <2>3, <1>2 DEF TokenTxApplied, AddTransfer, TokenState
  <2>4. CASE tx.type = "FREEZE"
    BY <2>4, <1>2 DEF TokenTxApplied, AddFreeze, TokenState
  <2> QED BY <2>1, <2>2, <2>3, <2>4
<1>7. \A id \in OrderIDs : ts.deletedOrders[id] # None => ts.orderUpdatesCount[id] # 0
  BY <1>1, <1>2 DEF Tallied
<1> HIDE DEF us, ts, s
<1>8. \A id \in OrderIDs : CounterKept(ts.orderUpdatesCount[id], us.orderUpdatesCount[id])
  BY <1>2, <1>5, <1>6 DEF CounterKept, TokenState
<1>9. \A id \in OrderIDs : us.deletedOrders[id] # None => us.orderUpdatesCount[id] # 0
  BY <1>2, <1>5, <1>6, <1>7 DEF TokenState
<1>10. Tallied([ledger EXCEPT !.tokenStates[s] = us], ms)
  BY <1>1, <1>2, <1>3, <1>8, <1>9, TokenKeepsTally DEF ts
<1> QED BY <1>4, <1>5, <1>10 DEF s, ts

\* Undoing a transaction of a token's chain leads to a state of the token.
LEMMA TokenTxUndoneType ==
  ASSUME NEW ts \in TokenState, NEW tx \in Transaction,
         tx.type \in {"ORDER", "CLAIM_FUNDS", "TRANSFER", "FREEZE"}
  PROVE  LET us == TokenTxUndone(ts, tx)
         IN /\ us \in TokenState
            /\ us.deletedOrders = ts.deletedOrders
            /\ tx.type # "ORDER" => /\ us.openOrders = ts.openOrders
                                    /\ us.orderUpdatesCount = ts.orderUpdatesCount
            /\ tx.type = "ORDER" =>
                 /\ us.openOrders = [ts.openOrders EXCEPT ![tx.order.ID] = None]
                 /\ us.orderUpdatesCount = [ts.orderUpdatesCount EXCEPT ![tx.order.ID] = None]
<1>1. CASE tx.type = "ORDER"
  <2>1. /\ tx.order.ID \in OrderIDs /\ tx.order.SellerAddress \in Addresses
        /\ tx.order.AmountToSell \in Amount
    BY <1>1, KindOfTx DEF OrderTx, Order
  <2>2. Plus(ts.balances[tx.order.SellerAddress], tx.order.AmountToSell) \in Amount
    BY <2>1, PlusType DEF TokenState
  <2> QED BY <1>1, <2>1, <2>2 DEF TokenTxUndone, RollbackOrder, TokenState
<1>2. CASE tx.type = "CLAIM_FUNDS"
  <2>1. tx.Address \in Addresses /\ tx.Amount \in Amount
    BY <1>2, KindOfTx DEF ClaimTx
  <2>2. /\ Plus(ts.unclaimedFunds[tx.Address], tx.Amount) \in Amount
        /\ Minus(ts.balances[tx.Address], tx.Amount) \in Amount
    BY <2>1, PlusType, MinusType DEF TokenState
  <2> QED BY <1>2, <2>1, <2>2 DEF TokenTxUndone, RollbackClaimFunds, TokenState
<1>3. CASE tx.type = "TRANSFER"
  <2>1. /\ tx.FromAddress \in Addresses /\ tx.ToAddress \in Addresses
        /\ tx.Amount \in Amount
    BY <1>3, KindOfTx DEF TransferTx
  <2>2. Moved(ts.balances, tx.ToAddress, tx.FromAddress, tx.Amount) \in [Addresses -> Amount]
    BY <2>1, MovedType DEF TokenState
  <2> QED BY <1>3, <2>2 DEF TokenTxUndone, RollbackTransfer, TokenState
<1>4. CASE tx.type = "FREEZE"
  <2>1. /\ tx.FromAddress \in Addresses /\ tx.UnfreezeBlock \in Heights
        /\ tx.Amount \in Amount
    BY <1>4, KindOfTx DEF FreezeTx
  <2>2. /\ Plus(ts.balances[tx.FromAddress], tx.Amount) \in Amount
        /\ Minus(ts.frozenTokenStore[tx.UnfreezeBlock][tx.FromAddress], tx.Amount) \in Amount
    BY <2>1, PlusType, MinusType DEF TokenState
  <2> QED BY <1>4, <2>1, <2>2 DEF TokenTxUndone, RollbackFreeze, TokenState
<1> QED BY <1>1, <1>2, <1>3, <1>4

\* A transaction of a token's chain is undone, an order only without updates.
LEMMA TokenTxUndoneKeepsTally ==
  ASSUME NEW ledger, NEW ms, Tallied(ledger, ms), NEW tx \in Transaction,
         tx.type \in {"ORDER", "CLAIM_FUNDS", "TRANSFER", "FREEZE"},
         Exists(ledger, tx.chain),
         tx.type = "ORDER" => ledger.tokenStates[tx.chain].orderUpdatesCount[tx.order.ID] = 0
  PROVE  Tallied(Undone(ledger, tx), ms)
<1> DEFINE s == tx.chain
           ts == ledger.tokenStates[s]
           us == TokenTxUndone(ts, tx)
<1>1. s \in Symbols
  BY KindOfTx DEF OrderTx, ClaimTx, TransferTx, FreezeTx
<1>2. /\ ts \in TokenState /\ OrdersFiled(ts)
      /\ \A id \in OrderIDs : ts.deletedOrders[id] # None => ts.orderUpdatesCount[id] # 0
  BY <1>1 DEF Exists, LedgerFiled, State, Tallied
<1>3. /\ us \in TokenState /\ us.deletedOrders = ts.deletedOrders
      /\ tx.type # "ORDER" => /\ us.openOrders = ts.openOrders
                              /\ us.orderUpdatesCount = ts.orderUpdatesCount
      /\ tx.type = "ORDER" =>
           /\ us.openOrders = [ts.openOrders EXCEPT ![tx.order.ID] = None]
           /\ us.orderUpdatesCount = [ts.orderUpdatesCount EXCEPT ![tx.order.ID] = None]
  BY <1>2, TokenTxUndoneType
<1>4. Undone(ledger, tx) = [ledger EXCEPT !.tokenStates[s] = us]
  BY DEF Undone
<1>5. tx.type = "ORDER" => ts.orderUpdatesCount[tx.order.ID] = 0
  OBVIOUS
<1>6. tx.type = "ORDER" => tx.order.ID \in OrderIDs
  BY KindOfTx DEF OrderTx, Order
<1>7. 0 # None
  BY NoneAssumption
<1> HIDE DEF us, ts, s
<1>8. \A id \in OrderIDs : /\ CounterKept(ts.orderUpdatesCount[id], us.orderUpdatesCount[id])
                           /\ us.deletedOrders[id] # None => us.orderUpdatesCount[id] # 0
  <2>1. CASE tx.type = "ORDER"
    BY <1>2, <1>3, <1>5, <1>6, <1>7, <2>1 DEF CounterKept, TokenState
  <2>2. CASE tx.type # "ORDER"
    BY <1>2, <1>3, <2>2 DEF CounterKept
  <2> QED BY <2>1, <2>2
<1>9. OrdersFiled(us)
  <2>1. CASE tx.type = "ORDER"
    BY <1>2, <1>3, <1>5, <1>6, <1>7, <2>1 DEF OrdersFiled, TokenState
  <2>2. CASE tx.type # "ORDER"
    BY <1>2, <1>3, <2>2 DEF OrdersFiled
  <2> QED BY <2>1, <2>2
<1>10. Tallied([ledger EXCEPT !.tokenStates[s] = us], ms)
  BY <1>1, <1>3, <1>8, <1>9, TokenKeepsTally DEF s, ts
<1> QED BY <1>4, <1>10

\* What a block of a height gives back changes balances only.
LEMMA UnfreezesType ==
  ASSUME NEW ts \in TokenState, NEW height,
         NEW us \in {ApplyUnfreezesForBlock(ts, height), RollbackUnfreezesForBlock(ts, height)}
  PROVE  /\ us \in TokenState
         /\ us.openOrders = ts.openOrders /\ us.deletedOrders = ts.deletedOrders
         /\ us.orderUpdatesCount = ts.orderUpdatesCount
<1>1. CASE height \notin Heights
  BY <1>1 DEF ApplyUnfreezesForBlock, RollbackUnfreezesForBlock
<1>2. CASE height \in Heights
  <2>1. /\ [a \in Addresses |-> Plus(ts.balances[a], ts.frozenTokenStore[height][a])]
             \in [Addresses -> Amount]
        /\ [a \in Addresses |-> Minus(ts.balances[a], ts.frozenTokenStore[height][a])]
             \in [Addresses -> Amount]
    BY <1>2, PlusType, MinusType DEF TokenState
  <2> QED BY <1>2, <2>1 DEF ApplyUnfreezesForBlock, RollbackUnfreezesForBlock, TokenState
<1> QED BY <1>1, <1>2

\* What a block of a height gives back, and takes again when it is removed.
LEMMA UnfreezesKeepTally ==
  ASSUME NEW ledger, NEW ms, Tallied(ledger, ms), NEW s \in Symbols, Exists(ledger, s),
         NEW height
  PROVE  /\ Tallied([ledger EXCEPT !.tokenStates[s] = ApplyUnfreezesForBlock(@, height)], ms)
         /\ Tallied([ledger EXCEPT !.tokenStates[s] = RollbackUnfreezesForBlock(@, height)], ms)
<1> DEFINE ts == ledger.tokenStates[s]
<1>1. /\ ts \in TokenState /\ OrdersFiled(ts)
      /\ \A id \in OrderIDs : ts.deletedOrders[id] # None => ts.orderUpdatesCount[id] # 0
  BY DEF Exists, LedgerFiled, State, Tallied
<1> HIDE DEF ts
<1>2. ASSUME NEW us \in {ApplyUnfreezesForBlock(ts, height), RollbackUnfreezesForBlock(ts, height)}
      PROVE  /\ us \in TokenState
             /\ us.openOrders = ts.openOrders /\ us.deletedOrders = ts.deletedOrders
             /\ us.orderUpdatesCount = ts.orderUpdatesCount
  BY <1>1, UnfreezesType
<1>3. ASSUME NEW us \in {ApplyUnfreezesForBlock(ts, height), RollbackUnfreezesForBlock(ts, height)}
      PROVE  Tallied([ledger EXCEPT !.tokenStates[s] = us], ms)
  <2>1. us \in TokenState /\ OrdersFiled(us)
    BY <1>1, <1>2 DEF OrdersFiled
  <2>2. \A id \in OrderIDs : /\ CounterKept(ts.orderUpdatesCount[id], us.orderUpdatesCount[id])
                             /\ us.deletedOrders[id] # None => us.orderUpdatesCount[id] # 0
    BY <1>1, <1>2 DEF CounterKept
  <2> QED BY <2>1, <2>2, TokenKeepsTally DEF ts
<1> QED BY <1>3 DEF ts

\* One side of a match moves the order between the two maps and changes no other.
LEMMA FilledOthers ==
  ASSUME NEW ts \in TokenState, NEW id \in OrderIDs, ts.openOrders[id] # None,
         NEW bought, NEW sold, NEW counterparty, NEW credit
  PROVE  \A i \in OrderIDs : i # id =>
           Filled(ts, id, bought, sold, counterparty, credit).deletedOrders[i]
             = ts.deletedOrders[i]
BY DEF Filled, FillOrder, TokenState

\* One side of a match undone, of any order with a counter: the order is open, its
\* counter is one less.
LEMMA UnfilledStep ==
  ASSUME NEW ts \in TokenState, OrdersFiled(ts),
         NEW id \in OrderIDs, ts.orderUpdatesCount[id] # None,
         NEW bought \in Amount, NEW sold \in Amount,
         NEW counterparty \in Addresses, NEW credit \in Amount
  PROVE  LET us == Unfilled(ts, id, bought, sold, counterparty, credit)
         IN /\ us \in TokenState /\ OrdersFiled(us)
            /\ us.orderUpdatesCount
                 = [ts.orderUpdatesCount EXCEPT ![id] = ts.orderUpdatesCount[id] - 1]
            /\ us.deletedOrders = [ts.deletedOrders EXCEPT ![id] = None]
<1> DEFINE o == OrderForMatch(ts, id)
           r == Restored(o, bought, sold)
           unrefunded ==
             IF ts.deletedOrders[id] = None THEN ts
             ELSE [ts EXCEPT !.unclaimedFunds[o.SellerAddress] = Minus(@, o.AmountToSell),
                             !.deletedOrders[id] = None]
           us == Unfilled(ts, id, bought, sold, counterparty, credit)
<1>1. o \in Order /\ o.ID = id
  BY DEF OrderForMatch, OrdersFiled, TokenState
<1>2. r \in Order /\ r # None /\ r.ID = id
  <2>1. r \in Order
    BY <1>1, OrderFilledType
  <2>2. r.ID = o.ID
    BY <1>1 DEF Restored, Order
  <2> QED BY <1>1, <2>1, <2>2, NoneAssumption
<1>3. o.SellerAddress \in Addresses /\ o.AmountToSell \in Amount
  BY <1>1 DEF Order
<1> HIDE DEF o, r
<1>4. /\ unrefunded \in TokenState
      /\ unrefunded.openOrders = ts.openOrders
      /\ unrefunded.orderUpdatesCount = ts.orderUpdatesCount
      /\ unrefunded.deletedOrders = [ts.deletedOrders EXCEPT ![id] = None]
  <2>1. CASE ts.deletedOrders[id] = None
    BY <2>1 DEF TokenState
  <2>2. CASE ts.deletedOrders[id] # None
    <3>1. Minus(ts.unclaimedFunds[o.SellerAddress], o.AmountToSell) \in Amount
      BY <1>3, MinusType DEF TokenState
    <3> QED BY <1>3, <2>2, <3>1 DEF TokenState
  <2> QED BY <2>1, <2>2
<1>5. us = [unrefunded EXCEPT !.unclaimedFunds[counterparty] = Minus(@, credit),
                              !.orderUpdatesCount[id] = @ - 1,
                              !.openOrders[id] = r]
  BY DEF Unfilled, Undelete, Reopen, o, r
<1> HIDE DEF unrefunded, us
<1>6. /\ Minus(unrefunded.unclaimedFunds[counterparty], credit) \in Amount
      /\ ts.orderUpdatesCount[id] \in Int
      /\ ts.orderUpdatesCount[id] - 1 \in Int
  BY <1>4, MinusType DEF TokenState
<1>7. /\ us \in TokenState
      /\ us.openOrders = [ts.openOrders EXCEPT ![id] = r]
      /\ us.orderUpdatesCount
           = [ts.orderUpdatesCount EXCEPT ![id] = ts.orderUpdatesCount[id] - 1]
      /\ us.deletedOrders = [ts.deletedOrders EXCEPT ![id] = None]
  BY <1>2, <1>4, <1>5, <1>6 DEF TokenState
<1>8. ts.orderUpdatesCount[id] - 1 # None
  BY <1>6, NoneAssumption
<1>9. OrdersFiled(us)
  <2>1. ASSUME NEW i \in OrderIDs, i # id
        PROVE  /\ us.openOrders[i] = ts.openOrders[i]
               /\ us.deletedOrders[i] = ts.deletedOrders[i]
               /\ us.orderUpdatesCount[i] = ts.orderUpdatesCount[i]
    BY <1>7, <2>1 DEF TokenState
  <2>2. /\ us.openOrders[id] = r /\ us.deletedOrders[id] = None
        /\ us.orderUpdatesCount[id] = ts.orderUpdatesCount[id] - 1
    BY <1>7 DEF TokenState
  <2> QED BY <1>2, <1>8, <2>1, <2>2 DEF OrdersFiled
<1> QED BY <1>7, <1>9 DEF us

\* The ledgers before and after match m differ in its ID and the counters of its
\* two orders, as far as matches are counted.
OneMatchMore(ledger, m, after) ==
  /\ after.usedMatchIDs = ledger.usedMatchIDs \cup {m.MatchID}
  /\ m.MatchID \notin ledger.usedMatchIDs
  /\ \A t \in Symbols : Exists(after, t) <=> Exists(ledger, t)
  /\ \A t \in Symbols, id \in OrderIDs : Exists(ledger, t) =>
       /\ after.tokenStates[t].orderUpdatesCount[id] = None
            <=> ledger.tokenStates[t].orderUpdatesCount[id] = None
       /\ ledger.tokenStates[t].orderUpdatesCount[id] # None =>
            after.tokenStates[t].orderUpdatesCount[id]
              = ledger.tokenStates[t].orderUpdatesCount[id]
                + (IF \/ t = m.BuySymbol /\ id = m.BuyOrderID
                      \/ t = m.SellSymbol /\ id = m.SellOrderID THEN 1 ELSE 0)

\* Then the matches in force before and that one are in force after it.
LEMMA MatchCounted ==
  ASSUME NEW ledger, NEW ms, KnownIn(ledger, ms), CountedIn(ledger, ms),
         NEW m \in MatchTx, m.BuySymbol # m.SellSymbol, m.SellerGain <= m.BuyerLoss,
         Exists(ledger, m.BuySymbol), Exists(ledger, m.SellSymbol),
         ledger.tokenStates[m.BuySymbol].orderUpdatesCount[m.BuyOrderID] # None,
         ledger.tokenStates[m.SellSymbol].orderUpdatesCount[m.SellOrderID] # None,
         NEW after, OneMatchMore(ledger, m, after)
  PROVE  m \notin ms /\ KnownIn(after, ms \cup {m}) /\ CountedIn(after, ms \cup {m})
<1> DEFINE more == ms \cup {m}
<1>1. IsFiniteSet(ms) /\ ms \subseteq MatchTx
  BY DEF KnownIn
<1>2. m \notin ms
  BY DEF OneMatchMore, CountedIn
<1>3. IsFiniteSet(more) /\ more \subseteq MatchTx
  BY <1>1, FS_AddElement
<1>4. KnownIn(after, more)
  <2> SUFFICES ASSUME NEW n \in more
               PROVE  /\ n.SellerGain <= n.BuyerLoss
                      /\ Exists(after, n.BuySymbol) /\ Exists(after, n.SellSymbol)
                      /\ after.tokenStates[n.BuySymbol].orderUpdatesCount[n.BuyOrderID] # None
                      /\ after.tokenStates[n.SellSymbol].orderUpdatesCount[n.SellOrderID] # None
    BY <1>3 DEF KnownIn
  <2>1. /\ n.BuySymbol \in Symbols /\ n.SellSymbol \in Symbols
        /\ n.BuyOrderID \in OrderIDs /\ n.SellOrderID \in OrderIDs
    BY <1>3, MatchFields
  <2>2. /\ n.SellerGain <= n.BuyerLoss
        /\ Exists(ledger, n.BuySymbol) /\ Exists(ledger, n.SellSymbol)
        /\ ledger.tokenStates[n.BuySymbol].orderUpdatesCount[n.BuyOrderID] # None
        /\ ledger.tokenStates[n.SellSymbol].orderUpdatesCount[n.SellOrderID] # None
    BY DEF KnownIn
  <2> HIDE DEF more
  <2> QED BY <2>1, <2>2 DEF OneMatchMore
<1>5. CountedIn(after, more)
  <2>1. after.usedMatchIDs = {n.MatchID : n \in more}
    BY DEF OneMatchMore, CountedIn
  <2> SUFFICES ASSUME NEW t \in Symbols, NEW id \in OrderIDs, Exists(after, t),
                      after.tokenStates[t].orderUpdatesCount[id] # None
               PROVE  after.tokenStates[t].orderUpdatesCount[id]
                        = Cardinality(MatchesBuying(more, t, id))
                          + Cardinality(MatchesSelling(more, t, id))
    BY <2>1 DEF CountedIn
  <2>2. Exists(ledger, t) /\ ledger.tokenStates[t].orderUpdatesCount[id] # None
    BY DEF OneMatchMore
  <2>3. ledger.tokenStates[t].orderUpdatesCount[id]
          = Cardinality(MatchesBuying(ms, t, id)) + Cardinality(MatchesSelling(ms, t, id))
    BY <2>2 DEF CountedIn
  <2>4. /\ Cardinality(MatchesBuying(ms, t, id)) \in Nat
        /\ Cardinality(MatchesSelling(ms, t, id)) \in Nat
        /\ Cardinality(MatchesBuying(more, t, id))
             = Cardinality(MatchesBuying(ms, t, id))
               + (IF m.BuySymbol = t /\ m.BuyOrderID = id THEN 1 ELSE 0)
        /\ Cardinality(MatchesSelling(more, t, id))
             = Cardinality(MatchesSelling(ms, t, id))
               + (IF m.SellSymbol = t /\ m.SellOrderID = id THEN 1 ELSE 0)
    BY <1>1, <1>2, CountsOfOneMore
  <2>5. after.tokenStates[t].orderUpdatesCount[id]
          = ledger.tokenStates[t].orderUpdatesCount[id]
            + (IF \/ t = m.BuySymbol /\ id = m.BuyOrderID
                  \/ t = m.SellSymbol /\ id = m.SellOrderID THEN 1 ELSE 0)
    BY <2>2 DEF OneMatchMore
  <2> HIDE DEF more
  <2> QED BY <2>3, <2>4, <2>5
<1> QED BY <1>2, <1>4, <1>5

\* And the other way round: without it, the others are in force.
LEMMA MatchUncounted ==
  ASSUME NEW ledger \in State, NEW ms, NEW after, KnownIn(after, ms), CountedIn(after, ms),
         NEW m \in ms, m.BuySymbol # m.SellSymbol, OneMatchMore(ledger, m, after),
         \A n \in ms : n.MatchID = m.MatchID => n = m
  PROVE  KnownIn(ledger, ms \ {m}) /\ CountedIn(ledger, ms \ {m})
<1> DEFINE less == ms \ {m}
<1>1. IsFiniteSet(ms) /\ ms \subseteq MatchTx
  BY DEF KnownIn
<1>2. /\ IsFiniteSet(less) /\ less \subseteq MatchTx /\ m \notin less
      /\ less \cup {m} = ms
  BY <1>1, FS_RemoveElement
<1>3. KnownIn(ledger, less)
  <2> SUFFICES ASSUME NEW n \in less
               PROVE  /\ n.SellerGain <= n.BuyerLoss
                      /\ Exists(ledger, n.BuySymbol) /\ Exists(ledger, n.SellSymbol)
                      /\ ledger.tokenStates[n.BuySymbol].orderUpdatesCount[n.BuyOrderID] # None
                      /\ ledger.tokenStates[n.SellSymbol].orderUpdatesCount[n.SellOrderID] # None
    BY <1>2 DEF KnownIn
  <2>1. /\ n.BuySymbol \in Symbols /\ n.SellSymbol \in Symbols
        /\ n.BuyOrderID \in OrderIDs /\ n.SellOrderID \in OrderIDs
    BY <1>2, MatchFields
  <2>2. /\ n.SellerGain <= n.BuyerLoss
        /\ Exists(after, n.BuySymbol) /\ Exists(after, n.SellSymbol)
        /\ after.tokenStates[n.BuySymbol].orderUpdatesCount[n.BuyOrderID] # None
        /\ after.tokenStates[n.SellSymbol].orderUpdatesCount[n.SellOrderID] # None
    BY DEF KnownIn
  <2> HIDE DEF less
  <2> QED BY <2>1, <2>2 DEF OneMatchMore
<1>4. CountedIn(ledger, less)
  <2>1. ledger.usedMatchIDs = {n.MatchID : n \in less}
    <3>1. after.usedMatchIDs = {n.MatchID : n \in ms}
      BY DEF CountedIn
    <3>2. /\ after.usedMatchIDs = ledger.usedMatchIDs \cup {m.MatchID}
          /\ m.MatchID \notin ledger.usedMatchIDs
      BY DEF OneMatchMore
    <3> QED BY <3>1, <3>2
  <2> SUFFICES ASSUME NEW t \in Symbols, NEW id \in OrderIDs, Exists(ledger, t),
                      ledger.tokenStates[t].orderUpdatesCount[id] # None
               PROVE  ledger.tokenStates[t].orderUpdatesCount[id]
                        = Cardinality(MatchesBuying(less, t, id))
                          + Cardinality(MatchesSelling(less, t, id))
    BY <2>1 DEF CountedIn
  <2>2. Exists(after, t) /\ after.tokenStates[t].orderUpdatesCount[id] # None
    BY DEF OneMatchMore
  <2>3. after.tokenStates[t].orderUpdatesCount[id]
          = Cardinality(MatchesBuying(ms, t, id)) + Cardinality(MatchesSelling(ms, t, id))
    BY <2>2 DEF CountedIn
  <2> HIDE DEF less
  <2>4. /\ Cardinality(MatchesBuying(less, t, id)) \in Nat
        /\ Cardinality(MatchesSelling(less, t, id)) \in Nat
        /\ Cardinality(MatchesBuying(less \cup {m}, t, id))
             = Cardinality(MatchesBuying(less, t, id))
               + (IF m.BuySymbol = t /\ m.BuyOrderID = id THEN 1 ELSE 0)
        /\ Cardinality(MatchesSelling(less \cup {m}, t, id))
             = Cardinality(MatchesSelling(less, t, id))
               + (IF m.SellSymbol = t /\ m.SellOrderID = id THEN 1 ELSE 0)
    BY <1>2, CountsOfOneMore
  <2>5. after.tokenStates[t].orderUpdatesCount[id]
          = ledger.tokenStates[t].orderUpdatesCount[id]
            + (IF \/ t = m.BuySymbol /\ id = m.BuyOrderID
                  \/ t = m.SellSymbol /\ id = m.SellOrderID THEN 1 ELSE 0)
    BY DEF OneMatchMore
  <2>6. ledger.tokenStates[t].orderUpdatesCount[id] \in Int \cup {None}
    BY DEF State, TokenState, Exists
  <2>7. ledger.tokenStates[t].orderUpdatesCount[id] \in Int
    BY <2>6
  <2>8. /\ MatchesBuying(less \cup {m}, t, id) = MatchesBuying(ms, t, id)
        /\ MatchesSelling(less \cup {m}, t, id) = MatchesSelling(ms, t, id)
    BY <1>2
  <2> DEFINE x == ledger.tokenStates[t].orderUpdatesCount[id]
             B == Cardinality(MatchesBuying(less, t, id))
             S == Cardinality(MatchesSelling(less, t, id))
             buys == m.BuySymbol = t /\ m.BuyOrderID = id
             sells == m.SellSymbol = t /\ m.SellOrderID = id
  <2>9. x + (IF buys \/ sells THEN 1 ELSE 0)
          = (B + (IF buys THEN 1 ELSE 0)) + (S + (IF sells THEN 1 ELSE 0))
    BY <2>3, <2>4, <2>5, <2>8
  <2>10. x \in Int /\ B \in Nat /\ S \in Nat /\ ~(buys /\ sells)
    BY <2>4, <2>7
  <2>11. x = B + S
    <3> HIDE DEF x, B, S, buys, sells
    <3> QED BY ONLY <2>9, <2>10
  <2> QED BY <2>11
<1> QED BY <1>3, <1>4

\* A match is added to those in force.
LEMMA MatchTallied ==
  ASSUME NEW ledger, NEW ms, Tallied(ledger, ms), NEW m \in MatchTx,
         Accepted(ledger, m), m.BuySymbol # m.SellSymbol
  PROVE  /\ m \notin ms
         /\ Tallied(Applied(ledger, m), ms \cup {m})
         /\ \A s \in Symbols : Exists(Applied(ledger, m), s) <=> Exists(ledger, s)
<1> DEFINE b == m.BuySymbol  s == m.SellSymbol
           i == m.BuyOrderID  j == m.SellOrderID
           bs == ledger.tokenStates[b]
           ss == ledger.tokenStates[s]
           buyer == bs.openOrders[i].SellerAddress
           seller == ss.openOrders[j].SellerAddress
           bs2 == Filled(bs, i, m.TransferAmt, m.BuyerLoss, seller, m.SellerGain)
           ss2 == Filled(ss, j, m.SellerGain, m.TransferAmt, buyer, m.TransferAmt)
           after == AddMatch(ledger, m)
           more == ms \cup {m}
<1>1. /\ b \in Symbols /\ s \in Symbols /\ i \in OrderIDs /\ j \in OrderIDs
      /\ m.TransferAmt \in Amount /\ m.BuyerLoss \in Amount /\ m.SellerGain \in Amount
      /\ m.type = "MATCH" /\ b # s
  BY MatchFields
<1>2. /\ Exists(ledger, b) /\ Exists(ledger, s) /\ m.MatchID \notin ledger.usedMatchIDs
      /\ bs.openOrders[i] # None /\ ss.openOrders[j] # None /\ m.SellerGain <= m.BuyerLoss
  BY <1>1 DEF Accepted, MatchAccepted
<1>3. /\ ledger \in State /\ LedgerFiled(ledger) /\ KnownIn(ledger, ms) /\ CountedIn(ledger, ms)
  BY DEF Tallied
<1>4. /\ bs \in TokenState /\ OrdersFiled(bs)
      /\ ss \in TokenState /\ OrdersFiled(ss)
  BY <1>1, <1>2, <1>3 DEF LedgerFiled, State, Exists
<1>5. /\ bs.orderUpdatesCount[i] # None /\ bs.orderUpdatesCount[i] \in Int
      /\ ss.orderUpdatesCount[j] # None /\ ss.orderUpdatesCount[j] \in Int
  BY <1>1, <1>2, <1>4 DEF OrdersFiled, TokenState
<1>6. buyer \in Addresses /\ seller \in Addresses
  <2>1. bs.openOrders[i] \in Order /\ ss.openOrders[j] \in Order
    BY <1>1, <1>2, <1>4 DEF TokenState
  <2> QED BY <2>1 DEF Order
<1>7. /\ after.tokenStates = [ledger.tokenStates EXCEPT ![b] = bs2, ![s] = ss2]
      /\ after.usedMatchIDs = ledger.usedMatchIDs \cup {m.MatchID}
  BY <1>1, <1>3, AddMatchOfTwo
<1>8. after = Applied(ledger, m)
  BY <1>1 DEF Applied
<1>9. after \in State /\ LedgerFiled(after)
  <2>1. m \in Transaction
    BY DEF Transaction
  <2> QED BY <1>1, <1>3, <1>8, <2>1, AcceptedStep DEF BetweenTokens
<1> HIDE DEF buyer, seller, after, bs, ss, b, s, i, j
<1>10. bs2 \in TokenState /\ ss2 \in TokenState
  BY <1>1, <1>2, <1>4, <1>5, <1>6, FilledType
<1>11. /\ bs2.orderUpdatesCount = [bs.orderUpdatesCount EXCEPT ![i] = bs.orderUpdatesCount[i] + 1]
       /\ ss2.orderUpdatesCount = [ss.orderUpdatesCount EXCEPT ![j] = ss.orderUpdatesCount[j] + 1]
  BY <1>1, <1>2, <1>4, FilledCounts
<1>12. \A k \in OrderIDs : /\ k # i => bs2.deletedOrders[k] = bs.deletedOrders[k]
                           /\ k # j => ss2.deletedOrders[k] = ss.deletedOrders[k]
  BY <1>1, <1>2, <1>4, FilledOthers
<1> HIDE DEF bs2, ss2
<1>13. /\ after.tokenStates[b] = bs2 /\ bs2 # None
       /\ after.tokenStates[s] = ss2 /\ ss2 # None
       /\ \A t \in Symbols : t # b /\ t # s => after.tokenStates[t] = ledger.tokenStates[t]
  BY <1>1, <1>3, <1>7, <1>10, NoneAssumption DEF State
<1>14. \A t \in Symbols : Exists(after, t) <=> Exists(ledger, t)
  BY <1>2, <1>13 DEF Exists
<1>15. \A t \in Symbols, id \in OrderIDs :
         after.tokenStates[t].orderUpdatesCount[id]
           = IF (t = b /\ id = i) \/ (t = s /\ id = j)
             THEN ledger.tokenStates[t].orderUpdatesCount[id] + 1
             ELSE ledger.tokenStates[t].orderUpdatesCount[id]
  <2> SUFFICES ASSUME NEW t \in Symbols, NEW id \in OrderIDs
               PROVE  after.tokenStates[t].orderUpdatesCount[id]
                        = IF (t = b /\ id = i) \/ (t = s /\ id = j)
                          THEN ledger.tokenStates[t].orderUpdatesCount[id] + 1
                          ELSE ledger.tokenStates[t].orderUpdatesCount[id]
    OBVIOUS
  <2>1. CASE t = b
    BY <1>1, <1>4, <1>11, <1>13, <2>1 DEF TokenState, bs
  <2>2. CASE t = s
    BY <1>1, <1>4, <1>11, <1>13, <2>2 DEF TokenState, ss
  <2>3. CASE t # b /\ t # s
    BY <1>13, <2>3
  <2> QED BY <2>1, <2>2, <2>3
<1>16. \A t \in Symbols, id \in OrderIDs : Exists(ledger, t) =>
         ledger.tokenStates[t].orderUpdatesCount[id] \in Int \cup {None}
  BY <1>3 DEF State, TokenState, Exists
<1>17. OneMatchMore(ledger, m, after)
  <2>1. \A n \in Int : n + 1 # None /\ n + 1 \in Int /\ n # None
    BY NoneAssumption
  <2>2. ASSUME NEW t \in Symbols, NEW id \in OrderIDs, Exists(ledger, t)
        PROVE  /\ after.tokenStates[t].orderUpdatesCount[id] = None
                    <=> ledger.tokenStates[t].orderUpdatesCount[id] = None
               /\ ledger.tokenStates[t].orderUpdatesCount[id] # None =>
                    after.tokenStates[t].orderUpdatesCount[id]
                      = ledger.tokenStates[t].orderUpdatesCount[id]
                        + (IF (t = b /\ id = i) \/ (t = s /\ id = j) THEN 1 ELSE 0)
    <3>1. CASE (t = b /\ id = i) \/ (t = s /\ id = j)
      BY <1>5, <1>15, <2>1, <3>1 DEF bs, ss
    <3>2. CASE ~((t = b /\ id = i) \/ (t = s /\ id = j))
      <4>1. after.tokenStates[t].orderUpdatesCount[id] = ledger.tokenStates[t].orderUpdatesCount[id]
        BY <1>15, <3>2
      <4> QED BY <1>16, <2>2, <3>2, <4>1
    <3> QED BY <3>1, <3>2
  <2> QED BY <1>2, <1>7, <1>14, <2>2 DEF OneMatchMore, b, s, i, j
<1>18. m \notin ms /\ KnownIn(after, more) /\ CountedIn(after, more)
  <2>1. /\ b # s /\ m.SellerGain <= m.BuyerLoss /\ Exists(ledger, b) /\ Exists(ledger, s)
        /\ ledger.tokenStates[b].orderUpdatesCount[i] # None
        /\ ledger.tokenStates[s].orderUpdatesCount[j] # None
    BY <1>1, <1>2, <1>5 DEF bs, ss
  <2> QED BY <1>3, <1>17, <2>1, MatchCounted DEF b, s, i, j
<1>19. \A n \in more : n.BuySymbol # n.SellSymbol
  BY <1>1 DEF Tallied, b, s
<1>20. \A n, o \in more : n.MatchID = o.MatchID => n = o
  <2>1. \A n \in ms : n.MatchID # m.MatchID
    BY <1>2, <1>3 DEF CountedIn
  <2> QED BY <2>1 DEF Tallied
<1>21. ASSUME NEW t \in Symbols, NEW id \in OrderIDs, Exists(after, t),
              after.tokenStates[t].deletedOrders[id] # None
       PROVE  after.tokenStates[t].orderUpdatesCount[id] # 0
  <2>1. \A u \in Symbols, k \in OrderIDs :
          Exists(ledger, u) /\ ledger.tokenStates[u].deletedOrders[k] # None =>
            ledger.tokenStates[u].orderUpdatesCount[k] # 0
    BY DEF Tallied
  <2>2. CASE (t = b /\ id = i) \/ (t = s /\ id = j)
    <3>1. Cardinality(MatchesBuying(ms, t, id)) \in Nat /\ Cardinality(MatchesSelling(ms, t, id)) \in Nat
      BY CountsAreNat, <1>3 DEF KnownIn
    <3>2. ledger.tokenStates[t].orderUpdatesCount[id]
            = Cardinality(MatchesBuying(ms, t, id)) + Cardinality(MatchesSelling(ms, t, id))
      BY <1>2, <1>3, <1>5, <2>2 DEF CountedIn, bs, ss
    <3>3. after.tokenStates[t].orderUpdatesCount[id]
            = ledger.tokenStates[t].orderUpdatesCount[id] + 1
      BY <1>15, <2>2
    <3> QED BY <3>1, <3>2, <3>3
  <2>3. CASE ~((t = b /\ id = i) \/ (t = s /\ id = j))
    <3>1. after.tokenStates[t].orderUpdatesCount[id] = ledger.tokenStates[t].orderUpdatesCount[id]
      BY <1>15, <2>3
    <3>2. after.tokenStates[t].deletedOrders[id] = ledger.tokenStates[t].deletedOrders[id]
      BY <1>1, <1>12, <1>13, <2>3 DEF bs, ss
    <3> QED BY <1>14, <1>21, <2>1, <3>1, <3>2
  <2> QED BY <2>2, <2>3
<1>22. Tallied(after, more)
  BY <1>9, <1>18, <1>19, <1>20, <1>21 DEF Tallied
<1> QED BY <1>8, <1>14, <1>18, <1>22

\* The order that a match is undone on: one that has a counter is in the ledger.
LEMMA OrderForMatchType ==
  ASSUME NEW ts \in TokenState, OrdersFiled(ts),
         NEW id \in OrderIDs, ts.orderUpdatesCount[id] # None
  PROVE  OrderForMatch(ts, id) \in Order /\ OrderForMatch(ts, id).ID = id
BY DEF OrderForMatch, OrdersFiled, TokenState

\* A match in force is undone, whether or not it is the last.
LEMMA MatchUntallied ==
  ASSUME NEW ledger, NEW ms, Tallied(ledger, ms), NEW m \in ms
  PROVE  LET before == RollbackMatch(ledger, m)
         IN /\ Tallied(before, ms \ {m})
            /\ \A t \in Symbols : Exists(before, t) <=> Exists(ledger, t)
            /\ \A t \in Symbols, id \in OrderIDs : Exists(ledger, t) =>
                 (before.tokenStates[t].orderUpdatesCount[id] = None
                    <=> ledger.tokenStates[t].orderUpdatesCount[id] = None)
<1> DEFINE b == m.BuySymbol  s == m.SellSymbol
           i == m.BuyOrderID  j == m.SellOrderID
           bs == ledger.tokenStates[b]
           ss == ledger.tokenStates[s]
           buyer == OrderForMatch(bs, i).SellerAddress
           seller == OrderForMatch(ss, j).SellerAddress
           bs2 == Unfilled(bs, i, m.TransferAmt, m.BuyerLoss, seller, m.SellerGain)
           ss2 == Unfilled(ss, j, m.SellerGain, m.TransferAmt, buyer, m.TransferAmt)
           before == RollbackMatch(ledger, m)
<1>1. /\ ledger \in State /\ LedgerFiled(ledger) /\ KnownIn(ledger, ms) /\ CountedIn(ledger, ms)
      /\ m \in MatchTx /\ b # s
      /\ \A n \in ms : n.MatchID = m.MatchID => n = m
  BY DEF Tallied, KnownIn
<1>2. /\ b \in Symbols /\ s \in Symbols /\ i \in OrderIDs /\ j \in OrderIDs
      /\ m.TransferAmt \in Amount /\ m.BuyerLoss \in Amount /\ m.SellerGain \in Amount
  BY <1>1, MatchFields
<1>3. /\ Exists(ledger, b) /\ Exists(ledger, s)
      /\ bs.orderUpdatesCount[i] # None /\ ss.orderUpdatesCount[j] # None
  BY <1>1 DEF KnownIn
<1>4. /\ bs \in TokenState /\ OrdersFiled(bs)
      /\ ss \in TokenState /\ OrdersFiled(ss)
  BY <1>1, <1>2, <1>3 DEF LedgerFiled, State, Exists
<1>5. buyer \in Addresses /\ seller \in Addresses
  <2>1. OrderForMatch(bs, i) \in Order /\ OrderForMatch(ss, j) \in Order
    BY <1>2, <1>3, <1>4, OrderForMatchType
  <2> QED BY <2>1 DEF Order
<1>6. /\ before.tokenStates = [ledger.tokenStates EXCEPT ![b] = bs2, ![s] = ss2]
      /\ before.usedMatchIDs = ledger.usedMatchIDs \ {m.MatchID}
      /\ before = [tokenStates |-> before.tokenStates, usedMatchIDs |-> before.usedMatchIDs]
  BY <1>1, <1>2, RollbackMatchOfTwo
<1> HIDE DEF buyer, seller, before, bs, ss, b, s, i, j
<1>7. /\ bs2 \in TokenState /\ OrdersFiled(bs2)
      /\ bs2.orderUpdatesCount = [bs.orderUpdatesCount EXCEPT ![i] = bs.orderUpdatesCount[i] - 1]
      /\ bs2.deletedOrders = [bs.deletedOrders EXCEPT ![i] = None]
  BY <1>2, <1>3, <1>4, <1>5, UnfilledStep
<1>8. /\ ss2 \in TokenState /\ OrdersFiled(ss2)
      /\ ss2.orderUpdatesCount = [ss.orderUpdatesCount EXCEPT ![j] = ss.orderUpdatesCount[j] - 1]
      /\ ss2.deletedOrders = [ss.deletedOrders EXCEPT ![j] = None]
  BY ONLY <1>2, <1>3, <1>4, <1>5, UnfilledStep DEF ss2
<1> HIDE DEF bs2, ss2
<1>9. /\ before.tokenStates[b] = bs2 /\ bs2 # None
      /\ before.tokenStates[s] = ss2 /\ ss2 # None
      /\ \A t \in Symbols : t # b /\ t # s => before.tokenStates[t] = ledger.tokenStates[t]
  BY <1>1, <1>2, <1>6, <1>7, <1>8, NoneAssumption DEF State
<1>10. before \in State
  BY <1>1, <1>2, <1>6, <1>7, <1>8 DEF State
<1>11. \A t \in Symbols : Exists(before, t) <=> Exists(ledger, t)
  BY <1>3, <1>9 DEF Exists
<1>12. LedgerFiled(before)
  BY <1>1, <1>7, <1>8, <1>9, <1>11 DEF LedgerFiled, Exists
<1>13. \A t \in Symbols, id \in OrderIDs :
         before.tokenStates[t].orderUpdatesCount[id]
           = IF (t = b /\ id = i) \/ (t = s /\ id = j)
             THEN ledger.tokenStates[t].orderUpdatesCount[id] - 1
             ELSE ledger.tokenStates[t].orderUpdatesCount[id]
  <2> SUFFICES ASSUME NEW t \in Symbols, NEW id \in OrderIDs
               PROVE  before.tokenStates[t].orderUpdatesCount[id]
                        = IF (t = b /\ id = i) \/ (t = s /\ id = j)
                          THEN ledger.tokenStates[t].orderUpdatesCount[id] - 1
                          ELSE ledger.tokenStates[t].orderUpdatesCount[id]
    OBVIOUS
  <2>1. CASE t = b
    BY <1>1, <1>4, <1>7, <1>9, <2>1 DEF TokenState, bs
  <2>2. CASE t = s
    BY <1>1, <1>4, <1>8, <1>9, <2>2 DEF TokenState, ss
  <2>3. CASE t # b /\ t # s
    BY <1>9, <2>3
  <2> QED BY <2>1, <2>2, <2>3
<1>14. \A t \in Symbols, id \in OrderIDs : Exists(ledger, t) =>
         ledger.tokenStates[t].orderUpdatesCount[id] \in Int \cup {None}
  BY <1>1 DEF State, TokenState, Exists
<1>15. OneMatchMore(before, m, ledger)
  <2>1. \A n \in Int : n - 1 # None /\ n - 1 \in Int /\ n # None /\ (n - 1) + 1 = n /\ n + 0 = n
    BY NoneAssumption
  <2>2. /\ ledger.usedMatchIDs = before.usedMatchIDs \cup {m.MatchID}
        /\ m.MatchID \notin before.usedMatchIDs
    <3>1. m.MatchID \in ledger.usedMatchIDs
      BY <1>1 DEF CountedIn
    <3> QED BY <1>6, <3>1
  <2>3. ASSUME NEW t \in Symbols, NEW id \in OrderIDs, Exists(before, t)
        PROVE  /\ ledger.tokenStates[t].orderUpdatesCount[id] = None
                    <=> before.tokenStates[t].orderUpdatesCount[id] = None
               /\ before.tokenStates[t].orderUpdatesCount[id] # None =>
                    ledger.tokenStates[t].orderUpdatesCount[id]
                      = before.tokenStates[t].orderUpdatesCount[id]
                        + (IF (t = b /\ id = i) \/ (t = s /\ id = j) THEN 1 ELSE 0)
    <3>1. CASE (t = b /\ id = i) \/ (t = s /\ id = j)
      <4>1. /\ ledger.tokenStates[t].orderUpdatesCount[id] \in Int
            /\ before.tokenStates[t].orderUpdatesCount[id]
                 = ledger.tokenStates[t].orderUpdatesCount[id] - 1
        BY <1>3, <1>11, <1>13, <1>14, <2>3, <3>1 DEF bs, ss
      <4> QED BY <2>1, <3>1, <4>1
    <3>2. CASE ~((t = b /\ id = i) \/ (t = s /\ id = j))
      <4>1. before.tokenStates[t].orderUpdatesCount[id] = ledger.tokenStates[t].orderUpdatesCount[id]
        BY <1>13, <3>2
      <4> QED BY <1>11, <1>14, <2>1, <2>3, <3>2, <4>1
    <3> QED BY <3>1, <3>2
  <2> QED BY <1>11, <2>2, <2>3 DEF OneMatchMore, b, s, i, j
<1>16. KnownIn(before, ms \ {m}) /\ CountedIn(before, ms \ {m})
  BY <1>1, <1>10, <1>15, MatchUncounted DEF b, s
<1>17. ASSUME NEW t \in Symbols, NEW id \in OrderIDs, Exists(before, t),
              before.tokenStates[t].deletedOrders[id] # None
       PROVE  before.tokenStates[t].orderUpdatesCount[id] # 0
  <2>1. \A u \in Symbols, k \in OrderIDs :
          Exists(ledger, u) /\ ledger.tokenStates[u].deletedOrders[k] # None =>
            ledger.tokenStates[u].orderUpdatesCount[k] # 0
    BY DEF Tallied
  <2>2. ~((t = b /\ id = i) \/ (t = s /\ id = j))
    BY <1>2, <1>4, <1>7, <1>8, <1>9, <1>17 DEF TokenState
  <2>3. before.tokenStates[t].orderUpdatesCount[id] = ledger.tokenStates[t].orderUpdatesCount[id]
    BY <1>13, <2>2
  <2>4. before.tokenStates[t].deletedOrders[id] = ledger.tokenStates[t].deletedOrders[id]
    BY <1>2, <1>4, <1>7, <1>8, <1>9, <2>2 DEF TokenState, bs, ss
  <2> QED BY <1>11, <1>17, <2>1, <2>3, <2>4
<1>18. Tallied(before, ms \ {m})
  <2>1. \A n \in ms \ {m} : n.BuySymbol # n.SellSymbol
    BY DEF Tallied
  <2>2. \A n, o \in ms \ {m} : n.MatchID = o.MatchID => n = o
    BY DEF Tallied
  <2> QED BY <1>10, <1>12, <1>16, <1>17, <2>1, <2>2 DEF Tallied
<1>19. \A t \in Symbols, id \in OrderIDs : Exists(ledger, t) =>
         (before.tokenStates[t].orderUpdatesCount[id] = None
            <=> ledger.tokenStates[t].orderUpdatesCount[id] = None)
  BY <1>11, <1>15 DEF OneMatchMore
<1> QED BY <1>11, <1>18, <1>19 DEF before

=============================================================================
