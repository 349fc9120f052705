------------------------------ MODULE Blockchains ------------------------------
(***************************************************************************)
(* The blockchains of a node (blockchains.go, blockchain.go): one chain of *)
(* matches and created tokens, one chain for each token, all on one ledger *)
(* (ConsensusState), and the order books of what is in their blocks.       *)
(* Blocks come from peers, reconcileChain rolls chains back to a fork,     *)
(* clients' transactions are applied while they wait for a block of the    *)
(* node, the node stops and replays its database.  Every action but those  *)
(* of the recovery is a critical section of chainsLock.  The node has not  *)
(* found a block of its own yet: what becomes of a mined block is not in   *)
(* this module.                                                            *)
(***************************************************************************)
EXTENDS Orderbook, SequencesExt

CONSTANTS
  StartBlocks,     \* blocks a node has at first, the genesis block leading
  PeerBlocks,      \* blocks that peers offer, [symbol, txs]
  MempoolTxs,      \* transactions that clients, peers and the matcher offer
  MaxHeight,       \* bound: blocks on a chain
  MaxUncommitted,  \* bound: transactions in a list
  MaxCrashes       \* bound: stops other than by a panic

Chains == Symbols \cup {MatchChain}
Block == Seq(Transaction)

ASSUME BlocksAssumption ==
  /\ MatchChain \notin Symbols
  /\ StartBlocks \in Seq([symbol : Chains, txs : Block])
  /\ PeerBlocks \subseteq [symbol : Chains, txs : Block]
  /\ \A b \in ToSet(StartBlocks) \cup PeerBlocks : \A i \in DOMAIN b.txs :
       b.txs[i].chain = b.symbol
  /\ MempoolTxs \subseteq Transaction
  /\ {MaxHeight, MaxUncommitted, MaxCrashes} \subseteq Nat

VARIABLES
  bcs,       \* the Blockchains struct
  chosen,    \* minerChosenToken
  replayed,  \* restoreFromDatabase: how many blocks of a chain are applied
  crashes    \* stops other than by a panic, so far

vars == <<bcs, chosen, replayed, crashes>>

\* A block is the sequence of its transactions in the order they are applied,
\* and a tip hash stands for all the blocks up to it.  The blocks are those in
\* the database; a token's Blockchain is in memory exactly while the ledger
\* has its state, and the height of a Blockchain is counted apart from the
\* blocks in the bucket it was opened on.  A panic leaves only the database.
\* cascades counts the rollbacks of the match chain within a critical section:
\* each sends MATCH_CHAIN to stopMiningCh.
Blockchains ==
  [cs : State, chains : [Chains -> Seq(Block)], height : [Chains -> Nat],
   mempoolUncommitted : [Chains -> Seq(Transaction)], books : Books,
   recovering : BOOLEAN, panicked : BOOLEAN, cascades : Nat]

HasChain(b, s) == s # MatchChain => Exists(b.cs, s)
Panic(b) == [b EXCEPT !.panicked = TRUE]

-----------------------------------------------------------------------------
\* Adding.

\* Blockchain.AddBlock: a block on top of the chain in the database.
Appended(b, s, txs) ==
  [b EXCEPT !.chains[s] = Append(@, txs), !.height[s] = @ + 1]

TokenGenesis(c) ==
  [type |-> "CLAIM_FUNDS", chain |-> c.Symbol,
   Address |-> c.CreatorAddress, Amount |-> c.TotalSupply]

\* NewBlockchain opens the bucket that is there, if one is.  The genesis block
\* fits an empty bucket only, and its result is not looked at; a recovery
\* leaves it to the replay of the bucket.
AddTokenChain(b, c) ==
  LET s == c.Symbol
      opened == [b EXCEPT
        !.cs.tokenStates[s] = UnclaimedToken(c.TotalSupply, c.CreatorAddress),
        !.mempoolUncommitted[s] = <<>>,
        !.height[s] = IF b.recovering THEN Len(b.chains[s]) ELSE 0]
  IN IF b.recovering \/ b.chains[s] # <<>> THEN opened
     ELSE [opened EXCEPT !.cs.tokenStates[s] = AddClaimFunds(@, TokenGenesis(c)),
                         !.chains[s] = <<<<TokenGenesis(c)>>>>,
                         !.height[s] = 1]

\* Mutant: the matcher is told of a match that waits for a block.
AddTx_TellsMatcher(b, tx) ==
  CASE tx.type = "CREATE_TOKEN" -> AddTokenChain(b, tx)
    [] tx.type = "MATCH" ->
         [b EXCEPT !.cs = Applied(@, tx),
                   !.books = WithBookOfMatch(@, tx, ApplyMatch(BookOfMatch(@, tx), tx))]
    [] OTHER -> [b EXCEPT !.cs = Applied(@, tx)]

AddTx(b, tx) ==
  IF tx.type = "CREATE_TOKEN" THEN AddTokenChain(b, tx)
  ELSE [b EXCEPT !.cs = Applied(@, tx)]

\* Mutant: the matcher is told of orders only.
IntoBooks_OrdersOnly(b, tx) ==
  IF tx.type = "ORDER" THEN [b EXCEPT !.books = BookOrder(@, tx.order, tx.chain)]
  ELSE b

\* The matcher is told of orders and matches, its answer to a cancel is a TODO.
\* A match whose orders are not in its book makes it panic, and so does a match of a
\* token with itself or an order that buys what it sells, which have no book.
IntoBooks(b, tx) ==
  IF b.panicked THEN b
  ELSE CASE tx.type = "ORDER" ->
              IF HasBook(tx.chain, tx.order.BuySymbol)
              THEN [b EXCEPT !.books = BookOrder(@, tx.order, tx.chain)]
              ELSE Panic(b)
         [] tx.type = "MATCH" ->
              IF HasBook(tx.BuySymbol, tx.SellSymbol) /\ InBook(BookOfMatch(b.books, tx), tx)
              THEN [b EXCEPT !.books =
                      WithBookOfMatch(@, tx, ApplyMatch(BookOfMatch(@, tx), tx))]
              ELSE Panic(b)
         [] OTHER -> b

\* A transaction of a block; AddTx is one that waits for a block.
AddMinedTx(b, tx) == IntoBooks(AddTx(b, tx), tx)

\* addTokenData and addMatchData: up to the first transaction refused.
AddNext(r, tx) ==
  IF ~r.ok \/ r.bcs.panicked THEN r
  ELSE IF Accepted(r.bcs.cs, tx)
  THEN [bcs |-> AddMinedTx(r.bcs, tx), added |-> Append(r.added, tx), ok |-> TRUE]
  ELSE [r EXCEPT !.bcs.cs = AfterRejected(@, tx), !.ok = FALSE]

AddData(b, txs) == FoldLeft(AddNext, [bcs |-> b, added |-> <<>>, ok |-> TRUE], txs)

-----------------------------------------------------------------------------
\* Undoing.  Once the code panics nothing more is done.

RemoveTokenChain(b, s) ==
  [b EXCEPT !.cs.tokenStates[s] = None, !.chains[s] = <<>>, !.height[s] = 0,
            !.mempoolUncommitted[s] = <<>>]

\* Mutant: the height is lowered twice.
RemoveLastBlock_Twice(b, s) ==
  [b EXCEPT !.chains[s] = Front(@), !.height[s] = @ - 2]

RemoveLastBlock(b, s) ==
  [b EXCEPT !.chains[s] = Front(@), !.height[s] = @ - 1]

\* A match that cannot be undone panics before it would roll back a token.
UndoMatchChainTx(tx, b) ==
  IF b.panicked THEN b
  ELSE IF ~Undoable(b.cs, tx) THEN Panic(b)
  ELSE IF tx.type = "CREATE_TOKEN" THEN RemoveTokenChain(b, tx.Symbol)
  ELSE [b EXCEPT !.cs = Undone(@, tx)]

\* Mutant: the matcher takes the match back from its books only if both orders
\* are still there.
OutOfBooks_IfBooked(undone, tx, b) ==
  IF undone.panicked THEN undone
  ELSE CASE tx.type = "ORDER" ->
              [undone EXCEPT !.books = UnbookOrder(@, tx.order, tx.chain)]
         [] tx.type = "MATCH" /\ InBook(BookOfMatch(b.books, tx), tx) ->
              [undone EXCEPT !.books =
                 WithBookOfMatch(@, tx, UnapplyMatch(BookOfMatch(@, tx), tx,
                                                    BookOfMatch(@, tx)))]
         [] OTHER -> undone

\* b with a transaction of a block undone is undone; now the matcher takes it
\* from its books.  An order that a match takes out of the book comes back as
\* the ledger had it before the match was undone.
OutOfBooks(undone, tx, b) ==
  LET buy == OrderForMatch(b.cs.tokenStates[tx.BuySymbol], tx.BuyOrderID)
      sell == OrderForMatch(b.cs.tokenStates[tx.SellSymbol], tx.SellOrderID)
      backup == IF tx.BuySymbol = MatchBase(tx) THEN [buyers |-> buy, sellers |-> sell]
                ELSE [buyers |-> sell, sellers |-> buy]
  IN IF undone.panicked THEN undone
     ELSE CASE tx.type = "ORDER" ->
                 [undone EXCEPT !.books = UnbookOrder(@, tx.order, tx.chain)]
            [] tx.type = "MATCH" ->
                 [undone EXCEPT !.books =
                    WithBookOfMatch(@, tx, UnapplyMatch(BookOfMatch(@, tx), tx, backup))]
            [] OTHER -> undone

UndoMinedMatchTx(tx, b) == OutOfBooks(UndoMatchChainTx(tx, b), tx, b)

RollbackMatchBlock(b) ==
  FoldRight(UndoMinedMatchTx, Last(b.chains[MatchChain]), RemoveLastBlock(b, MatchChain))

\* Mutant: the list is dropped and its effects stay.
ForgetMatches_EffectsStay(b) ==
  [b EXCEPT !.mempoolUncommitted[MatchChain] = <<>>]

ForgetMatches(b) ==
  IF b.recovering THEN b
  ELSE [FoldRight(UndoMatchChainTx, b.mempoolUncommitted[MatchChain], b)
          EXCEPT !.mempoolUncommitted[MatchChain] = <<>>]

Cascading(b) == [b EXCEPT !.cascades = @ + 1]

Updates(b, s, id) ==
  IF Exists(b.cs, s) THEN b.cs.tokenStates[s].orderUpdatesCount[id] ELSE None

\* Mutant: one block of the match chain is enough.
RollbackUntilOrderFree_OneBlock(b, s, id) ==
  IF Updates(b, s, id) = 0 THEN b ELSE RollbackMatchBlock(ForgetMatches(b))

\* The updates that the matches of a list are to order id of token s.
UpdatesOn(txs, s, id) ==
  LET matches == {tx \in ToSet(txs) : tx.type = "MATCH"}
  IN Cardinality(MatchesBuying(matches, s, id)) + Cardinality(MatchesSelling(matches, s, id))

\* One more block of the match chain goes, while the order has updates left.
FreeOrder(r, order) ==
  IF r.bcs.panicked \/ r.count = 0 THEN r
  ELSE [bcs |-> RollbackMatchBlock(Cascading(r.bcs)),
        count |-> r.count - UpdatesOn(Last(r.bcs.chains[MatchChain]),
                                      order.chain, order.id)]

\* RollbackUntilRollbackOrderSucceeds: forget the uncommitted matches, then
\* remove blocks of the match chain until the counter of the order is 0.  The
\* code holds on to the token's state for the counter, also when the token's
\* creation is undone on the way; it then panics on the state that is gone.
\* With no block left to remove it turns for ever: nothing more is done either.
RollbackUntilOrderFree(b, s, id) ==
  LET uncommitted == UpdatesOn(b.mempoolUncommitted[MatchChain], s, id)
      forgotten == [bcs |-> ForgetMatches(Cascading(b)),
                    count |-> Updates(b, s, id) - uncommitted]
      freed == FoldLeft(FreeOrder, forgotten,
                        [i \in DOMAIN b.chains[MatchChain] |-> [chain |-> s, id |-> id]])
  IN IF Updates(b, s, id) = 0 THEN b
     ELSE IF Updates(b, s, id) = None THEN Panic(b)
     ELSE IF freed.count # 0 \/ ~Exists(freed.bcs.cs, s) THEN Panic(freed.bcs)
     ELSE freed.bcs

UndoTx(tx, b) ==
  LET freed == RollbackUntilOrderFree(b, tx.chain, tx.order.ID)
  IN IF b.panicked THEN b
     ELSE IF tx.chain = MatchChain THEN UndoMatchChainTx(tx, b)
     ELSE IF tx.type # "ORDER" THEN [b EXCEPT !.cs = Undone(@, tx)]
     ELSE IF freed.panicked THEN freed
     ELSE [freed EXCEPT !.cs = Undone(@, tx)]

UndoTransactions(b, txs) == FoldRight(UndoTx, txs, b)

\* The same for transactions of a block, which are in the books too.
UndoMinedTx(tx, b) == OutOfBooks(UndoTx(tx, b), tx, b)

UndoMinedTransactions(b, txs) == FoldRight(UndoMinedTx, txs, b)

\* undoTransactions on the list of a chain, and the new list.
ForgetUncommitted(b, s) ==
  [UndoTransactions(b, b.mempoolUncommitted[s])
     EXCEPT !.mempoolUncommitted[s] = <<>>]

\* Mutant: the unfreezes of the height below are rolled back.
RollbackTokenBlock_HeightAfter(b, s) ==
  UndoMinedTransactions(
    RemoveLastBlock(
      [b EXCEPT !.cs.tokenStates[s] =
         RollbackUnfreezesForBlock(@, b.height[s] - 1)], s),
    Last(b.chains[s]))

RollbackTokenBlock(b, s) ==
  UndoMinedTransactions(
    RemoveLastBlock(
      [b EXCEPT !.cs.tokenStates[s] = RollbackUnfreezesForBlock(@, b.height[s])], s),
    Last(b.chains[s]))

RollbackBlock(b, s) ==
  IF b.panicked THEN b
  ELSE IF s = MatchChain THEN RollbackMatchBlock(b)
  ELSE RollbackTokenBlock(b, s)

RollbackBlocks(b, s, n) == FoldLeft(RollbackBlock, b, [i \in 1 .. n |-> s])

-----------------------------------------------------------------------------
\* Mutants: a refused block is undone from its end, with what was not added; the
\* unfreezes are those of the height below.
AddBlockTo_UndoesAll(b, block, fits) ==
  LET r == AddData(b, block.txs)
  IN IF ~fits \/ b.panicked THEN b
     ELSE IF r.bcs.panicked THEN r.bcs
     ELSE IF ~r.ok THEN UndoMinedTransactions(r.bcs, block.txs)
     ELSE Appended(r.bcs, block.symbol, block.txs)
AddBlockTo_UnfreezesLate(b, block, fits) ==
  LET s == block.symbol
      r == AddData(b, block.txs)
      added == IF s = MatchChain THEN r.bcs
               ELSE [r.bcs EXCEPT !.cs.tokenStates[s] =
                       ApplyUnfreezesForBlock(@, b.height[s])]
  IN IF ~fits \/ b.panicked THEN b
     ELSE IF r.bcs.panicked THEN r.bcs
     ELSE IF ~r.ok THEN UndoMinedTransactions(r.bcs, r.added)
     ELSE Appended(added, s, block.txs)

\* AddBlocks with the one block its callers give it; fits is whether its
\* PrevBlockHash is the tip's.
AddBlockTo(b, block, fits) ==
  LET s == block.symbol
      r == AddData(b, block.txs)
      added == IF s = MatchChain THEN r.bcs
               ELSE [r.bcs EXCEPT !.cs.tokenStates[s] =
                       ApplyUnfreezesForBlock(@, b.height[s] + 1)]
  IN IF ~fits \/ b.panicked THEN b
     ELSE IF r.bcs.panicked THEN r.bcs
     ELSE IF ~r.ok THEN UndoMinedTransactions(r.bcs, r.added)
     ELSE Appended(added, s, block.txs)

\* A database just created, and one just opened.
Opened(chains, recovering) ==
  [cs |-> NewConsensusState, chains |-> chains,
   height |-> [s \in Chains |-> IF s = MatchChain THEN Len(chains[s]) ELSE 0],
   mempoolUncommitted |-> [s \in Chains |-> <<>>], books |-> NoBooks,
   recovering |-> recovering, panicked |-> FALSE, cascades |-> 0]

\* A block that a node starts with; it needs its chain as any other does.
AddStartBlock(b, block) ==
  IF HasChain(b, block.symbol) THEN AddBlockTo(b, block, TRUE) ELSE b

Init ==
  /\ bcs = FoldLeft(AddStartBlock, Opened([s \in Chains |-> <<>>], FALSE), StartBlocks)
  /\ chosen \in {s \in Chains : HasChain(bcs, s)}
  /\ replayed = [s \in Chains |-> 0]
  /\ crashes = 0

\* At the end of a critical section.
Settled(b) == [b EXCEPT !.cascades = 0]

Running == ~bcs.recovering /\ ~bcs.panicked

\* AddBlock of a block of a peer.
AddBlock(block, fits) ==
  /\ Running
  /\ HasChain(bcs, block.symbol)
  /\ Len(bcs.chains[block.symbol]) < MaxHeight
  /\ bcs' = Settled(AddBlockTo(ForgetUncommitted(bcs, block.symbol), block, fits))
  /\ UNCHANGED <<chosen, replayed, crashes>>

\* RollbackToHeight, from reconcileChain: the fork is at height h.
RollbackToHeight(s, h) ==
  /\ Running
  /\ HasChain(bcs, s)
  /\ h < bcs.height[s]
  /\ bcs' = Settled(RollbackBlocks(ForgetUncommitted(bcs, s), s, bcs.height[s] - h))
  /\ UNCHANGED <<chosen, replayed, crashes>>

\* What a mempool knows a transaction by, beside its type.  Every claim has an ID
\* of its own that is not looked at elsewhere.
TxID(tx) == CASE tx.type = "ORDER" -> tx.order.ID
              [] tx.type = "MATCH" -> tx.MatchID
              [] tx.type = "CREATE_TOKEN" -> tx.Symbol
              [] tx.type = "CANCEL_ORDER" -> tx.OrderID
              [] OTHER -> tx.ID

InMempool(b, tx) ==
  \E other \in ToSet(b.mempoolUncommitted[tx.chain]) :
    /\ tx.type # "CLAIM_FUNDS"
    /\ other.type = tx.type
    /\ TxID(other) = TxID(tx)

\* The ledger and the lists after a transaction has been offered while the miner
\* works on a block of the chosen chain: a transaction of that chain stays
\* applied, another is only tried.  The address that must have signed a cancel
\* is looked up in the open orders, and it panics that there is none.
Offered(b, tx) ==
  IF tx.type = "CANCEL_ORDER" /\ ~CancelTakesEffect(b.cs, tx) THEN Panic(b)
  ELSE IF ~Accepted(b.cs, tx) THEN [b EXCEPT !.cs = AfterRejected(@, tx)]
  ELSE IF tx.chain = chosen
  THEN [AddTx(b, tx) EXCEPT !.mempoolUncommitted[chosen] = Append(@, tx)]
  ELSE UndoTx(tx, AddTx(b, tx))

\* AddTransactionToMempool, or the revalidation of the mempool by StartMining.
AddTransaction(tx) ==
  /\ Running
  /\ ~InMempool(bcs, tx)
  /\ Len(bcs.mempoolUncommitted[tx.chain]) < MaxUncommitted
  /\ bcs' = Settled(Offered(bcs, tx))
  /\ UNCHANGED <<chosen, replayed, crashes>>

\* StartMining(false), after a message on stopMiningCh.
RestartMining ==
  /\ Running
  /\ HasChain(bcs, chosen)
  /\ bcs' = Settled(ForgetUncommitted(bcs, chosen))
  /\ UNCHANGED <<chosen, replayed, crashes>>

-----------------------------------------------------------------------------
\* The node stops, by a panic or otherwise, and opens its database.
Restart ==
  /\ bcs.panicked \/ crashes < MaxCrashes
  /\ crashes' = IF bcs.panicked THEN crashes ELSE crashes + 1
  /\ bcs' = Opened(bcs.chains, TRUE)
  /\ replayed' = [s \in Chains |-> 0]
  /\ UNCHANGED chosen

\* Mutant: what was added of a refused block stays.
RecoverBlock_KeepsAdded(s) ==
  /\ bcs.recovering
  /\ ~bcs.panicked
  /\ HasChain(bcs, s)
  /\ replayed[s] < Len(bcs.chains[s])
  /\ LET r == AddData(bcs, bcs.chains[s][replayed[s] + 1])
     IN /\ bcs' = r.bcs
        /\ replayed' = IF r.ok THEN [replayed EXCEPT ![s] = @ + 1] ELSE replayed
  /\ UNCHANGED <<chosen, crashes>>

\* restoreFromDatabase: the next block of a chain, taken in any order.  It is
\* tried again later when it is refused.
RecoverBlock(s) ==
  /\ bcs.recovering
  /\ ~bcs.panicked
  /\ HasChain(bcs, s)
  /\ replayed[s] < Len(bcs.chains[s])
  /\ LET r == AddData(bcs, bcs.chains[s][replayed[s] + 1])
     IN /\ bcs' = IF r.ok \/ r.bcs.panicked THEN r.bcs
                  ELSE Settled(UndoMinedTransactions(r.bcs, r.added))
        /\ replayed' = IF r.ok THEN [replayed EXCEPT ![s] = @ + 1] ELSE replayed
  /\ UNCHANGED <<chosen, crashes>>

\* Every chain is done; StartMining(true) picks one.
EndRecovery ==
  /\ bcs.recovering
  /\ ~bcs.panicked
  /\ \A s \in Chains : HasChain(bcs, s) => replayed[s] = Len(bcs.chains[s])
  /\ bcs' = [bcs EXCEPT !.recovering = FALSE]
  /\ chosen' \in {s \in Chains : HasChain(bcs, s)}
  /\ replayed' = [s \in Chains |-> 0]
  /\ UNCHANGED crashes

Next ==
  \/ \E block \in PeerBlocks, fits \in BOOLEAN : AddBlock(block, fits)
  \/ \E s \in Chains, h \in 1 .. MaxHeight : RollbackToHeight(s, h)
  \/ \E tx \in MempoolTxs : AddTransaction(tx)
  \/ RestartMining
  \/ Restart
  \/ \E s \in Chains : RecoverBlock(s)
  \/ EndRecovery

Spec == Init /\ [][Next]_vars

\* restoreFromDatabase is a loop over all chains that ends when each is done.
FairSpec ==
  /\ Spec
  /\ \A s \in Chains : WF_vars(RecoverBlock(s))
  /\ WF_vars(EndRecovery)

-----------------------------------------------------------------------------
\* Type correctness: the ledger of a running or recovering node is a State, and
\* no more blocks are replayed than there are.
TypeOK ==
  /\ bcs \in Blockchains
  /\ chosen \in Chains
  /\ replayed \in [Chains -> Nat]
  /\ \A s \in Chains : replayed[s] <= Len(bcs.chains[s])
  /\ crashes \in 0 .. MaxCrashes

-----------------------------------------------------------------------------
\* The ledger that a set of chains stands for: their blocks in any order that
\* the ledger accepts, with the unfreezes of each height.

ReplayBlock(r, s, chains) ==
  LET done == AddData(r.bcs, chains[s][r.next[s]]).bcs
  IN [bcs |-> IF s = MatchChain THEN done
              ELSE [done EXCEPT !.cs.tokenStates[s] =
                      ApplyUnfreezesForBlock(@, r.next[s])],
      next |-> [r.next EXCEPT ![s] = @ + 1]]

Ready(r, chains) ==
  {s \in Chains : /\ HasChain(r.bcs, s)
                  /\ r.next[s] <= Len(chains[s])
                  /\ AddData(r.bcs, chains[s][r.next[s]]).ok}

Replay(chains) ==
  LET Step(r, i) == IF Ready(r, chains) = {} THEN r
                    ELSE ReplayBlock(r, CHOOSE s \in Ready(r, chains) : TRUE, chains)
      blocks == MapThenSumSet(LAMBDA s : Len(chains[s]), Chains)
  IN FoldLeft(Step,
              [bcs |-> Opened(chains, TRUE), next |-> [s \in Chains |-> 1]],
              [i \in 1 .. blocks |-> i])

\* The orders of blocks that are not filled are in the books, with the amounts that
\* the matches of blocks have left of them: no order of a fork that is gone, no
\* transaction that waits for a block, no undo of a match in the wrong order, no
\* recovery makes the books differ from what the chains amount to.
MinedOrdersBooked ==
  Running =>
    LET ledger == Replay(bcs.chains).bcs.cs
    IN \A s \in Symbols : Exists(ledger, s) =>
         \A o \in Orders(ledger.tokenStates[s].openOrders) :
           bcs.books.queue[s][o.BuySymbol][o.ID] = o

\* And no other orders are: "only send mined transactions to matcher"
\* (addGenericTransaction).
OnlyMinedOrdersBooked ==
  Running =>
    LET ledger == Replay(bcs.chains).bcs.cs
    IN \A s, t \in Symbols : \A o \in Orders(bcs.books.queue[s][t]) :
         Exists(ledger, s) /\ ledger.tokenStates[s].openOrders[o.ID] = o

\* With no transaction waiting for a block, the ledger is the one its chains
\* stand for, whatever was added to them and rolled back, on one chain or
\* across two; and there is an order in which all their blocks are accepted.
LedgerIsReplay ==
  Running /\ (\A s \in Chains : bcs.mempoolUncommitted[s] = <<>>) =>
    LET r == Replay(bcs.chains)
    IN /\ r.bcs.cs = bcs.cs
       /\ \A s \in Chains : r.next[s] = Len(bcs.chains[s]) + 1

TxsOf(s) ==
  (UNION {ToSet(block) : block \in ToSet(bcs.chains[s])})
    \cup ToSet(bcs.mempoolUncommitted[s])

Matches == {tx \in TxsOf(MatchChain) : tx.type = "MATCH"}

\* The counter of an order is the number of matches in force on it, on the match
\* chain or waiting for it, and no match is left whose order is gone: rolling
\* the match chain back until the counter is 0 removes them all and ends.
OrdersKnowTheirMatches ==
  Running =>
    /\ CountedIn(bcs.cs, Matches)
    /\ \A m \in Matches : /\ Updates(bcs, m.BuySymbol, m.BuyOrderID) # None
                          /\ Updates(bcs, m.SellSymbol, m.SellOrderID) # None

\* What freezes of a token took and no block has given back: until a height to
\* come, or until one that was past when the block with the freeze was added.
Frozen(s) ==
  LET Freezes(txs) == {tx \in ToSet(txs) : tx.type = "FREEZE"}
      Sum(freezes) == MapThenSumSet(LAMBDA f : f.Amount, freezes)
      Kept(i) == Sum({f \in Freezes(bcs.chains[s][i]) :
                        f.UnfreezeBlock > bcs.height[s] \/ f.UnfreezeBlock < i})
  IN MapThenSumSet(Kept, DOMAIN bcs.chains[s])
       + Sum(Freezes(bcs.mempoolUncommitted[s]))

Held(ts) ==
  LET open == {id \in OrderIDs : ts.openOrders[id] # None}
  IN MapThenSumSet(LAMBDA a : ts.balances[a] + ts.unclaimedFunds[a], Addresses)
       + MapThenSumSet(LAMBDA id : ts.openOrders[id].AmountToSell, open)

Surplus(s) ==
  MapThenSumSet(LAMBDA m : m.BuyerLoss - m.SellerGain,
                {m \in Matches : m.BuySymbol = s})

\* Adding blocks, rolling back and restarting neither create nor destroy a
\* token: its supply is what is held, claimable, offered or still frozen, and
\* the surplus of the matches in force.
Conservation ==
  Running =>
    \A s \in Symbols : Exists(bcs.cs, s) =>
      Held(bcs.cs.tokenStates[s]) + Frozen(s) + Surplus(s)
        = bcs.cs.tokenStates[s].totalSupply

Creates(chains, s) ==
  \E block \in ToSet(chains[MatchChain]) : \E tx \in ToSet(block) :
    tx.type = "CREATE_TOKEN" /\ tx.Symbol = s

\* A step takes no token its blocks that the match chain still creates.
TokensKeepBlocks ==
  \A s \in Symbols :
    Creates(bcs.chains, s) /\ Creates(bcs'.chains, s) /\ bcs.chains[s] # <<>>
      => bcs'.chains[s] # <<>>

\* The blocks of a token are in the database as long as the match chain has the
\* block that created it: no rollback, restart or rejected block loses them.
TokenChainKept == [][TokensKeepBlocks]_vars

\* No transaction, block or fork makes the node panic.
NeverPanics == ~bcs.panicked

\* A node that opens its database becomes a running node.
RecoveryFinishes == bcs.recovering ~> Running

=============================================================================
