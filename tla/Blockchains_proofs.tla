-------------------------- MODULE Blockchains_proofs --------------------------
(***************************************************************************)
(* The chains of a node, for every value of the constants in which no      *)
(* order is cancelled: the ledger is a ledger, the chains are chains, and  *)
(* the counter of each order is the number of matches in force on it,      *)
(* after any blocks, rollbacks, transactions, stops and recoveries; and a  *)
(* token keeps blocks while the match chain creates it, but for a recovery *)
(* that refuses a block.                                                   *)
(*                                                                         *)
(* The argument follows the operations from the inside out.  A state of    *)
(* the chains is Stocked when what is on a chain is of that chain, and     *)
(* Sound when the matches of the match chain and of its list are the ones  *)
(* the ledger counts.  Adding a transaction (TxAdded) or undoing one       *)
(* (MatchTxUndone, UndoneOnLedger) changes the matches in force by at most *)
(* that one; a block or list is a fold of such steps (DataAdded,           *)
(* MatchChainUndone, TokenTxsRetracted).  Undoing an order may first roll  *)
(* back blocks of the match chain, which may take away other tokens        *)
(* (OrderFreed).  A running node has chains that are Fit, one that opens   *)
(* its database is Restoring them, and every operation leads from one to   *)
(* the other (ChainsStep).                                                 *)
(***************************************************************************)
EXTENDS Blockchains, ConsensusState_proofs, SequenceTheorems

-----------------------------------------------------------------------------
\* The transactions, chains and blocks there are.

\* No transaction that a node meets cancels an order: a cancel is refused, yet the
\* order is closed and its counter goes up (AfterRejected), so that the counters
\* are no longer the numbers of matches.
NoCancels ==
  /\ \A b \in ToSet(StartBlocks) \cup PeerBlocks : \A i \in DOMAIN b.txs :
       b.txs[i].type # "CANCEL_ORDER"
  /\ \A tx \in MempoolTxs : tx.type # "CANCEL_ORDER"

\* None is a match of a token with itself, which no part of the code refuses: it
\* creates or destroys tokens, and mined it is in no book.
NoSelfMatches ==
  /\ \A b \in ToSet(StartBlocks) \cup PeerBlocks : \A i \in DOMAIN b.txs :
       BetweenTokens(b.txs[i])
  /\ \A tx \in MempoolTxs : BetweenTokens(tx)

\* The transactions of the chain s.
TxOn(s) ==
  {tx \in Transaction : tx.chain = s /\ BetweenTokens(tx) /\ tx.type # "CANCEL_ORDER"}

\* What is on a chain or in its list is of that chain.  A height is not more than
\* the blocks there are: those of a token's bucket that was there before its
\* creation are not counted.
Stocked(b) ==
  /\ b \in Blockchains
  /\ \A s \in Chains : /\ b.chains[s] \in Seq(Seq(TxOn(s)))
                       /\ b.mempoolUncommitted[s] \in Seq(TxOn(s))
                       /\ b.height[s] <= Len(b.chains[s])
  /\ b.height[MatchChain] = Len(b.chains[MatchChain])

\* The transactions of the match chain are matches and created tokens.
LEMMA TxOnMatchChain ==
  ASSUME NEW tx \in TxOn(MatchChain)
  PROVE  /\ tx \in Transaction /\ tx.chain = MatchChain
         /\ \/ tx.type = "MATCH" /\ tx \in MatchTx /\ tx.BuySymbol # tx.SellSymbol
            \/ tx.type = "CREATE_TOKEN" /\ tx \in CreateTx
<1>1. tx \in Transaction /\ tx.chain = MatchChain /\ tx.type # "CANCEL_ORDER"
      /\ BetweenTokens(tx)
  BY DEF TxOn
<1>2. tx \notin TokenTx
  BY <1>1, BlocksAssumption DEF TokenTx, OrderTx, ClaimTx, TransferTx, FreezeTx
<1>3. tx \in MatchTx \/ tx \in CreateTx
  BY <1>1, <1>2 DEF Transaction, CancelTx
<1> QED BY <1>1, <1>3 DEF BetweenTokens, MatchTx, CreateTx

\* Those of a token's chain are the four others.
LEMMA OnTokenChain ==
  ASSUME NEW s \in Symbols, NEW tx \in TxOn(s)
  PROVE  /\ tx \in Transaction /\ tx.chain = s
         /\ tx.type \in {"ORDER", "CLAIM_FUNDS", "TRANSFER", "FREEZE"}
         /\ tx.type = "ORDER" => tx.order \in Order /\ tx.order.ID \in OrderIDs
<1>1. tx \in Transaction /\ tx.chain = s /\ tx.type # "CANCEL_ORDER" /\ s # MatchChain
  BY BlocksAssumption DEF TxOn
<1>2. tx \in TokenTx
  BY <1>1 DEF Transaction, MatchTx, CreateTx, CancelTx
<1>3. tx.type = "ORDER" => tx \in OrderTx
  BY <1>1, KindOfTx
<1> QED BY <1>1, <1>2, <1>3 DEF TokenTx, OrderTx, ClaimTx, TransferTx, FreezeTx, Order

\* A token's chain or the chain of matches, each in Chains.
LEMMA ChainKinds ==
  /\ MatchChain \in Chains /\ MatchChain \notin Symbols
  /\ \A s \in Chains : s # MatchChain => s \in Symbols
  /\ \A s \in Symbols : s \in Chains /\ s # MatchChain
BY BlocksAssumption DEF Chains

-----------------------------------------------------------------------------
\* What an operation does to the books: orders go, and a book to which anything else
\* happens is dirty.
Loses(books, books2) ==
  /\ books.dirty \subseteq books2.dirty
  /\ \A s, t \in Symbols :
       \/ {s, t} \in books2.dirty
       \/ \A id \in OrderIDs : books2.queue[s][t][id] \in {None, books.queue[s][t][id]}

\* It is so of an operation that leaves them alone, and of one after the other.
LEMMA LosesMore ==
  ASSUME NEW a, NEW b, NEW c, Loses(a, b), Loses(b, c)
  PROVE  Loses(a, c)
BY DEF Loses

LEMMA LosesNothing ==
  ASSUME NEW a, NEW b, b = a
  PROVE  Loses(a, b)
BY DEF Loses

-----------------------------------------------------------------------------
\* Adding.

\* What a transaction that is added leaves as it was: the match chain and its list,
\* the tokens there were with their chains, in a recovery every chain, and the books
\* but for what becomes dirty.
Builds(b, b2) ==
  /\ Loses(b.books, b2.books)
  /\ b2.chains[MatchChain] = b.chains[MatchChain]
  /\ b2.height[MatchChain] = b.height[MatchChain]
  /\ b2.mempoolUncommitted[MatchChain] = b.mempoolUncommitted[MatchChain]
  /\ b2.recovering = b.recovering
  /\ \A t \in Symbols : Exists(b.cs, t) =>
       /\ Exists(b2.cs, t)
       /\ b2.chains[t] = b.chains[t]
       /\ b2.height[t] = b.height[t]
  /\ b.recovering => b2.chains = b.chains
  /\ \A s \in Chains : b.mempoolUncommitted[s] = <<>> => b2.mempoolUncommitted[s] = <<>>

\* A token is there, and has blocks unless they are those of a database that is opened.
There(b, t) == Exists(b.cs, t) /\ (~b.recovering => b.chains[t] # <<>>)

\* The claim that the genesis block of a token holds.
LEMMA GenesisOnChain ==
  ASSUME NEW c \in CreateTx
  PROVE  /\ c.Symbol \in Symbols /\ c.TotalSupply \in Amount /\ c.CreatorAddress \in Addresses
         /\ TokenGenesis(c) \in TxOn(c.Symbol)
         /\ TokenGenesis(c).Address = c.CreatorAddress
         /\ TokenGenesis(c).Amount = c.TotalSupply
<1>1. c.Symbol \in Symbols /\ c.TotalSupply \in Amount /\ c.CreatorAddress \in Addresses
  BY DEF CreateTx
<1>2. TokenGenesis(c) \in ClaimTx
  BY <1>1 DEF TokenGenesis, ClaimTx
<1> QED BY <1>1, <1>2 DEF TokenGenesis, TxOn, BetweenTokens, Transaction, TokenTx

\* The state of a token that is created, before and after its genesis block.
LEMMA CreatedToken ==
  ASSUME NEW supply \in Amount, NEW creator \in Addresses, NEW g,
         g.Address = creator, g.Amount = supply,
         NEW ts \in {UnclaimedToken(supply, creator),
                     AddClaimFunds(UnclaimedToken(supply, creator), g)}
  PROVE  /\ ts \in TokenState /\ OrdersFiled(ts)
         /\ \A id \in OrderIDs : ts.orderUpdatesCount[id] = None
<1> DEFINE unclaimed == UnclaimedToken(supply, creator)
<1>1. 0 \in Amount
  BY ModulusAssumption DEF Amount
<1>2. unclaimed \in TokenState /\ OrdersFiled(unclaimed)
      /\ \A id \in OrderIDs : unclaimed.orderUpdatesCount[id] = None
  BY <1>1 DEF UnclaimedToken, TokenState, OrdersFiled
<1> HIDE DEF unclaimed
<1>3. AddClaimFunds(unclaimed, g) \in TokenState
  BY <1>2, ClaimAddedType
<1>4. /\ OrdersFiled(AddClaimFunds(unclaimed, g))
      /\ \A id \in OrderIDs : AddClaimFunds(unclaimed, g).orderUpdatesCount[id] = None
  BY <1>2 DEF OrdersFiled, AddClaimFunds, TokenState
<1> QED BY <1>2, <1>3, <1>4 DEF unclaimed

\* A token is created: with its genesis block, or with the bucket that is there.
LEMMA TokenChainAdded ==
  ASSUME NEW b, Stocked(b), NEW ms, Tallied(b.cs, ms),
         NEW c \in CreateTx, ~Exists(b.cs, c.Symbol)
  PROVE  LET b2 == AddTokenChain(b, c)
         IN /\ Stocked(b2) /\ Tallied(b2.cs, ms) /\ Builds(b, b2)
            /\ b2.panicked = b.panicked /\ There(b2, c.Symbol)
<1> DEFINE s == c.Symbol
           g == TokenGenesis(c)
           u == UnclaimedToken(c.TotalSupply, c.CreatorAddress)
           b2 == AddTokenChain(b, c)
           Opened2 == b.recovering \/ b.chains[s] # <<>>
           ts == IF Opened2 THEN u ELSE AddClaimFunds(u, g)
           blocks == IF Opened2 THEN b.chains[s] ELSE <<<<g>>>>
           top == IF Opened2 THEN IF b.recovering THEN Len(b.chains[s]) ELSE 0 ELSE 1
<1>1. /\ b \in Blockchains /\ s \in Symbols /\ s \in Chains /\ s # MatchChain
      /\ g \in TxOn(s)
      /\ b.cs \in State
  BY GenesisOnChain, ChainKinds DEF Stocked, Blockchains
<1>2. /\ ts \in TokenState /\ OrdersFiled(ts)
      /\ \A id \in OrderIDs : ts.orderUpdatesCount[id] = None
  BY GenesisOnChain, CreatedToken
<1>3. b2 = [b EXCEPT !.cs = [b.cs EXCEPT !.tokenStates[s] = ts],
                     !.mempoolUncommitted = [b.mempoolUncommitted EXCEPT ![s] = <<>>],
                     !.chains = [b.chains EXCEPT ![s] = blocks],
                     !.height = [b.height EXCEPT ![s] = top]]
  <2> HIDE DEF u, g
  <2>1. b.chains = [b.chains EXCEPT ![s] = b.chains[s]]
    BY <1>1 DEF Blockchains
  <2>2. CASE Opened2
    BY <1>1, <2>1, <2>2 DEF AddTokenChain, Blockchains, u
  <2>3. CASE ~Opened2
    <3> DEFINE o == [b EXCEPT !.cs = [b.cs EXCEPT !.tokenStates[s] = u],
                              !.mempoolUncommitted = [b.mempoolUncommitted EXCEPT ![s] = <<>>],
                              !.height = [b.height EXCEPT ![s] = 0]]
    <3>1. b2 = [o EXCEPT !.cs.tokenStates[s] = AddClaimFunds(@, g),
                         !.chains[s] = <<<<g>>>>,
                         !.height[s] = 1]
      BY <1>1, <2>3 DEF AddTokenChain, Blockchains, u, g
    <3>2. /\ [[b.cs EXCEPT !.tokenStates[s] = u] EXCEPT !.tokenStates[s] = AddClaimFunds(@, g)]
               = [b.cs EXCEPT !.tokenStates[s] = AddClaimFunds(u, g)]
          /\ [[b.height EXCEPT ![s] = 0] EXCEPT ![s] = 1] = [b.height EXCEPT ![s] = 1]
      BY <1>1 DEF State, Blockchains
    <3>3. /\ ts = AddClaimFunds(u, g) /\ blocks = <<<<g>>>> /\ top = 1
      BY <2>3
    <3> HIDE DEF b2, ts, blocks, top, Opened2
    <3> QED BY <1>1, <3>1, <3>2, <3>3 DEF Blockchains
  <2> QED BY <2>2, <2>3
<1> HIDE DEF ts, b2, u
<1>4. blocks \in Seq(Seq(TxOn(s))) /\ top \in Nat /\ top <= Len(blocks)
  <2>1. CASE Opened2
    BY <1>1, <2>1 DEF Stocked
  <2>2. CASE ~Opened2
    BY <1>1, <2>2
  <2> QED BY <2>1, <2>2
<1>13. ~b.recovering => blocks # <<>>
  OBVIOUS
<1> HIDE DEF blocks, top
<1>5. Tallied([b.cs EXCEPT !.tokenStates[s] = ts], ms)
  BY <1>1, <1>2, NewTokenKeepsTally
<1>6. [b.cs EXCEPT !.tokenStates[s] = ts] \in State
  BY <1>5 DEF Tallied
<1>7. blocks \in Seq(Block) /\ Seq(TxOn(s)) \subseteq Block
  BY <1>4 DEF TxOn, Block
<1>8. b2 \in Blockchains
  <2>1. /\ [b.mempoolUncommitted EXCEPT ![s] = <<>>] \in [Chains -> Seq(Transaction)]
        /\ [b.chains EXCEPT ![s] = blocks] \in [Chains -> Seq(Block)]
        /\ [b.height EXCEPT ![s] = top] \in [Chains -> Nat]
    BY <1>1, <1>4, <1>7 DEF Blockchains
  <2> QED BY <1>1, <1>3, <1>6, <2>1 DEF Blockchains
<1>9. /\ b2.cs = [b.cs EXCEPT !.tokenStates[s] = ts]
      /\ b2.chains = [b.chains EXCEPT ![s] = blocks]
      /\ b2.height = [b.height EXCEPT ![s] = top]
      /\ b2.mempoolUncommitted = [b.mempoolUncommitted EXCEPT ![s] = <<>>]
      /\ b2.recovering = b.recovering /\ b2.panicked = b.panicked /\ b2.books = b.books
  BY <1>1, <1>3 DEF Blockchains
<1>10. Stocked(b2)
  BY <1>1, <1>4, <1>8, <1>9 DEF Stocked, Blockchains
<1>11. Builds(b, b2)
  <2>1. b.recovering => blocks = b.chains[s]
    BY DEF blocks
  <2>2. b.recovering => b2.chains = b.chains
    BY <1>1, <1>9, <2>1 DEF Blockchains
  <2>3. \A t \in Symbols : Exists(b.cs, t) =>
          t # s /\ Exists(b2.cs, t)
    BY <1>1, <1>9 DEF Exists, State
  <2>4. Loses(b.books, b2.books)
    BY <1>9, LosesNothing
  <2> QED BY <1>1, <1>9, <2>2, <2>3, <2>4, ChainKinds DEF Builds, Blockchains
<1>12. There(b2, s)
  <2>1. ts # None
    BY <1>2, NoneAssumption
  <2>2. b2.chains[s] = blocks
    BY <1>1, <1>9 DEF Blockchains
  <2> QED BY <1>1, <1>13, <1>9, <2>1, <2>2 DEF There, Exists, State
<1> QED BY <1>5, <1>9, <1>10, <1>11, <1>12 DEF b2

\* A transaction is added, in a block or to wait for one.  A match has not been in
\* force, the order of a match that is in force is not added again, and no match in
\* force is on a token that is created.
LEMMA TxAdded ==
  ASSUME NEW b, Stocked(b), NEW ms, Tallied(b.cs, ms),
         NEW s \in Chains, NEW tx \in TxOn(s), Accepted(b.cs, tx)
  PROVE  LET b2 == AddTx(b, tx)
         IN /\ Stocked(b2) /\ Builds(b, b2) /\ b2.panicked = b.panicked
            /\ Tallied(b2.cs, IF tx.type = "MATCH" THEN ms \cup {tx} ELSE ms)
            /\ tx.type = "MATCH" => tx \notin ms
            /\ tx.type = "CREATE_TOKEN" =>
                 /\ ~Exists(b.cs, tx.Symbol) /\ There(b2, tx.Symbol)
                 /\ \A m \in ms : m.BuySymbol # tx.Symbol /\ m.SellSymbol # tx.Symbol
            /\ tx.type = "ORDER" =>
                 /\ MatchesBuying(ms, s, tx.order.ID) = {}
                 /\ MatchesSelling(ms, s, tx.order.ID) = {}
<1> DEFINE b2 == AddTx(b, tx)
           ms2 == IF tx.type = "MATCH" THEN ms \cup {tx} ELSE ms
<1>1. b \in Blockchains /\ b.cs \in State
  BY DEF Stocked, Blockchains
<1>2. CASE tx.type = "CREATE_TOKEN"
  <2>1. s = MatchChain /\ tx \in CreateTx
    BY <1>2, TxOnMatchChain, OnTokenChain, ChainKinds
  <2>2. ~Exists(b.cs, tx.Symbol)
    BY <1>2 DEF Accepted
  <2>3. b2 = AddTokenChain(b, tx) /\ ms2 = ms
    BY <1>2 DEF AddTx
  <2>4. \A m \in ms : m.BuySymbol # tx.Symbol /\ m.SellSymbol # tx.Symbol
    BY <2>2 DEF Tallied, KnownIn
  <2> HIDE DEF b2, ms2
  <2>5. /\ Stocked(b2) /\ Tallied(b2.cs, ms2) /\ Builds(b, b2) /\ b2.panicked = b.panicked
        /\ There(b2, tx.Symbol)
    BY <2>1, <2>2, <2>3, TokenChainAdded
  <2> QED BY <1>2, <2>2, <2>4, <2>5 DEF b2, ms2
<1>3. CASE tx.type # "CREATE_TOKEN"
  <2>1. b2 = [b EXCEPT !.cs = Applied(b.cs, tx)]
    BY <1>3 DEF AddTx
  <2>2. /\ Tallied(Applied(b.cs, tx), ms2)
        /\ \A t \in Symbols : Exists(b.cs, t) => Exists(Applied(b.cs, tx), t)
        /\ tx.type = "MATCH" => tx \notin ms
        /\ tx.type = "ORDER" => b.cs.tokenStates[s].orderUpdatesCount[tx.order.ID] = None
    <3>1. CASE s = MatchChain
      <4>1. tx \in MatchTx /\ tx.type = "MATCH" /\ tx.BuySymbol # tx.SellSymbol
        BY <1>3, <3>1, TxOnMatchChain
      <4> QED BY <4>1, MatchTallied
    <3>2. CASE s # MatchChain
      <4>1. /\ s \in Symbols /\ tx \in Transaction /\ tx.chain = s
            /\ tx.type \in {"ORDER", "CLAIM_FUNDS", "TRANSFER", "FREEZE"}
        BY <3>2, OnTokenChain, ChainKinds
      <4>2. /\ Tallied(Applied(b.cs, tx), ms) /\ tx.type # "MATCH"
            /\ tx.type = "ORDER" => b.cs.tokenStates[s].orderUpdatesCount[tx.order.ID] = None
        BY <4>1, TokenTxKeepsTally
      <4>3. Applied(b.cs, tx) = [b.cs EXCEPT !.tokenStates[s] =
                                   TokenTxApplied(b.cs.tokenStates[s], tx)]
        BY <1>1, <4>1 DEF Applied, State
      <4>4. TokenTxApplied(b.cs.tokenStates[s], tx) # None
        <5>1. b.cs.tokenStates[s] \in TokenState /\ OrdersFiled(b.cs.tokenStates[s])
              /\ TokenTxAccepted(b.cs.tokenStates[s], tx)
          BY <1>1, <4>1 DEF Accepted, Exists, State, Tallied, LedgerFiled
        <5>2. TokenTxApplied(b.cs.tokenStates[s], tx) \in TokenState
          BY <4>1, <5>1, TokenTxStep
        <5> QED BY <5>2, NoneAssumption
      <4>5. \A t \in Symbols : Exists(b.cs, t) => Exists(Applied(b.cs, tx), t)
        BY <1>1, <4>1, <4>3, <4>4 DEF Exists, State
      <4> QED BY <4>2, <4>5
    <3> QED BY <3>1, <3>2
  <2>3. Applied(b.cs, tx) \in State
    BY <2>2 DEF Tallied
  <2>4. /\ b2 \in Blockchains /\ b2.cs = Applied(b.cs, tx)
        /\ b2.chains = b.chains /\ b2.height = b.height
        /\ b2.mempoolUncommitted = b.mempoolUncommitted
        /\ b2.recovering = b.recovering /\ b2.panicked = b.panicked /\ b2.books = b.books
    BY <1>1, <2>1, <2>3 DEF Blockchains
  <2> HIDE DEF b2, ms2
  <2>5. Stocked(b2) /\ Builds(b, b2)
    BY <2>2, <2>4, LosesNothing DEF Stocked, Builds
  <2>6. tx.type = "ORDER" => /\ MatchesBuying(ms, s, tx.order.ID) = {}
                             /\ MatchesSelling(ms, s, tx.order.ID) = {}
    <3>1. KnownIn(b.cs, ms)
      BY DEF Tallied
    <3>2. tx.type = "ORDER" =>
            ~Exists(b.cs, s) \/ b.cs.tokenStates[s].orderUpdatesCount[tx.order.ID] = None
      BY <2>2
    <3> QED BY <3>1, <3>2 DEF KnownIn, MatchesBuying, MatchesSelling
  <2> QED BY <1>3, <2>2, <2>4, <2>5, <2>6 DEF b2, ms2
<1> QED BY <1>2, <1>3

\* The books after an order comes or goes.
LEMMA BookOrderType ==
  ASSUME NEW books \in Books, NEW o \in Order, NEW s \in Symbols,
         NEW books2 \in {BookOrder(books, o, s), UnbookOrder(books, o, s)}
  PROVE  books2 \in Books /\ Loses(books, books2)
<1> DEFINE t == o.BuySymbol
           id == o.ID
           queue(x) == [books.queue EXCEPT ![s][t][id] = x]
<1>1. /\ t \in Symbols /\ id \in OrderIDs
      /\ books.queue \in [Symbols -> [Symbols -> Queue]]
      /\ books.dirty \subseteq SUBSET Symbols
  BY DEF Order, Books
<1>2. books.queue[s][t] \in Queue
  BY <1>1
<1>3. books.queue[s][t][id] \in Order \cup {None}
      /\ (books.queue[s][t][id] # None => books.queue[s][t][id].ID = id)
  BY <1>1, <1>2 DEF Queue
<1>4. ASSUME NEW x \in {o, None, books.queue[s][t][id]}
      PROVE  queue(x) \in [Symbols -> [Symbols -> Queue]]
  <2>1. [books.queue[s][t] EXCEPT ![id] = x] \in Queue
    BY <1>1, <1>2, <1>3 DEF Queue
  <2>2. queue(x) = [books.queue EXCEPT ![s] = [books.queue[s] EXCEPT ![t] =
                      [books.queue[s][t] EXCEPT ![id] = x]]]
    OBVIOUS
  <2> QED BY <1>1, <2>1, <2>2
<1>5. CASE books2 = BookOrder(books, o, s)
  <2>1. books2 = [queue |-> queue(IF books.queue[s][t][id] = None THEN o
                                  ELSE books.queue[s][t][id]),
                  dirty |-> books.dirty \cup {{s, t}}]
    BY <1>1, <1>5 DEF BookOrder
  <2>2. books2.queue \in [Symbols -> [Symbols -> Queue]]
        /\ books2.dirty = books.dirty \cup {{s, t}}
    BY <1>4, <2>1
  <2>3. books2 \in Books
    BY <1>1, <2>1, <2>2 DEF Books
  <2>4. \A u, v \in Symbols : {u, v} # {s, t} => books2.queue[u][v] = books.queue[u][v]
    BY <1>1, <2>1
  <2> QED BY <2>2, <2>3, <2>4 DEF Loses
<1>6. CASE books2 = UnbookOrder(books, o, s)
  <2>1. books2 = [books EXCEPT !.queue = queue(None)]
    BY <1>6 DEF UnbookOrder
  <2>2. books2 \in Books /\ books2.queue = queue(None) /\ books2.dirty = books.dirty
    BY <1>4, <2>1 DEF Books
  <2>3. \A u, v \in Symbols, i \in OrderIDs :
          books2.queue[u][v][i] \in {None, books.queue[u][v][i]}
    BY <1>1, <2>2 DEF Queue
  <2> QED BY <2>2, <2>3 DEF Loses
<1> QED BY <1>5, <1>6

\* The book of a match, and the books with another in its place.
LEMMA BookOfMatchType ==
  ASSUME NEW books \in Books, NEW m \in MatchTx
  PROVE  /\ BookOfMatch(books, m) \in Book
         /\ \A book \in Book : LET books2 == WithBookOfMatch(books, m, book)
                               IN /\ books2 \in Books /\ Loses(books, books2)
                                  /\ {m.BuySymbol, m.SellSymbol} \in books2.dirty
<1> DEFINE s == MatchBase(m)
           t == MatchQuote(m)
<1>1. /\ s \in Symbols /\ t \in Symbols
      /\ m.BuySymbol \in Symbols /\ m.SellSymbol \in Symbols
      /\ {s, t} = {m.BuySymbol, m.SellSymbol}
      /\ books.queue \in [Symbols -> [Symbols -> Queue]]
      /\ books.dirty \subseteq SUBSET Symbols
  BY MatchFields DEF MatchBase, MatchQuote, Books
<1>2. BookOfMatch(books, m) \in Book
  BY <1>1 DEF BookOfMatch, BookOf, Book
<1>3. ASSUME NEW book \in Book, NEW books2, books2 = WithBookOfMatch(books, m, book)
      PROVE  /\ books2 \in Books /\ Loses(books, books2)
             /\ {m.BuySymbol, m.SellSymbol} \in books2.dirty
  <2> HIDE DEF s, t
  <2>1. book.buyers \in Queue /\ book.sellers \in Queue
    BY DEF Book
  <2>2. books2 = [queue |-> [books.queue EXCEPT ![s][t] = book.buyers,
                                                ![t][s] = book.sellers],
                  dirty |-> books.dirty \cup {{s, t}}]
    BY <1>1, <1>3 DEF WithBookOfMatch, s, t
  <2>3. [books.queue EXCEPT ![s][t] = book.buyers, ![t][s] = book.sellers]
          \in [Symbols -> [Symbols -> Queue]]
    BY <1>1, <2>1
  <2>4. books2 \in Books /\ books2.dirty = books.dirty \cup {{s, t}}
    BY <1>1, <2>2, <2>3 DEF Books
  <2>5. \A u, v \in Symbols : {u, v} # {s, t} => books2.queue[u][v] = books.queue[u][v]
    BY <1>1, <2>2
  <2>6. Loses(books, books2)
    BY <2>4, <2>5 DEF Loses
  <2> QED BY <1>1, <2>4, <2>6
<1> QED BY <1>2, <1>3

\* An order of a queue after it traded, and back after the trade is undone.
LEMMA QueueTraded ==
  ASSUME NEW queue \in Queue, NEW id \in OrderIDs, NEW bought \in Amount, NEW sold \in Amount
  PROVE  /\ queue[id] # None => Traded(queue, id, bought, sold) \in Queue
         /\ \A backup \in Order : Untraded(queue, id, backup, bought, sold) \in Queue
<1>1. \A o \in Order : /\ Reduced(o, bought, sold) \in Order
                       /\ Restored(o, bought, sold) \in Order
                       /\ Reduced(o, bought, sold).ID = o.ID
                       /\ Restored(o, bought, sold).ID = o.ID
                       /\ o.ID \in OrderIDs
  <2> SUFFICES ASSUME NEW o \in Order
               PROVE  /\ Reduced(o, bought, sold) \in Order
                      /\ Restored(o, bought, sold) \in Order
                      /\ Reduced(o, bought, sold).ID = o.ID
                      /\ Restored(o, bought, sold).ID = o.ID
                      /\ o.ID \in OrderIDs
    OBVIOUS
  <2>1. Reduced(o, bought, sold) \in Order /\ Restored(o, bought, sold) \in Order
    BY OrderFilledType
  <2>2. Reduced(o, bought, sold).ID = o.ID /\ Restored(o, bought, sold).ID = o.ID
        /\ o.ID \in OrderIDs
    BY DEF Reduced, Restored, Order
  <2> QED BY <2>1, <2>2
<1>2. \A i \in OrderIDs : queue[i] # None => queue[i] \in Order /\ queue[i].ID = i
  BY DEF Queue
<1>3. ASSUME NEW i \in OrderIDs, NEW o \in Order, o.ID = i
      PROVE  [queue EXCEPT ![i] = o] \in Queue
  <2>1. queue \in [OrderIDs -> Order \cup {None}]
    BY DEF Queue
  <2>2. [queue EXCEPT ![i] = o] \in [OrderIDs -> Order \cup {None}]
    BY <2>1
  <2>3. \A j \in OrderIDs : [queue EXCEPT ![i] = o][j] = IF j = i THEN o ELSE queue[j]
    BY <2>1
  <2> QED BY <1>2, <1>3, <2>2, <2>3 DEF Queue
<1>4. [queue EXCEPT ![id] = None] \in Queue
  BY DEF Queue
<1>5. queue[id] # None => Traded(queue, id, bought, sold) \in Queue
  BY <1>1, <1>2, <1>3, <1>4 DEF Traded
<1>6. ASSUME NEW backup \in Order
      PROVE  Untraded(queue, id, backup, bought, sold) \in Queue
  BY <1>1, <1>2, <1>3 DEF Untraded
<1> QED BY <1>5, <1>6

\* A book after a match of two of its orders, and after a match is taken back.
LEMMA MatchedBookType ==
  ASSUME NEW book \in Book, NEW m \in MatchTx
  PROVE  /\ InBook(book, m) => ApplyMatch(book, m) \in Book
         /\ \A backup \in [buyers : Order, sellers : Order] :
              UnapplyMatch(book, m, backup) \in Book
<1>1. /\ m.BuyOrderID \in OrderIDs /\ m.SellOrderID \in OrderIDs
      /\ m.TransferAmt \in Amount /\ m.BuyerLoss \in Amount /\ m.SellerGain \in Amount
  BY MatchFields
<1>2. book.buyers \in Queue /\ book.sellers \in Queue
  BY DEF Book
<1>3. InBook(book, m) => ApplyMatch(book, m) \in Book
  BY <1>1, <1>2, QueueTraded DEF InBook, ApplyMatch, Book
<1>4. \A backup \in [buyers : Order, sellers : Order] : UnapplyMatch(book, m, backup) \in Book
  BY <1>1, <1>2, QueueTraded DEF UnapplyMatch, Book
<1> QED BY <1>3, <1>4

\* What telling the matcher changes: its books, and a panic.
SameButBooks(b, b2) ==
  /\ Loses(b.books, b2.books)
  /\ b2.cs = b.cs /\ b2.chains = b.chains /\ b2.height = b.height
  /\ b2.mempoolUncommitted = b.mempoolUncommitted
  /\ b2.recovering = b.recovering

\* The chains stay what they are when the books change or the code panics.
LEMMA StockedButBooks ==
  ASSUME NEW b, Stocked(b), NEW books \in Books, Loses(b.books, books)
  PROVE  /\ Stocked([b EXCEPT !.books = books]) /\ SameButBooks(b, [b EXCEPT !.books = books])
         /\ [b EXCEPT !.books = books].panicked = b.panicked
         /\ Stocked(Panic(b)) /\ SameButBooks(b, Panic(b)) /\ Panic(b).panicked
BY LosesNothing DEF Stocked, Blockchains, SameButBooks, Panic

\* The matcher is told of a transaction of a block.
LEMMA TxBooked ==
  ASSUME NEW b, Stocked(b), NEW s \in Chains, NEW tx \in TxOn(s)
  PROVE  LET b2 == IntoBooks(b, tx)
         IN /\ Stocked(b2) /\ SameButBooks(b, b2)
            /\ b.panicked => b2.panicked
            /\ tx.type = "MATCH" /\ ~b2.panicked =>
                 {tx.BuySymbol, tx.SellSymbol} \in b2.books.dirty
<1> DEFINE b2 == IntoBooks(b, tx)
<1>1. b.books \in Books /\ SameButBooks(b, b)
  BY LosesNothing DEF Stocked, Blockchains, SameButBooks
<1>2. CASE b2 = b /\ (b.panicked \/ tx.type # "MATCH")
  BY <1>1, <1>2
<1>3. CASE b2 = Panic(b)
  <2>1. Loses(b.books, b.books)
    BY LosesNothing
  <2>2. Stocked(Panic(b)) /\ SameButBooks(b, Panic(b)) /\ Panic(b).panicked
    BY <1>1, <2>1, StockedButBooks
  <2> HIDE DEF b2
  <2>3. Stocked(b2) /\ SameButBooks(b, b2) /\ b2.panicked
    BY <1>3, <2>2
  <2> QED BY <2>3 DEF b2
<1>4. CASE ~b.panicked /\ tx.type = "ORDER" /\ HasBook(tx.chain, tx.order.BuySymbol)
  <2>1. tx.chain \in Symbols /\ tx.order \in Order
    BY <1>4, TxOnMatchChain, OnTokenChain, ChainKinds
  <2>2. b2 = [b EXCEPT !.books = BookOrder(b.books, tx.order, tx.chain)]
    BY <1>4 DEF IntoBooks, Stocked, Blockchains
  <2>3. /\ BookOrder(b.books, tx.order, tx.chain) \in Books
        /\ Loses(b.books, BookOrder(b.books, tx.order, tx.chain))
    BY <1>1, <2>1, BookOrderType
  <2> HIDE DEF b2
  <2>4. Stocked(b2) /\ SameButBooks(b, b2) /\ (b.panicked => b2.panicked)
    BY <1>4, <2>2, <2>3, StockedButBooks
  <2> QED BY <1>4, <2>4 DEF b2
<1>5. CASE /\ ~b.panicked /\ tx.type = "MATCH" /\ HasBook(tx.BuySymbol, tx.SellSymbol)
           /\ InBook(BookOfMatch(b.books, tx), tx)
  <2>1. tx \in MatchTx
    BY <1>5, TxOnMatchChain, OnTokenChain, ChainKinds
  <2> DEFINE book == ApplyMatch(BookOfMatch(b.books, tx), tx)
  <2>2. b2 = [b EXCEPT !.books = WithBookOfMatch(b.books, tx, book)]
    BY <1>5 DEF IntoBooks, Stocked, Blockchains
  <2>3. book \in Book
    BY <1>1, <1>5, <2>1, BookOfMatchType, MatchedBookType
  <2>4. /\ WithBookOfMatch(b.books, tx, book) \in Books
        /\ Loses(b.books, WithBookOfMatch(b.books, tx, book))
        /\ {tx.BuySymbol, tx.SellSymbol} \in WithBookOfMatch(b.books, tx, book).dirty
    <3> HIDE DEF book
    <3> QED BY <1>1, <2>1, <2>3, BookOfMatchType
  <2> HIDE DEF b2, book
  <2>5. Stocked(b2) /\ SameButBooks(b, b2) /\ (b.panicked => b2.panicked)
    BY <1>5, <2>2, <2>4, StockedButBooks
  <2>6. b2.books = WithBookOfMatch(b.books, tx, book)
    BY <2>2 DEF Stocked, Blockchains
  <2> QED BY <2>4, <2>5, <2>6 DEF b2
<1>6. CASE b.panicked \/ tx.type \notin {"ORDER", "MATCH"}
  <2>1. b.panicked => b2 = b
    BY DEF IntoBooks
  <2>2. ~b.panicked /\ tx.type \notin {"ORDER", "MATCH"} => b2 = b
    BY DEF IntoBooks
  <2> QED BY <1>2, <1>6, <2>1, <2>2
<1>7. CASE ~b.panicked /\ tx.type = "ORDER" /\ ~HasBook(tx.chain, tx.order.BuySymbol)
  <2>1. b2 = Panic(b)
    BY <1>7 DEF IntoBooks
  <2> QED BY <1>3, <2>1
<1>8. CASE /\ ~b.panicked /\ tx.type = "MATCH"
           /\ ~(HasBook(tx.BuySymbol, tx.SellSymbol) /\ InBook(BookOfMatch(b.books, tx), tx))
  <2>1. b2 = Panic(b)
    BY <1>8 DEF IntoBooks
  <2> QED BY <1>3, <2>1
<1> QED BY <1>4, <1>5, <1>6, <1>7, <1>8

\* A transaction of a block is added.
LEMMA MinedTxAdded ==
  ASSUME NEW b, Stocked(b), NEW ms, Tallied(b.cs, ms),
         NEW s \in Chains, NEW tx \in TxOn(s), Accepted(b.cs, tx)
  PROVE  LET b2 == AddMinedTx(b, tx)
         IN /\ Stocked(b2) /\ Builds(b, b2)
            /\ Tallied(b2.cs, IF tx.type = "MATCH" THEN ms \cup {tx} ELSE ms)
            /\ tx.type = "CREATE_TOKEN" => There(b2, tx.Symbol)
<1> DEFINE c == AddTx(b, tx)
           b2 == IntoBooks(c, tx)
<1>1. /\ Stocked(c) /\ Builds(b, c)
      /\ tx.type = "CREATE_TOKEN" => There(c, tx.Symbol)
      /\ Tallied(c.cs, IF tx.type = "MATCH" THEN ms \cup {tx} ELSE ms)
  BY TxAdded
<1> HIDE DEF c
<1>2. Stocked(b2) /\ SameButBooks(c, b2)
  BY <1>1, TxBooked
<1> HIDE DEF b2
<1>3. Builds(b, b2)
  <2>1. Loses(b.books, b2.books)
    BY <1>1, <1>2, LosesMore DEF Builds, SameButBooks
  <2> QED BY <1>1, <1>2, <2>1 DEF Builds, SameButBooks
<1> QED BY <1>1, <1>2, <1>3 DEF AddMinedTx, SameButBooks, There, b2, c

\* The matches among the first k transactions, all the matches, and those of the
\* first n blocks.
MatchesIn(txs, k) == {txs[i] : i \in {j \in 1 .. k : txs[j].type = "MATCH"}}
MatchesOf(txs) == MatchesIn(txs, Len(txs))
MatchesUpTo(blocks, n) == UNION {MatchesOf(blocks[i]) : i \in 1 .. n}

\* With the matches ms in force before it, a list has no match twice, and creates no
\* token that a match was on.
Orderly(ms, txs) ==
  \A k \in 1 .. Len(txs) :
    /\ txs[k].type = "MATCH" => txs[k] \notin ms \cup MatchesIn(txs, k - 1)
    /\ txs[k].type = "CREATE_TOKEN" =>
         \A m \in ms \cup MatchesIn(txs, k - 1) :
           m.BuySymbol # txs[k].Symbol /\ m.SellSymbol # txs[k].Symbol

\* One transaction more: what the first k say is of the list without the last.
LEMMA MatchesOfAppend ==
  ASSUME NEW S, NEW txs \in Seq(S), NEW tx \in S
  PROVE  /\ \A k \in 0 .. Len(txs) : MatchesIn(Append(txs, tx), k) = MatchesIn(txs, k)
         /\ MatchesOf(Append(txs, tx))
              = IF tx.type = "MATCH" THEN MatchesOf(txs) \cup {tx} ELSE MatchesOf(txs)
<1> DEFINE more == Append(txs, tx)
           n == Len(txs)
<1>1. /\ n \in Nat /\ Len(more) = n + 1 /\ more[n + 1] = tx
      /\ \A i \in 1 .. n : more[i] = txs[i]
  OBVIOUS
<1> HIDE DEF more, n
<1>2. ASSUME NEW k \in 0 .. n
      PROVE  MatchesIn(more, k) = MatchesIn(txs, k)
  <2>1. \A i \in 1 .. k : i \in 1 .. n
    BY <1>1
  <2> QED BY <1>1, <2>1 DEF MatchesIn
<1>3. MatchesIn(more, n + 1) = {more[i] : i \in {j \in 1 .. n : more[j].type = "MATCH"}}
                                 \cup {t \in {tx} : tx.type = "MATCH"}
  <2>1. 1 .. n + 1 = 1 .. n \cup {n + 1}
    BY <1>1
  <2> QED BY <1>1, <2>1 DEF MatchesIn
<1>4. MatchesIn(more, n + 1) = MatchesIn(txs, n) \cup {t \in {tx} : tx.type = "MATCH"}
  BY <1>1, <1>2, <1>3 DEF MatchesIn
<1> QED BY <1>1, <1>2, <1>4 DEF MatchesOf, more, n

\* The list with the transaction is orderly if the transaction is new.
LEMMA OrderlyAppend ==
  ASSUME NEW S, NEW txs \in Seq(S), NEW tx \in S, NEW ms, Orderly(ms, txs),
         tx.type = "MATCH" => tx \notin ms \cup MatchesOf(txs),
         tx.type = "CREATE_TOKEN" =>
           \A m \in ms \cup MatchesOf(txs) : m.BuySymbol # tx.Symbol /\ m.SellSymbol # tx.Symbol
  PROVE  Orderly(ms, Append(txs, tx))
<1> DEFINE more == Append(txs, tx)
           n == Len(txs)
<1>1. /\ n \in Nat /\ Len(more) = n + 1 /\ more[n + 1] = tx
      /\ \A i \in 1 .. n : more[i] = txs[i]
  OBVIOUS
<1>2. \A k \in 0 .. n : MatchesIn(more, k) = MatchesIn(txs, k)
  BY MatchesOfAppend
<1> HIDE DEF more
<1> SUFFICES ASSUME NEW k \in 1 .. n + 1
             PROVE  /\ more[k].type = "MATCH" => more[k] \notin ms \cup MatchesIn(more, k - 1)
                    /\ more[k].type = "CREATE_TOKEN" =>
                         \A m \in ms \cup MatchesIn(more, k - 1) :
                           m.BuySymbol # more[k].Symbol /\ m.SellSymbol # more[k].Symbol
  BY <1>1 DEF Orderly, more
<1>3. MatchesIn(more, k - 1) = MatchesIn(txs, k - 1)
  BY <1>1, <1>2
<1>4. CASE k = n + 1
  <2>1. more[k] = tx /\ MatchesIn(txs, k - 1) = MatchesOf(txs)
    BY <1>1, <1>4 DEF MatchesOf
  <2> QED BY <1>3, <2>1
<1>5. CASE k # n + 1
  <2>1. k \in 1 .. n /\ more[k] = txs[k]
    BY <1>1, <1>5
  <2> HIDE DEF n
  <2> QED BY <1>3, <2>1 DEF Orderly, n
<1> QED BY <1>4, <1>5

\* A list or block creates the token t; the tokens it creates are there.
Founds(txs, t) == \E i \in 1 .. Len(txs) : txs[i].type = "CREATE_TOKEN" /\ txs[i].Symbol = t
Present(b, txs) == \A t \in Symbols : Founds(txs, t) => There(b, t)

\* What was added to b of the transactions of a chain, with ms in force before: no
\* match that was in force, no order that was matched, no token that there was.
Added(b, ms, s, txs) ==
  /\ txs \in Seq(TxOn(s)) /\ Orderly(ms, txs)
  /\ \A i \in 1 .. Len(txs) :
       /\ txs[i].type = "ORDER" => /\ MatchesBuying(ms, s, txs[i].order.ID) = {}
                                   /\ MatchesSelling(ms, s, txs[i].order.ID) = {}
       /\ txs[i].type = "CREATE_TOKEN" => ~Exists(b.cs, txs[i].Symbol)

\* The step of AddData.
LEMMA NextAdded ==
  ASSUME NEW b, NEW ms, NEW s \in Chains, NEW tx \in TxOn(s), NEW r,
         Stocked(r.bcs), Builds(b, r.bcs), Added(b, ms, s, r.added),
         Tallied(r.bcs.cs, ms \cup MatchesOf(r.added)), Present(r.bcs, r.added),
         r.ok, ~r.bcs.panicked, Accepted(r.bcs.cs, tx)
  PROVE  LET r2 == AddNext(r, tx)
         IN /\ Stocked(r2.bcs) /\ Builds(b, r2.bcs) /\ Added(b, ms, s, r2.added)
            /\ Tallied(r2.bcs.cs, ms \cup MatchesOf(r2.added)) /\ Present(r2.bcs, r2.added)
<1> DEFINE c == r.bcs
           c2 == AddMinedTx(c, tx)
           now == ms \cup MatchesOf(r.added)
           more == Append(r.added, tx)
<1>1. AddNext(r, tx) = [bcs |-> c2, added |-> more, ok |-> TRUE]
  BY DEF AddNext
<1> HIDE DEF c2, more
<1>0. Stocked(c) /\ Tallied(c.cs, now) /\ Accepted(c.cs, tx) /\ Present(c, r.added)
  OBVIOUS
<1> HIDE DEF c, now
<1>2. /\ Stocked(c2) /\ Builds(c, c2)
      /\ Tallied(c2.cs, IF tx.type = "MATCH" THEN now \cup {tx} ELSE now)
      /\ tx.type = "CREATE_TOKEN" => There(c2, tx.Symbol)
  BY <1>0, MinedTxAdded DEF c2
<1>3. /\ tx.type = "MATCH" => tx \notin now
      /\ tx.type = "CREATE_TOKEN" =>
           /\ ~Exists(c.cs, tx.Symbol)
           /\ \A m \in now : m.BuySymbol # tx.Symbol /\ m.SellSymbol # tx.Symbol
      /\ tx.type = "ORDER" => /\ MatchesBuying(now, s, tx.order.ID) = {}
                              /\ MatchesSelling(now, s, tx.order.ID) = {}
  BY ONLY <1>0, TxAdded, s \in Chains, tx \in TxOn(s)
<1>4. r.added \in Seq(TxOn(s)) /\ more \in Seq(TxOn(s)) /\ Orderly(ms, r.added)
  BY DEF Added, more
<1>5. Orderly(ms, more)
  BY <1>3, <1>4, OrderlyAppend DEF more, now
<1>6. ms \cup MatchesOf(more) = IF tx.type = "MATCH" THEN now \cup {tx} ELSE now
  BY <1>4, MatchesOfAppend DEF more, now
<1>7. Builds(b, c2)
  <2>1. Builds(b, c)
    BY DEF c
  <2>2. Loses(b.books, c2.books)
    BY <1>2, <2>1, LosesMore DEF Builds
  <2> QED BY <1>2, <2>1, <2>2 DEF Builds
<1>8. tx.type = "ORDER" => /\ MatchesBuying(ms, s, tx.order.ID) = {}
                           /\ MatchesSelling(ms, s, tx.order.ID) = {}
  BY <1>3 DEF MatchesBuying, MatchesSelling, now
<1>9. tx.type = "CREATE_TOKEN" => ~Exists(b.cs, tx.Symbol)
  <2>1. tx.type = "CREATE_TOKEN" => tx.Symbol \in Symbols
    BY TxOnMatchChain, OnTokenChain, ChainKinds, GenesisOnChain
  <2> QED BY <1>3, <2>1 DEF Builds, c
<1>10. Added(b, ms, s, more)
  <2> SUFFICES ASSUME NEW i \in 1 .. Len(more)
               PROVE  /\ more[i].type = "ORDER" =>
                           /\ MatchesBuying(ms, s, more[i].order.ID) = {}
                           /\ MatchesSelling(ms, s, more[i].order.ID) = {}
                      /\ more[i].type = "CREATE_TOKEN" => ~Exists(b.cs, more[i].Symbol)
    BY <1>4, <1>5 DEF Added
  <2>1. more[i] = tx \/ (i \in 1 .. Len(r.added) /\ more[i] = r.added[i])
    BY <1>4 DEF more
  <2> QED BY <1>8, <1>9, <2>1 DEF Added
<1>11. Tallied(c2.cs, ms \cup MatchesOf(more))
  BY <1>2, <1>6
<1>12. Present(c2, more)
  <2> SUFFICES ASSUME NEW t \in Symbols, NEW i \in 1 .. Len(more),
                      more[i].type = "CREATE_TOKEN", more[i].Symbol = t
               PROVE  There(c2, t)
    BY DEF Present, Founds
  <2>1. more[i] = tx \/ (i \in 1 .. Len(r.added) /\ more[i] = r.added[i])
    BY <1>4 DEF more
  <2>2. There(c, t) => There(c2, t)
    BY <1>2 DEF There, Builds
  <2> QED BY <1>0, <1>2, <2>1, <2>2 DEF Present, Founds
<1> QED BY <1>1, <1>2, <1>7, <1>10, <1>11, <1>12 DEF more

\* AddData, one transaction at a time.
Adding == INSTANCE Folding WITH Step <- AddNext

\* The fold over a block goes one step for each transaction.
LEMMA AddDataSteps ==
  ASSUME NEW S, NEW txs \in Seq(S), NEW b
  PROVE  \E g : /\ g[0] = [bcs |-> b, added |-> <<>>, ok |-> TRUE]
                /\ \A k \in 1 .. Len(txs) : g[k] = AddNext(g[k - 1], txs[k])
                /\ AddData(b, txs) = g[Len(txs)]
<1> DEFINE base == [bcs |-> b, added |-> <<>>, ok |-> TRUE]
<1>1. Adding!FoldLeft(AddNext, base, txs) = FoldLeft(AddNext, base, txs)
  BY DEF Adding!FoldLeft, FoldLeft, Adding!MapThenFoldSet, MapThenFoldSet, Adding!Max, Max
<1> HIDE DEF base
<1>2. \E g : Adding!LeftSteps(txs, base, g) /\ Adding!FoldLeft(AddNext, base, txs) = g[Len(txs)]
  BY ONLY Adding!FoldLeftSteps, txs \in Seq(S)
<1> QED BY <1>1, <1>2 DEF AddData, Adding!LeftSteps, base

\* Two sequences with the same elements are the same.
LEMMA SameElements ==
  ASSUME NEW S, NEW p \in Seq(S), NEW q \in Seq(S), Len(p) = Len(q),
         \A i \in 1 .. Len(p) : p[i] = q[i]
  PROVE  p = q
OBVIOUS

\* The transactions of a block are added, all of them or up to the first that is
\* refused.
LEMMA DataAdded ==
  ASSUME NEW b, Stocked(b), NEW ms, Tallied(b.cs, ms), NEW s \in Chains,
         NEW txs \in Seq(TxOn(s))
  PROVE  LET r == AddData(b, txs)
         IN /\ Stocked(r.bcs) /\ Builds(b, r.bcs) /\ Added(b, ms, s, r.added)
            /\ Tallied(r.bcs.cs, ms \cup MatchesOf(r.added)) /\ Present(r.bcs, r.added)
            /\ r.ok /\ ~r.bcs.panicked => r.added = txs
<1> DEFINE n == Len(txs)
           Good(r, k) ==
             /\ r = [bcs |-> r.bcs, added |-> r.added, ok |-> r.ok]
             /\ Stocked(r.bcs) /\ Builds(b, r.bcs) /\ Added(b, ms, s, r.added)
             /\ Tallied(r.bcs.cs, ms \cup MatchesOf(r.added)) /\ Present(r.bcs, r.added)
             /\ r.ok /\ ~r.bcs.panicked =>
                  Len(r.added) = k /\ \A i \in 1 .. k : r.added[i] = txs[i]
<1>1. PICK g : /\ g[0] = [bcs |-> b, added |-> <<>>, ok |-> TRUE]
               /\ \A k \in 1 .. n : g[k] = AddNext(g[k - 1], txs[k])
               /\ AddData(b, txs) = g[n]
  BY AddDataSteps
<1> DEFINE N == {k \in 0 .. n : Good(g[k], k)}
<1>2. n \in Nat /\ \A k \in 1 .. n : txs[k] \in TxOn(s) /\ k - 1 \in 0 .. n /\ k \in 0 .. n
  OBVIOUS
<1>3. 0 \in N
  <2>1. MatchesOf(<<>>) = {} /\ Added(b, ms, s, <<>>) /\ Present(b, <<>>)
    BY DEF MatchesOf, MatchesIn, Added, Orderly, Present, Founds
  <2>2. Builds(b, b)
    BY LosesNothing DEF Builds
  <2>3. ms \cup MatchesOf(<<>>) = ms
    BY <2>1
  <2> DEFINE r == g[0]
  <2>4. /\ r.bcs = b /\ r.added = <<>> /\ r = [bcs |-> r.bcs, added |-> r.added, ok |-> r.ok]
        /\ Len(r.added) = 0 /\ 1 .. 0 = {}
    BY <1>1
  <2> HIDE DEF r
  <2>5. Good(r, 0)
    BY <2>1, <2>2, <2>3, <2>4
  <2> HIDE DEF Good
  <2> QED BY <1>2, <2>5 DEF r
<1>4. ASSUME NEW k \in 1 .. n, k - 1 \in N
      PROVE  k \in N
  <2> DEFINE r == g[k - 1]  tx == txs[k]  r2 == g[k]
  <2>1. Good(r, k - 1) /\ r2 = AddNext(r, tx) /\ tx \in TxOn(s)
    BY <1>1, <1>2, <1>4
  <2> HIDE DEF r, tx, r2
  <2>2. CASE ~r.ok \/ r.bcs.panicked
    <3>1. r2 = r
      BY <2>1, <2>2 DEF AddNext
    <3> QED BY <1>2, <2>1, <2>2, <3>1 DEF r2
  <2>3. CASE r.ok /\ ~r.bcs.panicked /\ Accepted(r.bcs.cs, tx)
    <3>1. /\ Stocked(r2.bcs) /\ Builds(b, r2.bcs) /\ Added(b, ms, s, r2.added)
          /\ Tallied(r2.bcs.cs, ms \cup MatchesOf(r2.added)) /\ Present(r2.bcs, r2.added)
          /\ r2.added = Append(r.added, tx)
          /\ r2 = [bcs |-> r2.bcs, added |-> r2.added, ok |-> r2.ok]
      <4>1. /\ Stocked(r.bcs) /\ Builds(b, r.bcs) /\ Added(b, ms, s, r.added)
            /\ Tallied(r.bcs.cs, ms \cup MatchesOf(r.added)) /\ Present(r.bcs, r.added)
        BY <2>1
      <4>2. tx \in TxOn(s) /\ r2 = AddNext(r, tx)
        BY <2>1
      <4> HIDE DEF Good
      <4>3. /\ Stocked(r2.bcs) /\ Builds(b, r2.bcs) /\ Added(b, ms, s, r2.added)
            /\ Tallied(r2.bcs.cs, ms \cup MatchesOf(r2.added)) /\ Present(r2.bcs, r2.added)
        BY ONLY <2>3, <4>1, <4>2, NextAdded, s \in Chains
      <4>4. r2 = [bcs |-> AddMinedTx(r.bcs, tx), added |-> Append(r.added, tx), ok |-> TRUE]
        BY <2>3, <4>2 DEF AddNext
      <4> QED BY <4>3, <4>4
    <3>2. r.added \in Seq(TxOn(s)) /\ Len(r.added) = k - 1
          /\ \A i \in 1 .. k - 1 : r.added[i] = txs[i]
      BY <2>1, <2>3 DEF Added
    <3>3. Len(r2.added) = k /\ \A i \in 1 .. k : r2.added[i] = txs[i]
      BY <2>1, <3>1, <3>2 DEF tx
    <3>4. Good(r2, k)
      BY <3>1, <3>3
    <3> HIDE DEF Good
    <3> QED BY <1>2, <3>4 DEF r2
  <2>4. CASE r.ok /\ ~r.bcs.panicked /\ ~Accepted(r.bcs.cs, tx)
    <3>1. r2 = [r EXCEPT !.bcs.cs = AfterRejected(@, tx), !.ok = FALSE]
      BY <2>1, <2>4 DEF AddNext
    <3>2. AfterRejected(r.bcs.cs, tx) = r.bcs.cs
      BY <2>1 DEF AfterRejected, TxOn
    <3>3. [r.bcs EXCEPT !.cs = r.bcs.cs] = r.bcs
      BY <2>1 DEF Stocked, Blockchains
    <3>4. r2 = [bcs |-> r.bcs, added |-> r.added, ok |-> FALSE]
      <4>1. r = [bcs |-> r.bcs, added |-> r.added, ok |-> r.ok]
        BY <2>1
      <4> QED BY <3>1, <3>2, <3>3, <4>1
    <3>5. Good(r2, k)
      BY <2>1, <3>4
    <3> HIDE DEF Good
    <3> QED BY <1>2, <3>5 DEF r2
  <2> QED BY <2>2, <2>3, <2>4
<1>5. n \in N
  <2> HIDE DEF N, n
  <2> QED BY <1>2, <1>3, <1>4, Adding!InductUpTo
<1> DEFINE r == AddData(b, txs)
<1>6. Good(r, n)
  BY <1>1, <1>5
<1> HIDE DEF r
<1>7. r.ok /\ ~r.bcs.panicked => r.added = txs
  BY <1>6, SameElements DEF Added
<1> QED BY <1>6, <1>7 DEF r

-----------------------------------------------------------------------------
\* Undoing transactions of the match chain.

\* What undoing may do to a token: nothing, but for the numbers in its counters.
Stays(b, b2, t) ==
  /\ Exists(b2.cs, t) <=> Exists(b.cs, t)
  /\ b2.chains[t] = b.chains[t] /\ b2.height[t] = b.height[t]
  /\ \A id \in OrderIDs : Exists(b.cs, t) =>
       (b2.cs.tokenStates[t].orderUpdatesCount[id] = None
          <=> b.cs.tokenStates[t].orderUpdatesCount[id] = None)

\* Undoing leaves the blocks before alone, and empties lists at most.
SameMatchChain(b, b2) ==
  /\ Loses(b.books, b2.books)
  /\ b2.chains[MatchChain] = b.chains[MatchChain]
  /\ b2.height[MatchChain] = b.height[MatchChain]
  /\ b2.mempoolUncommitted[MatchChain] = b.mempoolUncommitted[MatchChain]
  /\ b2.recovering = b.recovering
  /\ \A s \in Chains : b.mempoolUncommitted[s] = <<>> => b2.mempoolUncommitted[s] = <<>>

\* A token that was created on the match chain goes.
LEMMA TokenChainRemoved ==
  ASSUME NEW b, Stocked(b), NEW s \in Symbols, NEW ms, Tallied(b.cs, ms),
         \A m \in ms : m.BuySymbol # s /\ m.SellSymbol # s
  PROVE  LET b2 == RemoveTokenChain(b, s)
         IN /\ Stocked(b2) /\ SameMatchChain(b, b2) /\ Tallied(b2.cs, ms)
            /\ b2.panicked = b.panicked /\ ~Exists(b2.cs, s)
            /\ \A t \in Symbols : t # s => Stays(b, b2, t)
<1> DEFINE b2 == RemoveTokenChain(b, s)
           ledger == [b.cs EXCEPT !.tokenStates[s] = None]
<1>1. b \in Blockchains /\ b.cs \in State /\ s \in Chains /\ s # MatchChain
  BY ChainKinds DEF Stocked, Blockchains
<1>2. Tallied(ledger, ms)
  BY NoTokenKeepsTally
<1>3. ledger \in State
  BY <1>2 DEF Tallied
<1>4. /\ ledger.tokenStates[s] = None
      /\ \A t \in Symbols : t # s => ledger.tokenStates[t] = b.cs.tokenStates[t]
  BY <1>1 DEF State
<1>5. /\ [b.chains EXCEPT ![s] = <<>>] \in [Chains -> Seq(Block)]
      /\ [b.height EXCEPT ![s] = 0] \in [Chains -> Nat]
      /\ [b.mempoolUncommitted EXCEPT ![s] = <<>>] \in [Chains -> Seq(Transaction)]
  <2>1. <<>> \in Seq(Block) /\ <<>> \in Seq(Transaction)
    OBVIOUS
  <2> QED BY <1>1, <2>1 DEF Blockchains
<1>6. b2 = [b EXCEPT !.cs = ledger, !.chains = [b.chains EXCEPT ![s] = <<>>],
                     !.height = [b.height EXCEPT ![s] = 0],
                     !.mempoolUncommitted = [b.mempoolUncommitted EXCEPT ![s] = <<>>]]
  BY <1>1 DEF RemoveTokenChain, Blockchains
<1> HIDE DEF b2, ledger
<1>7. /\ b2 \in Blockchains
      /\ b2.cs = ledger /\ b2.chains = [b.chains EXCEPT ![s] = <<>>]
      /\ b2.height = [b.height EXCEPT ![s] = 0]
      /\ b2.mempoolUncommitted = [b.mempoolUncommitted EXCEPT ![s] = <<>>]
      /\ b2.recovering = b.recovering /\ b2.panicked = b.panicked /\ b2.books = b.books
  BY <1>1, <1>3, <1>5, <1>6 DEF Blockchains
<1>8. /\ b2.chains[s] = <<>> /\ b2.height[s] = 0 /\ b2.mempoolUncommitted[s] = <<>>
      /\ \A t \in Chains : t # s => /\ b2.chains[t] = b.chains[t]
                                    /\ b2.height[t] = b.height[t]
                                    /\ b2.mempoolUncommitted[t] = b.mempoolUncommitted[t]
  BY <1>1, <1>7 DEF Blockchains
<1>9. Stocked(b2)
  <2>1. <<>> \in Seq(Seq(TxOn(s))) /\ <<>> \in Seq(TxOn(s)) /\ 0 <= Len(<<>>)
    OBVIOUS
  <2> QED BY <1>1, <1>7, <1>8, <2>1, ChainKinds DEF Stocked
<1>10. SameMatchChain(b, b2)
  BY <1>1, <1>7, <1>8, LosesNothing, ChainKinds DEF SameMatchChain
<1>11. \A t \in Symbols : t # s => Stays(b, b2, t)
  BY <1>4, <1>7, <1>8, ChainKinds DEF Stays, Exists
<1> QED BY <1>2, <1>4, <1>7, <1>9, <1>10, <1>11 DEF b2, Exists

\* A transaction of the match chain undone, but for the books.
LEMMA MatchChainTxUndone ==
  ASSUME NEW b, Stocked(b), NEW tx \in TxOn(MatchChain), NEW ms,
         ~b.panicked => Tallied(b.cs, ms),
         tx.type = "MATCH" => tx \in ms,
         tx.type = "CREATE_TOKEN" =>
           \A m \in ms : m.BuySymbol # tx.Symbol /\ m.SellSymbol # tx.Symbol
  PROVE  LET b2 == UndoMatchChainTx(tx, b)
         IN /\ Stocked(b2) /\ SameMatchChain(b, b2)
            /\ b.panicked => b2.panicked
            /\ ~b2.panicked => Tallied(b2.cs, ms \ {tx}) /\ Undoable(b.cs, tx)
            /\ \A t \in Symbols : \/ Stays(b, b2, t)
                                  \/ /\ tx.type = "CREATE_TOKEN" /\ t = tx.Symbol
                                     /\ ~Exists(b2.cs, t)
<1> DEFINE b2 == UndoMatchChainTx(tx, b)
<1>1. /\ tx \in Transaction /\ tx.chain = MatchChain
      /\ \/ tx.type = "MATCH" /\ tx \in MatchTx /\ tx.BuySymbol # tx.SellSymbol
         \/ tx.type = "CREATE_TOKEN" /\ tx \in CreateTx /\ tx.Symbol \in Symbols
  BY TxOnMatchChain, GenesisOnChain
<1>2. SameMatchChain(b, b) /\ \A t \in Symbols : Stays(b, b, t)
  BY LosesNothing DEF SameMatchChain, Stays
<1>3. CASE b.panicked
  <2>1. b2 = b
    BY <1>3 DEF UndoMatchChainTx
  <2> QED BY <1>2, <1>3, <2>1
<1>4. CASE ~b.panicked /\ ~Undoable(b.cs, tx)
  <2>1. b2 = Panic(b)
    BY <1>4 DEF UndoMatchChainTx
  <2>2. Stocked(Panic(b)) /\ SameButBooks(b, Panic(b)) /\ Panic(b).panicked
    <3>1. b.books \in Books /\ Loses(b.books, b.books)
      BY LosesNothing DEF Stocked, Blockchains
    <3> QED BY <3>1, StockedButBooks
  <2> HIDE DEF b2
  <2>3. Stocked(b2) /\ SameButBooks(b, b2) /\ b2.panicked
    BY <2>1, <2>2
  <2>4. SameMatchChain(b, b2) /\ \A t \in Symbols : Stays(b, b2, t)
    BY <2>3 DEF SameButBooks, SameMatchChain, Stays
  <2> QED BY <1>4, <2>3, <2>4 DEF b2
<1>5. CASE ~b.panicked /\ Undoable(b.cs, tx) /\ tx.type = "CREATE_TOKEN"
  <2>1. b2 = RemoveTokenChain(b, tx.Symbol)
    BY <1>5 DEF UndoMatchChainTx
  <2>2. tx.Symbol \in Symbols
    BY <1>1, <1>5
  <2>3. ms \ {tx} = ms
    BY <1>1, <1>5 DEF Tallied, KnownIn, MatchTx
  <2> HIDE DEF b2
  <2>4. /\ Stocked(b2) /\ SameMatchChain(b, b2) /\ Tallied(b2.cs, ms)
        /\ b2.panicked = b.panicked /\ ~Exists(b2.cs, tx.Symbol)
        /\ \A t \in Symbols : t # tx.Symbol => Stays(b, b2, t)
    BY <1>5, <2>1, <2>2, TokenChainRemoved
  <2> QED BY <1>5, <2>3, <2>4 DEF b2
<1>6. CASE ~b.panicked /\ Undoable(b.cs, tx) /\ tx.type = "MATCH"
  <2> DEFINE ledger == RollbackMatch(b.cs, tx)
  <2>1. b \in Blockchains
    BY DEF Stocked
  <2>2. b2 = [b EXCEPT !.cs = ledger]
    BY <1>6, <2>1 DEF UndoMatchChainTx, Undone, Blockchains
  <2>3. /\ Tallied(ledger, ms \ {tx})
        /\ \A t \in Symbols : Exists(ledger, t) <=> Exists(b.cs, t)
        /\ \A t \in Symbols, id \in OrderIDs : Exists(b.cs, t) =>
             (ledger.tokenStates[t].orderUpdatesCount[id] = None
                <=> b.cs.tokenStates[t].orderUpdatesCount[id] = None)
    BY <1>6, MatchUntallied
  <2> HIDE DEF b2, ledger
  <2>4. ledger \in State
    BY <2>3 DEF Tallied
  <2>5. /\ b2 \in Blockchains /\ b2.cs = ledger
        /\ b2.chains = b.chains /\ b2.height = b.height
        /\ b2.mempoolUncommitted = b.mempoolUncommitted
        /\ b2.recovering = b.recovering /\ b2.panicked = b.panicked /\ b2.books = b.books
    BY <2>1, <2>2, <2>4 DEF Blockchains
  <2>6. Stocked(b2) /\ SameMatchChain(b, b2)
    BY <2>5, LosesNothing DEF Stocked, SameMatchChain
  <2>7. \A t \in Symbols : Stays(b, b2, t)
    BY <2>3, <2>5 DEF Stays
  <2> QED BY <1>6, <2>3, <2>5, <2>6, <2>7 DEF b2
<1> QED BY <1>1, <1>3, <1>4, <1>5, <1>6

\* The matcher takes a transaction that was undone from its books.
LEMMA TxUnbooked ==
  ASSUME NEW b, Stocked(b), NEW undone, Stocked(undone), NEW s \in Chains, NEW tx \in TxOn(s),
         ~undone.panicked /\ tx.type = "MATCH" => Undoable(b.cs, tx)
  PROVE  LET b2 == OutOfBooks(undone, tx, b)
         IN /\ Stocked(b2) /\ SameButBooks(undone, b2)
            /\ b2.panicked = undone.panicked
<1> DEFINE b2 == OutOfBooks(undone, tx, b)
<1>1. undone.books \in Books /\ undone \in Blockchains /\ SameButBooks(undone, undone)
  BY LosesNothing DEF Stocked, Blockchains, SameButBooks
<1>2. CASE undone.panicked \/ tx.type \notin {"ORDER", "MATCH"}
  <2>1. b2 = undone
    BY <1>2 DEF OutOfBooks
  <2> QED BY <1>1, <2>1
<1>3. CASE ~undone.panicked /\ tx.type = "ORDER"
  <2>1. tx.chain \in Symbols /\ tx.order \in Order
    BY <1>3, TxOnMatchChain, OnTokenChain, ChainKinds
  <2> DEFINE books == UnbookOrder(undone.books, tx.order, tx.chain)
  <2>2. b2 = [undone EXCEPT !.books = books]
    BY <1>1, <1>3 DEF OutOfBooks, Blockchains
  <2>3. books \in Books /\ Loses(undone.books, books)
    BY <1>1, <2>1, BookOrderType
  <2> HIDE DEF b2, books
  <2>4. Stocked(b2) /\ SameButBooks(undone, b2) /\ b2.panicked = undone.panicked
    BY <2>2, <2>3, StockedButBooks
  <2> QED BY <2>4 DEF b2
<1>4. CASE ~undone.panicked /\ tx.type = "MATCH"
  <2>1. tx \in MatchTx /\ b.cs \in State
    BY <1>4, TxOnMatchChain, OnTokenChain, ChainKinds DEF Stocked, Blockchains
  <2> DEFINE buy == OrderForMatch(b.cs.tokenStates[tx.BuySymbol], tx.BuyOrderID)
             sell == OrderForMatch(b.cs.tokenStates[tx.SellSymbol], tx.SellOrderID)
             backup == IF tx.BuySymbol = MatchBase(tx) THEN [buyers |-> buy, sellers |-> sell]
                       ELSE [buyers |-> sell, sellers |-> buy]
             book == UnapplyMatch(BookOfMatch(undone.books, tx), tx, backup)
             books == WithBookOfMatch(undone.books, tx, book)
  <2>2. buy \in Order /\ sell \in Order
    <3>1. /\ tx.BuySymbol \in Symbols /\ tx.SellSymbol \in Symbols
          /\ tx.BuyOrderID \in OrderIDs /\ tx.SellOrderID \in OrderIDs
      BY <2>1, MatchFields
    <3>2. MatchUndoable(b.cs, tx)
      BY <1>4 DEF Undoable
    <3>3. /\ b.cs.tokenStates[tx.BuySymbol] \in TokenState
          /\ b.cs.tokenStates[tx.SellSymbol] \in TokenState
          /\ buy # None /\ sell # None
      BY <2>1, <3>1, <3>2 DEF MatchUndoable, State, Exists
    <3>4. ASSUME NEW ts \in TokenState, NEW id \in OrderIDs, OrderForMatch(ts, id) # None
          PROVE  OrderForMatch(ts, id) \in Order
      BY <3>4 DEF OrderForMatch, TokenState
    <3> QED BY <3>1, <3>3, <3>4
  <2>3. b2 = [undone EXCEPT !.books = books]
    BY <1>1, <1>4 DEF OutOfBooks, Blockchains
  <2> HIDE DEF buy, sell
  <2>4. backup \in [buyers : Order, sellers : Order]
    BY <2>2
  <2> HIDE DEF backup
  <2>5. book \in Book
    BY <1>1, <2>1, <2>4, BookOfMatchType, MatchedBookType
  <2> HIDE DEF book
  <2>6. books \in Books /\ Loses(undone.books, books)
    BY <1>1, <2>1, <2>5, BookOfMatchType
  <2> HIDE DEF b2, books
  <2>7. Stocked(b2) /\ SameButBooks(undone, b2) /\ b2.panicked = undone.panicked
    BY <2>3, <2>6, StockedButBooks
  <2> QED BY <2>7 DEF b2
<1> QED BY <1>2, <1>3, <1>4

\* A transaction of the match chain undone, with ms in force: in a block or not.
LEMMA MatchTxUndone ==
  ASSUME NEW b, Stocked(b), NEW tx \in TxOn(MatchChain), NEW ms,
         ~b.panicked => Tallied(b.cs, ms),
         tx.type = "MATCH" => tx \in ms,
         tx.type = "CREATE_TOKEN" =>
           \A m \in ms : m.BuySymbol # tx.Symbol /\ m.SellSymbol # tx.Symbol,
         NEW b2 \in {UndoMatchChainTx(tx, b), UndoMinedMatchTx(tx, b)}
  PROVE  /\ Stocked(b2) /\ SameMatchChain(b, b2)
         /\ b.panicked => b2.panicked
         /\ ~b2.panicked => Tallied(b2.cs, ms \ {tx})
         /\ \A t \in Symbols : \/ Stays(b, b2, t)
                               \/ /\ tx.type = "CREATE_TOKEN" /\ t = tx.Symbol
                                  /\ ~Exists(b2.cs, t)
<1> DEFINE undone == UndoMatchChainTx(tx, b)
           unbooked == OutOfBooks(undone, tx, b)
<1>1. /\ Stocked(undone) /\ SameMatchChain(b, undone)
      /\ b.panicked => undone.panicked
      /\ ~undone.panicked => Tallied(undone.cs, ms \ {tx}) /\ Undoable(b.cs, tx)
      /\ \A t \in Symbols : \/ Stays(b, undone, t)
                            \/ /\ tx.type = "CREATE_TOKEN" /\ t = tx.Symbol
                               /\ ~Exists(undone.cs, t)
  BY MatchChainTxUndone
<1>2. b2 = undone \/ b2 = unbooked
  BY DEF UndoMinedMatchTx
<1> HIDE DEF undone
<1>3. Stocked(unbooked) /\ SameButBooks(undone, unbooked) /\ unbooked.panicked = undone.panicked
  BY <1>1, TxUnbooked, ChainKinds
<1> HIDE DEF unbooked
<1>4. CASE b2 = undone
  BY <1>1, <1>4
<1>5. CASE b2 = unbooked
  <2>1. /\ Stocked(b2) /\ SameButBooks(undone, b2) /\ b2.panicked = undone.panicked
    BY <1>3, <1>5
  <2>2. SameMatchChain(b, b2)
    <3>1. Loses(b.books, b2.books)
      BY <1>1, <2>1, LosesMore DEF SameMatchChain, SameButBooks
    <3> QED BY <1>1, <2>1, <3>1 DEF SameMatchChain, SameButBooks
  <2>3. \A t \in Symbols : /\ Stays(b, undone, t) => Stays(b, b2, t)
                           /\ Exists(undone.cs, t) <=> Exists(b2.cs, t)
    BY <2>1 DEF Stays, SameButBooks
  <2>4. b2.cs = undone.cs
    BY <2>1 DEF SameButBooks
  <2> QED BY <1>1, <2>1, <2>2, <2>3, <2>4
<1> QED BY <1>2, <1>4, <1>5

\* The matches up to a transaction: that one, if it is a match, and those before.
LEMMA MatchesInStep ==
  ASSUME NEW txs, NEW k \in Nat, k # 0
  PROVE  /\ MatchesIn(txs, k) = IF txs[k].type = "MATCH"
                                THEN MatchesIn(txs, k - 1) \cup {txs[k]}
                                ELSE MatchesIn(txs, k - 1)
         /\ MatchesIn(txs, 0) = {}
<1>1. 1 .. k = 1 .. (k - 1) \cup {k} /\ 1 .. 0 = {}
  OBVIOUS
<1>2. {j \in 1 .. k : txs[j].type = "MATCH"}
        = {j \in 1 .. (k - 1) : txs[j].type = "MATCH"} \cup {j \in {k} : txs[j].type = "MATCH"}
  BY <1>1
<1> QED BY <1>1, <1>2 DEF MatchesIn

\* What undoing transactions does to the tokens: one that they created is gone, any
\* other stays.
Retracts(b, b2, txs) ==
  \A t \in Symbols :
    \/ Stays(b, b2, t)
    \/ ~Exists(b2.cs, t) /\ Founds(txs, t)

\* The transactions of a list or block of the match chain undone, the last one first:
\* the matches in force are those from before.
LEMMA MatchTxsUndone ==
  ASSUME NEW txs \in Seq(TxOn(MatchChain)), NEW ms, Orderly(ms, txs), NEW g,
         Stocked(g[Len(txs)]),
         ~g[Len(txs)].panicked => Tallied(g[Len(txs)].cs, ms \cup MatchesOf(txs)),
         \A k \in 1 .. Len(txs) :
           g[k - 1] \in {UndoMatchChainTx(txs[k], g[k]), UndoMinedMatchTx(txs[k], g[k])}
  PROVE  /\ Stocked(g[0]) /\ SameMatchChain(g[Len(txs)], g[0])
         /\ g[Len(txs)].panicked => g[0].panicked
         /\ ~g[0].panicked => Tallied(g[0].cs, ms)
         /\ Retracts(g[Len(txs)], g[0], txs)
<1> DEFINE n == Len(txs)
           b == g[n]
           Good(c, k) ==
             /\ Stocked(c) /\ SameMatchChain(b, c)
             /\ b.panicked => c.panicked
             /\ ~c.panicked => Tallied(c.cs, ms \cup MatchesIn(txs, k))
             /\ Retracts(b, c, txs)
           N == {k \in 0 .. n : Good(g[k], k)}
<1>1. n \in Nat /\ \A k \in 1 .. n : txs[k] \in TxOn(MatchChain) /\ k - 1 \in 0 .. n /\ k \in 0 .. n
  OBVIOUS
<1>2. n \in N
  <2>1. SameMatchChain(b, b) /\ Retracts(b, b, txs)
    BY LosesNothing DEF SameMatchChain, Retracts, Stays
  <2>2. Good(b, n)
    BY <2>1 DEF MatchesOf
  <2> HIDE DEF Good
  <2> QED BY <1>1, <2>2
<1>3. ASSUME NEW k \in 1 .. n, k \in N
      PROVE  k - 1 \in N
  <2> DEFINE c == g[k]  d == g[k - 1]  tx == txs[k]
             now == ms \cup MatchesIn(txs, k)
  <2>1. /\ Stocked(c) /\ SameMatchChain(b, c) /\ (b.panicked => c.panicked)
        /\ ~c.panicked => Tallied(c.cs, now)
        /\ Retracts(b, c, txs)
    BY <1>3
  <2>2. tx \in TxOn(MatchChain) /\ d \in {UndoMatchChainTx(tx, c), UndoMinedMatchTx(tx, c)}
    BY <1>1
  <2>3. /\ tx.type = "MATCH" => tx \notin ms \cup MatchesIn(txs, k - 1)
        /\ tx.type = "CREATE_TOKEN" =>
             \A m \in ms \cup MatchesIn(txs, k - 1) :
               m.BuySymbol # tx.Symbol /\ m.SellSymbol # tx.Symbol
    BY DEF Orderly
  <2>4. MatchesIn(txs, k) = IF tx.type = "MATCH" THEN MatchesIn(txs, k - 1) \cup {tx}
                            ELSE MatchesIn(txs, k - 1)
    BY <1>1, MatchesInStep
  <2>5. tx.type = "MATCH" \/ (tx.type = "CREATE_TOKEN" /\ tx \in CreateTx)
    BY <2>2, TxOnMatchChain
  <2> HIDE DEF b, c, d, tx
  <2>6. /\ tx.type = "MATCH" => tx \in now /\ now \ {tx} = ms \cup MatchesIn(txs, k - 1)
        /\ tx.type = "CREATE_TOKEN" =>
             /\ now = ms \cup MatchesIn(txs, k - 1)
             /\ \A m \in now : m.BuySymbol # tx.Symbol /\ m.SellSymbol # tx.Symbol
    BY <2>3, <2>4
  <2> HIDE DEF now
  <2>7. /\ Stocked(d) /\ SameMatchChain(c, d)
        /\ c.panicked => d.panicked
        /\ ~d.panicked => Tallied(d.cs, now \ {tx})
        /\ \A t \in Symbols : \/ Stays(c, d, t)
                              \/ /\ tx.type = "CREATE_TOKEN" /\ t = tx.Symbol
                                 /\ ~Exists(d.cs, t)
    BY ONLY <2>1, <2>2, <2>6, MatchTxUndone
  <2>8. ~d.panicked => Tallied(d.cs, ms \cup MatchesIn(txs, k - 1))
    <3>1. CASE tx.type = "MATCH"
      BY <2>6, <2>7, <3>1
    <3>2. CASE tx.type = "CREATE_TOKEN"
      <4>1. ~d.panicked => now \ {tx} = now
        BY <2>1, <2>5, <2>7, <3>2 DEF Tallied, KnownIn, MatchTx
      <4> QED BY <2>6, <2>7, <3>2, <4>1
    <3> QED BY <2>5, <3>1, <3>2
  <2>9. SameMatchChain(b, d)
    <3>1. Loses(b.books, d.books)
      BY <2>1, <2>7, LosesMore DEF SameMatchChain
    <3> QED BY <2>1, <2>7, <3>1 DEF SameMatchChain
  <2>10. Retracts(b, d, txs)
    <3> SUFFICES ASSUME NEW t \in Symbols
                 PROVE  \/ Stays(b, d, t)
                        \/ ~Exists(d.cs, t) /\ Founds(txs, t)
      BY DEF Retracts
    <3>1. CASE tx.type = "CREATE_TOKEN" /\ t = tx.Symbol /\ ~Exists(d.cs, t)
      BY <3>1 DEF tx, Founds
    <3>2. CASE Stays(c, d, t)
      <4>1. Stays(b, c, t) => Stays(b, d, t)
        BY <3>2 DEF Stays
      <4>2. ~Exists(c.cs, t) => ~Exists(d.cs, t)
        BY <3>2 DEF Stays
      <4> QED BY <2>1, <4>1, <4>2 DEF Retracts
    <3> QED BY <2>7, <3>1, <3>2
  <2>11. Good(d, k - 1)
    BY <2>1, <2>7, <2>8, <2>9, <2>10
  <2> HIDE DEF Good
  <2> QED BY <1>1, <2>11 DEF d
<1>4. 0 \in N
  <2> HIDE DEF N, n
  <2> QED BY <1>1, <1>2, <1>3, Adding!InductDownTo
<1>5. Good(g[0], 0) /\ ms \cup MatchesIn(txs, 0) = ms
  BY <1>4 DEF MatchesIn
<1> QED BY <1>5

\* The folds that undo transactions, one transaction at a time.
UndoingMatchTxs == INSTANCE Folding WITH Step <- UndoMatchChainTx
UndoingMinedMatchTxs == INSTANCE Folding WITH Step <- UndoMinedMatchTx
UndoingTxs == INSTANCE Folding WITH Step <- UndoTx
UndoingMinedTxs == INSTANCE Folding WITH Step <- UndoMinedTx

\* The list of the match chain, the last transaction first.
LEMMA UndoMatchTxsSteps ==
  ASSUME NEW S, NEW txs \in Seq(S), NEW b
  PROVE  \E g : UndoingMatchTxs!RightSteps(txs, b, g) /\ FoldRight(UndoMatchChainTx, txs, b) = g[0]
<1>1. UndoingMatchTxs!FoldRight(UndoMatchChainTx, txs, b) = FoldRight(UndoMatchChainTx, txs, b)
  BY DEF UndoingMatchTxs!FoldRight, FoldRight, UndoingMatchTxs!MapThenFoldSet,
         MapThenFoldSet, UndoingMatchTxs!Min, Min
<1>2. \E g : UndoingMatchTxs!RightSteps(txs, b, g)
             /\ UndoingMatchTxs!FoldRight(UndoMatchChainTx, txs, b) = g[0]
  BY ONLY UndoingMatchTxs!FoldRightSteps, txs \in Seq(S)
<1> QED BY <1>1, <1>2

\* A block of the match chain.
LEMMA UndoMinedMatchTxsSteps ==
  ASSUME NEW S, NEW txs \in Seq(S), NEW b
  PROVE  \E g : UndoingMinedMatchTxs!RightSteps(txs, b, g)
                /\ FoldRight(UndoMinedMatchTx, txs, b) = g[0]
<1>1. UndoingMinedMatchTxs!FoldRight(UndoMinedMatchTx, txs, b)
        = FoldRight(UndoMinedMatchTx, txs, b)
  BY DEF UndoingMinedMatchTxs!FoldRight, FoldRight, UndoingMinedMatchTxs!MapThenFoldSet,
         MapThenFoldSet, UndoingMinedMatchTxs!Min, Min
<1>2. \E g : UndoingMinedMatchTxs!RightSteps(txs, b, g)
             /\ UndoingMinedMatchTxs!FoldRight(UndoMinedMatchTx, txs, b) = g[0]
  BY ONLY UndoingMinedMatchTxs!FoldRightSteps, txs \in Seq(S)
<1> QED BY <1>1, <1>2

\* The list of any chain.
LEMMA UndoTxsSteps ==
  ASSUME NEW S, NEW txs \in Seq(S), NEW b
  PROVE  \E g : UndoingTxs!RightSteps(txs, b, g) /\ UndoTransactions(b, txs) = g[0]
<1>1. UndoingTxs!FoldRight(UndoTx, txs, b) = FoldRight(UndoTx, txs, b)
  BY DEF UndoingTxs!FoldRight, FoldRight, UndoingTxs!MapThenFoldSet,
         MapThenFoldSet, UndoingTxs!Min, Min
<1>2. \E g : UndoingTxs!RightSteps(txs, b, g) /\ UndoingTxs!FoldRight(UndoTx, txs, b) = g[0]
  BY ONLY UndoingTxs!FoldRightSteps, txs \in Seq(S)
<1> QED BY <1>1, <1>2 DEF UndoTransactions

\* A block of any chain.
LEMMA UndoMinedTxsSteps ==
  ASSUME NEW S, NEW txs \in Seq(S), NEW b
  PROVE  \E g : UndoingMinedTxs!RightSteps(txs, b, g) /\ UndoMinedTransactions(b, txs) = g[0]
<1>1. UndoingMinedTxs!FoldRight(UndoMinedTx, txs, b) = FoldRight(UndoMinedTx, txs, b)
  BY DEF UndoingMinedTxs!FoldRight, FoldRight, UndoingMinedTxs!MapThenFoldSet,
         MapThenFoldSet, UndoingMinedTxs!Min, Min
<1>2. \E g : UndoingMinedTxs!RightSteps(txs, b, g)
             /\ UndoingMinedTxs!FoldRight(UndoMinedTx, txs, b) = g[0]
  BY ONLY UndoingMinedTxs!FoldRightSteps, txs \in Seq(S)
<1> QED BY <1>1, <1>2 DEF UndoMinedTransactions

\* On the match chain, transactions of any kind are undone by the same steps.
LEMMA UndoOnMatchChain ==
  ASSUME NEW b, NEW tx \in TxOn(MatchChain)
  PROVE  UndoTx(tx, b) = UndoMatchChainTx(tx, b) /\ UndoMinedTx(tx, b) = UndoMinedMatchTx(tx, b)
BY TxOnMatchChain DEF UndoTx, UndoMinedTx, UndoMinedMatchTx, UndoMatchChainTx

\* The four ways to undo transactions of the match chain, with ms in force before.
LEMMA MatchChainUndone ==
  ASSUME NEW b, Stocked(b), NEW txs \in Seq(TxOn(MatchChain)), NEW ms, Orderly(ms, txs),
         ~b.panicked => Tallied(b.cs, ms \cup MatchesOf(txs)),
         NEW b2 \in {FoldRight(UndoMatchChainTx, txs, b), FoldRight(UndoMinedMatchTx, txs, b),
                     UndoTransactions(b, txs), UndoMinedTransactions(b, txs)}
  PROVE  /\ Stocked(b2) /\ SameMatchChain(b, b2)
         /\ b.panicked => b2.panicked
         /\ ~b2.panicked => Tallied(b2.cs, ms)
         /\ Retracts(b, b2, txs)
<1>1. \A k \in 1 .. Len(txs) : txs[k] \in TxOn(MatchChain)
  OBVIOUS
<1>2. \E g : /\ g[Len(txs)] = b /\ b2 = g[0]
             /\ \A k \in 1 .. Len(txs) :
                  g[k - 1] \in {UndoMatchChainTx(txs[k], g[k]), UndoMinedMatchTx(txs[k], g[k])}
  <2>1. CASE b2 = FoldRight(UndoMatchChainTx, txs, b)
    <3>1. PICK g : UndoingMatchTxs!RightSteps(txs, b, g)
                   /\ FoldRight(UndoMatchChainTx, txs, b) = g[0]
      BY UndoMatchTxsSteps
    <3>2. b2 = g[0]
      BY <2>1, <3>1
    <3>3. UndoingMatchTxs!RightSteps(txs, b, g)
      BY <3>1
    <3>4. /\ g[Len(txs)] = b
          /\ \A k \in 1 .. Len(txs) : g[k - 1] = UndoMatchChainTx(txs[k], g[k])
      BY ONLY <3>3 DEF UndoingMatchTxs!RightSteps
    <3> QED BY ONLY <3>2, <3>4
  <2>2. CASE b2 = FoldRight(UndoMinedMatchTx, txs, b)
    <3>1. PICK g : UndoingMinedMatchTxs!RightSteps(txs, b, g)
                   /\ FoldRight(UndoMinedMatchTx, txs, b) = g[0]
      BY UndoMinedMatchTxsSteps
    <3>2. b2 = g[0]
      BY <2>2, <3>1
    <3>3. UndoingMinedMatchTxs!RightSteps(txs, b, g)
      BY <3>1
    <3>4. /\ g[Len(txs)] = b
          /\ \A k \in 1 .. Len(txs) : g[k - 1] = UndoMinedMatchTx(txs[k], g[k])
      BY ONLY <3>3 DEF UndoingMinedMatchTxs!RightSteps
    <3> QED BY ONLY <3>2, <3>4
  <2>3. CASE b2 = UndoTransactions(b, txs)
    BY <1>1, <2>3, UndoTxsSteps, UndoOnMatchChain DEF UndoingTxs!RightSteps
  <2>4. CASE b2 = UndoMinedTransactions(b, txs)
    BY <1>1, <2>4, UndoMinedTxsSteps, UndoOnMatchChain DEF UndoingMinedTxs!RightSteps
  <2> QED BY <2>1, <2>2, <2>3, <2>4
<1>3. PICK g : /\ g[Len(txs)] = b /\ b2 = g[0]
               /\ \A k \in 1 .. Len(txs) :
                    g[k - 1] \in {UndoMatchChainTx(txs[k], g[k]), UndoMinedMatchTx(txs[k], g[k])}
  BY <1>2
<1>4. /\ Stocked(g[Len(txs)])
      /\ ~g[Len(txs)].panicked => Tallied(g[Len(txs)].cs, ms \cup MatchesOf(txs))
  BY <1>3
<1>5. /\ Stocked(g[0]) /\ SameMatchChain(g[Len(txs)], g[0])
      /\ g[Len(txs)].panicked => g[0].panicked
      /\ ~g[0].panicked => Tallied(g[0].cs, ms)
      /\ Retracts(g[Len(txs)], g[0], txs)
  BY ONLY <1>3, <1>4, MatchTxsUndone, txs \in Seq(TxOn(MatchChain)), Orderly(ms, txs)
<1> QED BY <1>3, <1>5

-----------------------------------------------------------------------------
\* The blocks of the match chain, and the matches in force with them.

\* Each of the first n blocks is orderly after those before it.
OrderlyBlocks(blocks, n) ==
  \A k \in 1 .. n : Orderly(MatchesUpTo(blocks, k - 1), blocks[k])

\* A token that the first n blocks of the match chain or its list create is there, and
\* no two of them create it.
Peopled(cs, blocks, list, n) ==
  \A t \in Symbols :
    /\ Founds(list, t) => Exists(cs, t)
    /\ \A i \in 1 .. n : Founds(blocks[i], t) =>
         /\ Exists(cs, t) /\ ~Founds(list, t)
         /\ \A j \in 1 .. n : Founds(blocks[j], t) => j = i

\* With the first n blocks of the match chain and its list applied, the matches in
\* force are theirs, and so are the tokens created.
Sound(b, n) ==
  LET ms == MatchesUpTo(b.chains[MatchChain], n)
      list == b.mempoolUncommitted[MatchChain]
  IN /\ OrderlyBlocks(b.chains[MatchChain], n)
     /\ Orderly(ms, list)
     /\ Tallied(b.cs, ms \cup MatchesOf(list))
     /\ Peopled(b.cs, b.chains[MatchChain], list, n)

\* The match chain creates the token t; if so, the token has blocks.
Created(b, t) ==
  \E i \in 1 .. Len(b.chains[MatchChain]) : Founds(b.chains[MatchChain][i], t)
Kept(b, t) == Created(b, t) => b.chains[t] # <<>>

\* No token loses the blocks that it has as long as the match chain creates it.
Keeps(b, b2) == \A t \in Symbols : Kept(b, t) => Kept(b2, t)

\* The tokens that undoing leaves stay what they are.
Outlives(b, b2) ==
  /\ Loses(b.books, b2.books) /\ Keeps(b, b2)
  /\ \A t \in Symbols : Exists(b2.cs, t) => Stays(b, b2, t)

\* The same chains keep the same tokens.
LEMMA SameChainsKeep ==
  ASSUME NEW b, NEW b2, b2.chains = b.chains
  PROVE  Keeps(b, b2)
BY DEF Keeps, Kept, Created

\* Tokens that are not there are created by no block and no list.
LEMMA NotCreated ==
  ASSUME NEW b, NEW n, n = Len(b.chains[MatchChain]), Sound(b, n),
         NEW t \in Symbols, ~Exists(b.cs, t)
  PROVE  ~Created(b, t) /\ ~Founds(b.mempoolUncommitted[MatchChain], t)
BY DEF Sound, Peopled, Created

\* What is added keeps the tokens that there are.
LEMMA BuildsKeeps ==
  ASSUME NEW b, NEW n, n = Len(b.chains[MatchChain]), Sound(b, n), NEW b2, Builds(b, b2)
  PROVE  Keeps(b, b2)
<1> SUFFICES ASSUME NEW t \in Symbols, Kept(b, t), Created(b2, t)
             PROVE  b2.chains[t] # <<>>
  BY DEF Keeps, Kept
<1>1. Created(b, t)
  BY DEF Builds, Created
<1>2. Exists(b.cs, t)
  BY <1>1, NotCreated
<1> QED BY <1>1, <1>2 DEF Builds, Kept

\* Undoing transactions of the match chain keeps them, if no block that is left creates
\* what they created.
LEMMA RetractsKeeps ==
  ASSUME NEW b, NEW b2, NEW txs, Retracts(b, b2, txs), SameMatchChain(b, b2),
         \A t \in Symbols : Founds(txs, t) => ~Created(b, t)
  PROVE  Keeps(b, b2)
<1> SUFFICES ASSUME NEW t \in Symbols, Kept(b, t), Created(b2, t)
             PROVE  b2.chains[t] # <<>>
  BY DEF Keeps, Kept
<1>1. Created(b, t)
  BY DEF SameMatchChain, Created
<1>2. Stays(b, b2, t)
  BY <1>1 DEF Retracts
<1> QED BY <1>1, <1>2 DEF Stays, Kept

\* The tokens that were created are on the ledger that has them all.
LEMMA StillPeopled ==
  ASSUME NEW cs, NEW blocks, NEW list, NEW n, Peopled(cs, blocks, list, n), NEW cs2,
         \A t \in Symbols : Exists(cs, t) => Exists(cs2, t)
  PROVE  Peopled(cs2, blocks, list, n)
BY DEF Peopled

\* So they are when transactions are undone that created none of them.
LEMMA PeopledRetracted ==
  ASSUME NEW b, NEW b2, NEW txs, Retracts(b, b2, txs), NEW blocks, NEW n,
         Peopled(b.cs, blocks, <<>>, n),
         \A t \in Symbols : Founds(txs, t) => \A i \in 1 .. n : ~Founds(blocks[i], t)
  PROVE  Peopled(b2.cs, blocks, <<>>, n)
<1> SUFFICES ASSUME NEW t \in Symbols
             PROVE  /\ Founds(<<>>, t) => Exists(b2.cs, t)
                    /\ \A i \in 1 .. n : Founds(blocks[i], t) =>
                         /\ Exists(b2.cs, t) /\ ~Founds(<<>>, t)
                         /\ \A j \in 1 .. n : Founds(blocks[j], t) => j = i
  BY DEF Peopled
<1>1. ~Founds(<<>>, t)
  BY DEF Founds
<1>2. ASSUME NEW i \in 1 .. n, Founds(blocks[i], t)
      PROVE  Exists(b2.cs, t) /\ \A j \in 1 .. n : Founds(blocks[j], t) => j = i
  <2>1. Stays(b, b2, t)
    BY <1>2 DEF Retracts
  <2> QED BY <1>2, <2>1 DEF Peopled, Stays
<1> QED BY <1>1, <1>2

\* What is true of more blocks, and with a list, is true of fewer and without.
LEMMA FewerPeopled ==
  ASSUME NEW cs, NEW blocks, NEW list, NEW n \in Nat, Peopled(cs, blocks, list, n),
         NEW m \in Nat, m <= n, NEW others, \A i \in 1 .. m : others[i] = blocks[i]
  PROVE  Peopled(cs, others, <<>>, m)
<1>1. \A i \in 1 .. m : i \in 1 .. n /\ others[i] = blocks[i]
  OBVIOUS
<1>2. \A t \in Symbols : ~Founds(<<>>, t)
  BY DEF Founds
<1> QED BY <1>1, <1>2 DEF Peopled

\* What is true of the blocks and the list, is true when the list grows.
LEMMA PeopledList ==
  ASSUME NEW cs, NEW blocks, NEW list, NEW n, Peopled(cs, blocks, list, n),
         NEW cs2, \A t \in Symbols : Exists(cs, t) => Exists(cs2, t),
         NEW more, \A t \in Symbols : Founds(more, t) =>
                     Exists(cs2, t) /\ (Founds(list, t) \/ ~Exists(cs, t))
  PROVE  Peopled(cs2, blocks, more, n)
BY DEF Peopled

\* So it is with one block more, which creates what no block before it did.
LEMMA PeopledBlock ==
  ASSUME NEW cs, NEW blocks, NEW list, NEW n \in Nat, Peopled(cs, blocks, list, n),
         NEW cs2, \A t \in Symbols : Exists(cs, t) => Exists(cs2, t),
         NEW txs, \A t \in Symbols : Founds(txs, t) =>
                    Exists(cs2, t) /\ \A i \in 1 .. n : ~Founds(blocks[i], t),
         NEW more, more[n + 1] = txs, \A i \in 1 .. n : more[i] = blocks[i]
  PROVE  Peopled(cs2, more, <<>>, n + 1)
<1> SUFFICES ASSUME NEW t \in Symbols
             PROVE  /\ Founds(<<>>, t) => Exists(cs2, t)
                    /\ \A i \in 1 .. n + 1 : Founds(more[i], t) =>
                         /\ Exists(cs2, t) /\ ~Founds(<<>>, t)
                         /\ \A j \in 1 .. n + 1 : Founds(more[j], t) => j = i
  BY DEF Peopled
<1>1. ~Founds(<<>>, t)
  BY DEF Founds
<1>2. \A i \in 1 .. n + 1 : i \in 1 .. n \/ i = n + 1
  OBVIOUS
<1>3. \A i \in 1 .. n : Founds(blocks[i], t) =>
        /\ Exists(cs, t) /\ \A j \in 1 .. n : Founds(blocks[j], t) => j = i
  BY DEF Peopled
<1>4. \A i \in 1 .. n + 1 : Founds(more[i], t) =>
        Exists(cs2, t) /\ \A j \in 1 .. n + 1 : Founds(more[j], t) => j = i
  BY <1>2, <1>3
<1> QED BY <1>1, <1>4

\* The matches of n blocks are those of the last and of the others.
LEMMA MatchesUpToStep ==
  ASSUME NEW blocks, NEW n \in Nat, n # 0
  PROVE  /\ MatchesUpTo(blocks, n) = MatchesUpTo(blocks, n - 1) \cup MatchesOf(blocks[n])
         /\ MatchesUpTo(blocks, 0) = {}
<1>1. 1 .. n = 1 .. (n - 1) \cup {n} /\ 1 .. 0 = {}
  OBVIOUS
<1> QED BY <1>1 DEF MatchesUpTo

\* What the first n blocks say is of them alone.
LEMMA SameBlocks ==
  ASSUME NEW blocks, NEW others, NEW n \in Nat, \A i \in 1 .. n : others[i] = blocks[i]
  PROVE  /\ MatchesUpTo(others, n) = MatchesUpTo(blocks, n)
         /\ OrderlyBlocks(blocks, n) => OrderlyBlocks(others, n)
<1>1. ASSUME NEW k \in 0 .. n
      PROVE  MatchesUpTo(others, k) = MatchesUpTo(blocks, k)
  <2>1. \A i \in 1 .. k : others[i] = blocks[i]
    OBVIOUS
  <2> QED BY <2>1 DEF MatchesUpTo
<1>2. \A k \in 1 .. n : k - 1 \in 0 .. n
  OBVIOUS
<1> QED BY <1>1, <1>2 DEF OrderlyBlocks

\* A sequence without its last element.
LEMMA FrontOf ==
  ASSUME NEW S, NEW seq \in Seq(S), Len(seq) # 0
  PROVE  /\ Front(seq) \in Seq(S) /\ Len(Front(seq)) = Len(seq) - 1
         /\ \A i \in 1 .. Len(seq) - 1 : Front(seq)[i] = seq[i]
         /\ Last(seq) \in S /\ Last(seq) = seq[Len(seq)]
<1>1. Len(seq) \in Nat /\ Len(seq) \in 1 .. Len(seq)
  OBVIOUS
<1>2. /\ SubSeq(seq, 1, Len(seq) - 1) \in Seq(S)
      /\ Len(SubSeq(seq, 1, Len(seq) - 1)) = Len(seq) - 1
      /\ \A i \in 1 .. Len(seq) - 1 : SubSeq(seq, 1, Len(seq) - 1)[i] = seq[i]
  <2> DEFINE n == Len(seq) - 1
             f == SubSeq(seq, 1, n)
  <2>1. n \in Nat /\ \A i \in 1 .. n : seq[i] \in S
    BY <1>1
  <2> HIDE DEF n
  <2>2. /\ f \in Seq(S) /\ Len(f) = IF 1 <= n THEN n - 1 + 1 ELSE 0
        /\ \A i \in 1 .. n - 1 + 1 : f[i] = seq[1 + i - 1]
    BY ONLY <2>1, SubSeqProperties
  <2> HIDE DEF f
  <2>3. f \in Seq(S) /\ Len(f) = n /\ \A i \in 1 .. n : f[i] = seq[i]
    BY <2>1, <2>2
  <2> QED BY <2>3 DEF f, n
<1> QED BY <1>1, <1>2 DEF Front, Last

\* The last block goes, its transactions are still applied.
LEMMA LastBlockRemoved ==
  ASSUME NEW b, Stocked(b), NEW s \in Chains, b.height[s] # 0
  PROVE  LET b2 == RemoveLastBlock(b, s)
         IN /\ Stocked(b2) /\ b2.cs = b.cs
            /\ b2.mempoolUncommitted = b.mempoolUncommitted
            /\ b2.recovering = b.recovering /\ b2.panicked = b.panicked
            /\ b2.books = b.books
            /\ b2.chains[s] = Front(b.chains[s]) /\ b2.height[s] = b.height[s] - 1
            /\ \A t \in Chains : t # s => /\ b2.chains[t] = b.chains[t]
                                          /\ b2.height[t] = b.height[t]
            /\ Len(b.chains[s]) # 0 /\ Last(b.chains[s]) \in Seq(TxOn(s))
<1> DEFINE b2 == RemoveLastBlock(b, s)
           c == b.chains[s]
           f == Front(c)
           h == b.height[s]
<1>1. /\ b \in Blockchains /\ c \in Seq(Seq(TxOn(s))) /\ h \in Nat /\ h <= Len(c)
      /\ b.chains \in [Chains -> Seq(Block)] /\ b.height \in [Chains -> Nat]
      /\ c \in Seq(Block)
  BY DEF Stocked, Blockchains
<1>2. Len(c) # 0 /\ Len(c) \in Nat
  BY <1>1
<1>3. /\ f \in Seq(Seq(TxOn(s))) /\ f \in Seq(Block) /\ Len(f) = Len(c) - 1
      /\ Last(c) \in Seq(TxOn(s))
  <2> HIDE DEF c
  <2> QED BY <1>1, <1>2, FrontOf
<1>4. b2 = [b EXCEPT !.chains = [b.chains EXCEPT ![s] = f],
                     !.height = [b.height EXCEPT ![s] = h - 1]]
  BY <1>1 DEF RemoveLastBlock, Blockchains
<1> HIDE DEF b2, f
<1>5. h - 1 \in Nat /\ h - 1 <= Len(c) - 1
  <2> HIDE DEF c, h
  <2>1. h # 0
    BY DEF h
  <2> QED BY <1>1, <1>2, <2>1
<1>6. /\ [b.chains EXCEPT ![s] = f] \in [Chains -> Seq(Block)]
      /\ [b.height EXCEPT ![s] = h - 1] \in [Chains -> Nat]
  <2> HIDE DEF h
  <2> QED BY <1>1, <1>3, <1>5
<1>7. /\ b2 \in Blockchains /\ b2.cs = b.cs
      /\ b2.chains = [b.chains EXCEPT ![s] = f]
      /\ b2.height = [b.height EXCEPT ![s] = h - 1]
      /\ b2.mempoolUncommitted = b.mempoolUncommitted
      /\ b2.recovering = b.recovering /\ b2.panicked = b.panicked /\ b2.books = b.books
  <2> HIDE DEF h
  <2> QED BY <1>1, <1>4, <1>6 DEF Blockchains
<1>8. /\ b2.chains[s] = f /\ b2.height[s] = h - 1
      /\ \A t \in Chains : t # s => b2.chains[t] = b.chains[t] /\ b2.height[t] = b.height[t]
  BY <1>1, <1>7
<1>9. \A t \in Chains : /\ b2.chains[t] \in Seq(Seq(TxOn(t)))
                        /\ b2.mempoolUncommitted[t] \in Seq(TxOn(t))
                        /\ b2.height[t] <= Len(b2.chains[t])
  <2> SUFFICES ASSUME NEW t \in Chains
               PROVE  /\ b2.chains[t] \in Seq(Seq(TxOn(t)))
                      /\ b2.mempoolUncommitted[t] \in Seq(TxOn(t))
                      /\ b2.height[t] <= Len(b2.chains[t])
    OBVIOUS
  <2>1. /\ b.chains[t] \in Seq(Seq(TxOn(t))) /\ b.mempoolUncommitted[t] \in Seq(TxOn(t))
        /\ b.height[t] <= Len(b.chains[t])
    BY DEF Stocked
  <2>2. CASE t = s
    <3>1. b2.height[s] <= Len(b2.chains[s])
      BY <1>3, <1>5, <1>8
    <3> QED BY <1>3, <1>7, <1>8, <2>1, <2>2, <3>1
  <2>3. CASE t # s
    BY <1>7, <1>8, <2>1, <2>3
  <2> QED BY <2>2, <2>3
<1>10. b2.height[MatchChain] = Len(b2.chains[MatchChain])
  <2>1. b.height[MatchChain] = Len(b.chains[MatchChain])
    BY DEF Stocked
  <2>2. CASE s = MatchChain
    BY <1>3, <1>8, <2>1, <2>2
  <2>3. CASE s # MatchChain
    BY <1>8, <2>1, <2>3, ChainKinds
  <2> QED BY <2>2, <2>3
<1>11. Stocked(b2)
  BY <1>7, <1>9, <1>10 DEF Stocked
<1> QED BY <1>2, <1>3, <1>7, <1>8, <1>11 DEF b2, f

\* A token that was created is one a match may have been on, any other stays.
LEMMA RetractsOutlives ==
  ASSUME NEW b, NEW b2, NEW txs, Retracts(b, b2, txs), SameMatchChain(b, b2),
         \A t \in Symbols : Founds(txs, t) => ~Created(b, t)
  PROVE  Outlives(b, b2)
<1>1. Keeps(b, b2)
  BY RetractsKeeps
<1> QED BY <1>1 DEF Retracts, Outlives, SameMatchChain

\* Undoing more leaves what both leave.
LEMMA OutlivesMore ==
  ASSUME NEW b, NEW b2, NEW b3, Outlives(b, b2), Outlives(b2, b3)
  PROVE  Outlives(b, b3)
<1>1. Loses(b.books, b3.books)
  BY LosesMore DEF Outlives
<1>2. Keeps(b, b3)
  BY DEF Outlives, Keeps
<1> QED BY <1>1, <1>2 DEF Outlives, Stays

\* Undoing nothing leaves everything.
LEMMA OutlivesSelf ==
  ASSUME NEW b, NEW b2, b2.cs = b.cs, b2.chains = b.chains, b2.height = b.height,
         Loses(b.books, b2.books)
  PROVE  Outlives(b, b2)
BY SameChainsKeep DEF Outlives, Stays

\* The last block of the match chain is rolled back, when no transaction waits there.
LEMMA MatchBlockRolledBack ==
  ASSUME NEW b, Stocked(b), b.mempoolUncommitted[MatchChain] = <<>>,
         NEW n \in Nat, n # 0, n = Len(b.chains[MatchChain]),
         ~b.panicked, Sound(b, n)
  PROVE  LET b2 == RollbackMatchBlock(b)
         IN /\ Stocked(b2) /\ b2.recovering = b.recovering
            /\ b2.mempoolUncommitted[MatchChain] = <<>>
            /\ b2.chains[MatchChain] = Front(b.chains[MatchChain])
            /\ ~b2.panicked => Sound(b2, n - 1)
            /\ Outlives(b, b2)
<1> DEFINE c == RemoveLastBlock(b, MatchChain)
           blocks == b.chains[MatchChain]
           txs == Last(blocks)
           ms == MatchesUpTo(blocks, n - 1)
           b2 == FoldRight(UndoMinedMatchTx, txs, c)
<1>1. b.height[MatchChain] # 0 /\ blocks \in Seq(Seq(TxOn(MatchChain)))
  BY ChainKinds DEF Stocked
<1>2. /\ Stocked(c) /\ c.cs = b.cs /\ c.mempoolUncommitted = b.mempoolUncommitted
      /\ c.recovering = b.recovering /\ c.panicked = b.panicked /\ c.books = b.books
      /\ c.chains[MatchChain] = Front(blocks)
      /\ \A t \in Symbols : c.chains[t] = b.chains[t] /\ c.height[t] = b.height[t]
      /\ txs \in Seq(TxOn(MatchChain))
  BY <1>1, LastBlockRemoved, ChainKinds
<1>3. /\ Len(Front(blocks)) = n - 1 /\ txs = blocks[n]
      /\ \A i \in 1 .. n - 1 : Front(blocks)[i] = blocks[i]
  <2> HIDE DEF blocks
  <2> QED BY <1>1, FrontOf DEF blocks
<1> HIDE DEF c, txs
<1>4. Orderly(ms, txs)
  <2>1. OrderlyBlocks(blocks, n) /\ n \in 1 .. n
    BY DEF Sound
  <2> QED BY <1>3, <2>1 DEF OrderlyBlocks
<1>5. Tallied(c.cs, ms \cup MatchesOf(txs))
  <2>1. MatchesOf(<<>>) = {}
    BY DEF MatchesOf, MatchesIn
  <2>2. MatchesUpTo(blocks, n) = ms \cup MatchesOf(txs)
    BY <1>3, MatchesUpToStep
  <2>3. Tallied(c.cs, MatchesUpTo(blocks, n) \cup MatchesOf(<<>>))
    BY <1>2 DEF Sound
  <2>4. MatchesUpTo(blocks, n) \cup MatchesOf(<<>>) = ms \cup MatchesOf(txs)
    BY <2>1, <2>2
  <2> QED BY <2>3, <2>4
<1> HIDE DEF b2, ms, blocks
<1>6. /\ Stocked(b2) /\ SameMatchChain(c, b2)
      /\ ~b2.panicked => Tallied(b2.cs, ms)
      /\ Retracts(c, b2, txs)
  <2>1. b2 \in {FoldRight(UndoMatchChainTx, txs, c), FoldRight(UndoMinedMatchTx, txs, c),
                UndoTransactions(c, txs), UndoMinedTransactions(c, txs)}
    BY DEF b2
  <2>2. Orderly(ms, txs) /\ Stocked(c) /\ txs \in Seq(TxOn(MatchChain))
    BY <1>2, <1>4
  <2> QED BY ONLY <1>5, <2>1, <2>2, MatchChainUndone
<1>11. \A t \in Symbols : Founds(txs, t) => \A i \in 1 .. n - 1 : ~Founds(blocks[i], t)
  <2>1. Peopled(b.cs, blocks, b.mempoolUncommitted[MatchChain], n)
    BY DEF Sound, blocks
  <2>2. n \in 1 .. n /\ \A i \in 1 .. n - 1 : i \in 1 .. n /\ i # n
    OBVIOUS
  <2> QED BY <1>3, <2>1, <2>2 DEF Peopled
<1>12. /\ \A t \in Symbols : Created(c, t) => Created(b, t)
       /\ \A t \in Symbols : Founds(txs, t) => ~Created(c, t)
  <2>1. c.chains[MatchChain] = Front(blocks) /\ b.chains[MatchChain] = blocks
        /\ Len(blocks) = n /\ Len(Front(blocks)) = n - 1
    BY <1>2, <1>3 DEF blocks
  <2>2. \A i \in 1 .. n - 1 : i \in 1 .. n /\ Front(blocks)[i] = blocks[i]
    BY <1>3
  <2> QED BY <1>11, <2>1, <2>2 DEF Created
<1>7. Outlives(b, c) /\ Outlives(c, b2)
  <2>1. Loses(b.books, c.books)
    BY <1>2, LosesNothing
  <2>2. Keeps(b, c)
    BY <1>2, <1>12 DEF Keeps, Kept
  <2>3. Outlives(b, c)
    BY <1>2, <2>1, <2>2 DEF Outlives, Stays
  <2> QED BY <1>6, <1>12, <2>3, RetractsOutlives
<1>8. Outlives(b, b2)
  BY <1>7, OutlivesMore
<1>9. /\ b2.recovering = b.recovering /\ b2.mempoolUncommitted[MatchChain] = <<>>
      /\ b2.chains[MatchChain] = Front(blocks)
  BY <1>2, <1>6 DEF SameMatchChain, blocks
<1>10. ~b2.panicked => Sound(b2, n - 1)
  <2> SUFFICES ASSUME ~b2.panicked PROVE Sound(b2, n - 1)
    OBVIOUS
  <2>1. n - 1 \in Nat
    OBVIOUS
  <2>2. OrderlyBlocks(blocks, n)
    BY DEF Sound, blocks
  <2>3. OrderlyBlocks(blocks, n - 1)
    BY <2>2 DEF OrderlyBlocks
  <2>4. MatchesUpTo(Front(blocks), n - 1) = ms /\ OrderlyBlocks(Front(blocks), n - 1)
    BY <1>3, <2>1, <2>3, SameBlocks DEF ms
  <2>5. MatchesOf(<<>>) = {} /\ Orderly(ms, <<>>)
    BY DEF MatchesOf, MatchesIn, Orderly
  <2>6. ms \cup MatchesOf(<<>>) = ms
    BY <2>5
  <2>7. Peopled(b2.cs, Front(blocks), <<>>, n - 1)
    <3>1. Peopled(c.cs, blocks, <<>>, n - 1)
      <4>1. Peopled(c.cs, blocks, b.mempoolUncommitted[MatchChain], n)
        BY <1>2 DEF Sound, blocks
      <4> QED BY <2>1, <4>1, FewerPeopled
    <3>2. Peopled(b2.cs, blocks, <<>>, n - 1)
      BY ONLY <1>6, <1>11, <3>1, PeopledRetracted
    <3> QED BY <1>3, <2>1, <3>2, FewerPeopled
  <2> QED BY <1>6, <1>9, <2>4, <2>5, <2>6, <2>7 DEF Sound
<1> QED BY <1>6, <1>8, <1>9, <1>10 DEF RollbackMatchBlock, b2, c, txs, blocks

\* The uncommitted matches and created tokens are forgotten.  In a recovery there are
\* none.
LEMMA MatchesForgotten ==
  ASSUME NEW b, Stocked(b), ~b.panicked, NEW n, Sound(b, n),
         n = Len(b.chains[MatchChain]),
         b.recovering => b.mempoolUncommitted[MatchChain] = <<>>,
         NEW b2 \in {ForgetMatches(b), ForgetUncommitted(b, MatchChain)}
  PROVE  /\ Stocked(b2) /\ b2.recovering = b.recovering
         /\ b2.mempoolUncommitted[MatchChain] = <<>>
         /\ b2.chains[MatchChain] = b.chains[MatchChain]
         /\ ~b2.panicked => Sound(b2, n)
         /\ Outlives(b, b2)
<1> DEFINE list == b.mempoolUncommitted[MatchChain]
           ms == MatchesUpTo(b.chains[MatchChain], n)
<1>1. /\ list \in Seq(TxOn(MatchChain)) /\ Orderly(ms, list)
      /\ Tallied(b.cs, ms \cup MatchesOf(list))
      /\ OrderlyBlocks(b.chains[MatchChain], n)
      /\ Peopled(b.cs, b.chains[MatchChain], list, n) /\ n \in Nat
  BY ChainKinds DEF Stocked, Sound
<1>2. CASE b2 = b /\ list = <<>>
  <2>1. Outlives(b, b)
    BY LosesNothing, OutlivesSelf
  <2> QED BY <1>2, <2>1
<1>3. CASE \E c \in {FoldRight(UndoMatchChainTx, list, b), UndoTransactions(b, list)} :
             b2 = [c EXCEPT !.mempoolUncommitted[MatchChain] = <<>>]
  <2>1. PICK c \in {FoldRight(UndoMatchChainTx, list, b), UndoTransactions(b, list)} :
               b2 = [c EXCEPT !.mempoolUncommitted[MatchChain] = <<>>]
    BY <1>3
  <2>2. /\ Stocked(c) /\ SameMatchChain(b, c)
        /\ ~c.panicked => Tallied(c.cs, ms)
        /\ Retracts(b, c, list)
    <3>1. c \in {FoldRight(UndoMatchChainTx, list, b), FoldRight(UndoMinedMatchTx, list, b),
                 UndoTransactions(b, list), UndoMinedTransactions(b, list)}
      BY <2>1
    <3> HIDE DEF list, ms
    <3> QED BY <1>1, <3>1, MatchChainUndone
  <2> HIDE DEF list
  <2>3. c.mempoolUncommitted \in [Chains -> Seq(Transaction)] /\ c \in Blockchains
    BY <2>2 DEF Stocked, Blockchains
  <2>4. [c.mempoolUncommitted EXCEPT ![MatchChain] = <<>>] \in [Chains -> Seq(Transaction)]
    <3>1. <<>> \in Seq(Transaction)
      OBVIOUS
    <3> QED BY <2>3, <3>1
  <2>5. /\ b2 \in Blockchains /\ b2.cs = c.cs /\ b2.chains = c.chains /\ b2.height = c.height
        /\ b2.recovering = c.recovering /\ b2.panicked = c.panicked /\ b2.books = c.books
        /\ b2.mempoolUncommitted[MatchChain] = <<>>
        /\ \A t \in Chains : t # MatchChain =>
             b2.mempoolUncommitted[t] = c.mempoolUncommitted[t]
    BY <2>1, <2>3, <2>4, ChainKinds DEF Blockchains
  <2>6. Stocked(b2)
    <3>1. <<>> \in Seq(TxOn(MatchChain))
      OBVIOUS
    <3> QED BY <2>2, <2>5, <3>1 DEF Stocked
  <2>7. b2.recovering = b.recovering /\ b2.chains[MatchChain] = b.chains[MatchChain]
    BY <2>2, <2>5 DEF SameMatchChain
  <2>10. \A t \in Symbols : Founds(list, t) =>
           \A i \in 1 .. n : ~Founds(b.chains[MatchChain][i], t)
    BY <1>1 DEF Peopled
  <2>8. ~b2.panicked => Sound(b2, n)
    <3>1. MatchesOf(<<>>) = {} /\ Orderly(ms, <<>>)
      BY DEF MatchesOf, MatchesIn, Orderly
    <3>2. ms \cup MatchesOf(<<>>) = ms
      BY <3>1
    <3>3. Peopled(c.cs, b.chains[MatchChain], <<>>, n)
      <4>1. Peopled(b.cs, b.chains[MatchChain], <<>>, n)
        BY <1>1, FewerPeopled
      <4> QED BY ONLY <2>2, <2>10, <4>1, PeopledRetracted
    <3> QED BY <1>1, <2>2, <2>5, <2>7, <3>1, <3>2, <3>3 DEF Sound
  <2>9. Outlives(b, c) /\ Outlives(c, b2)
    <3>1. Loses(c.books, b2.books)
      BY <2>5, LosesNothing
    <3>2. \A t \in Symbols : Founds(list, t) => ~Created(b, t)
      BY <2>10 DEF Created
    <3> QED BY <2>2, <2>5, <3>1, <3>2, OutlivesSelf, RetractsOutlives
  <2> QED BY <2>5, <2>6, <2>7, <2>8, <2>9, OutlivesMore
<1>4. b2 = ForgetMatches(b) \/ b2 = ForgetUncommitted(b, MatchChain)
  OBVIOUS
<1>5. CASE b2 = ForgetMatches(b)
  BY <1>2, <1>3, <1>5 DEF ForgetMatches
<1>6. CASE b2 = ForgetUncommitted(b, MatchChain)
  BY <1>3, <1>6 DEF ForgetUncommitted
<1> QED BY <1>4, <1>5, <1>6

-----------------------------------------------------------------------------
\* Rolling the match chain back until an order has no update left.

\* How many of the matches are on order id of token s.
OnOrder(ms, s, id) ==
  Cardinality(MatchesBuying(ms, s, id)) + Cardinality(MatchesSelling(ms, s, id))

\* Two finite sets with nothing in common.
LEMMA CardinalityOfBoth ==
  ASSUME NEW A, NEW B, IsFiniteSet(A), IsFiniteSet(B), A \cap B = {}
  PROVE  /\ IsFiniteSet(A \cup B) /\ Cardinality(A) \in Nat /\ Cardinality(B) \in Nat
         /\ Cardinality(A \cup B) = Cardinality(A) + Cardinality(B)
<1>1. Cardinality(A) \in Nat /\ Cardinality(B) \in Nat
  BY FS_CardinalityType
<1>2. /\ IsFiniteSet(A \cup B)
      /\ Cardinality(A \cup B) = Cardinality(A) + Cardinality(B) - Cardinality(A \cap B)
  BY FS_Union
<1>3. Cardinality(A \cap B) = 0
  BY FS_EmptySet
<1> QED BY <1>1, <1>2, <1>3

\* What forgetting a list or block of the match chain takes off a counter.
LEMMA OnOrderWithout ==
  ASSUME NEW txs \in Seq(TxOn(MatchChain)), NEW ms, Orderly(ms, txs),
         IsFiniteSet(ms \cup MatchesOf(txs)), NEW s, NEW id
  PROVE  /\ OnOrder(ms, s, id) \in Nat
         /\ OnOrder(ms \cup MatchesOf(txs), s, id) - UpdatesOn(txs, s, id)
              = OnOrder(ms, s, id)
<1> DEFINE new == MatchesOf(txs)
           B == MatchesBuying(new, s, id)  S == MatchesSelling(new, s, id)
           B1 == MatchesBuying(ms, s, id)  S1 == MatchesSelling(ms, s, id)
<1>1. Len(txs) \in Nat /\ \A k \in 1 .. Len(txs) : txs[k] \in TxOn(MatchChain)
  OBVIOUS
<1>2. new \cap ms = {} /\ \A m \in new : m.type = "MATCH" /\ m.BuySymbol # m.SellSymbol
  BY <1>1 DEF Orderly, MatchesOf, MatchesIn, TxOn, BetweenTokens
<1>3. /\ B \subseteq new /\ S \subseteq new /\ B \cap S = {}
      /\ B1 \subseteq ms /\ S1 \subseteq ms
      /\ MatchesBuying(ms \cup new, s, id) = B1 \cup B
      /\ MatchesSelling(ms \cup new, s, id) = S1 \cup S
  BY <1>2 DEF MatchesBuying, MatchesSelling
<1>4. UpdatesOn(txs, s, id) = Cardinality(B) + Cardinality(S)
  <2>1. ToSet(txs) = {txs[k] : k \in 1 .. Len(txs)}
    BY DEF ToSet
  <2>2. {tx \in ToSet(txs) : tx.type = "MATCH"} = new
    BY <2>1 DEF MatchesOf, MatchesIn
  <2> HIDE DEF new
  <2> QED BY <2>2 DEF UpdatesOn
<1>5. IsFiniteSet(ms) /\ IsFiniteSet(new)
  <2> HIDE DEF new
  <2> QED BY FS_Subset DEF new
<1> HIDE DEF new, B, S, B1, S1
<1>6. /\ IsFiniteSet(B) /\ IsFiniteSet(S) /\ IsFiniteSet(B1) /\ IsFiniteSet(S1)
      /\ B1 \cap B = {} /\ S1 \cap S = {}
  BY <1>2, <1>3, <1>5, FS_Subset
<1>7. /\ Cardinality(B) \in Nat /\ Cardinality(S) \in Nat
      /\ Cardinality(B1) \in Nat /\ Cardinality(S1) \in Nat
      /\ Cardinality(B1 \cup B) = Cardinality(B1) + Cardinality(B)
      /\ Cardinality(S1 \cup S) = Cardinality(S1) + Cardinality(S)
  BY <1>3, <1>6, CardinalityOfBoth
<1>8. /\ OnOrder(ms, s, id) = Cardinality(B1) + Cardinality(S1)
      /\ OnOrder(ms \cup new, s, id) = Cardinality(B1 \cup B) + Cardinality(S1 \cup S)
      /\ UpdatesOn(txs, s, id) = Cardinality(B) + Cardinality(S)
  BY <1>3, <1>4 DEF OnOrder, B1, S1
<1> DEFINE x == Cardinality(B) y == Cardinality(S) x1 == Cardinality(B1) y1 == Cardinality(S1)
<1>9. /\ x \in Nat /\ y \in Nat /\ x1 \in Nat /\ y1 \in Nat
      /\ OnOrder(ms, s, id) = x1 + y1 /\ OnOrder(ms \cup new, s, id) = (x1 + x) + (y1 + y)
      /\ UpdatesOn(txs, s, id) = x + y
  BY <1>7, <1>8
<1> HIDE DEF x, y, x1, y1
<1> QED BY <1>9 DEF new

\* Counting the cascades changes nothing else.
LEMMA CascadingStocked ==
  ASSUME NEW b, Stocked(b)
  PROVE  LET b2 == Cascading(b)
         IN /\ Stocked(b2) /\ SameButBooks(b, b2) /\ b2.panicked = b.panicked
            /\ Outlives(b, b2)
            /\ \A n : Sound(b, n) => Sound(b2, n)
<1> DEFINE b2 == Cascading(b)
<1>1. Stocked(b2) /\ SameButBooks(b, b2) /\ b2.panicked = b.panicked
  <2>1. b \in Blockchains /\ b2 = [b EXCEPT !.cascades = b.cascades + 1]
    BY DEF Cascading, Stocked, Blockchains
  <2>2. b.cascades + 1 \in Nat
    BY <2>1 DEF Blockchains
  <2> HIDE DEF b2
  <2>3. /\ b2 \in Blockchains /\ b2.cs = b.cs /\ b2.chains = b.chains /\ b2.height = b.height
        /\ b2.mempoolUncommitted = b.mempoolUncommitted
        /\ b2.recovering = b.recovering /\ b2.panicked = b.panicked /\ b2.books = b.books
    BY <2>1, <2>2 DEF Blockchains
  <2> QED BY <2>3, LosesNothing DEF Stocked, SameButBooks
<1> HIDE DEF b2
<1>2. Outlives(b, b2)
  BY <1>1, OutlivesSelf DEF SameButBooks
<1>3. \A n : Sound(b, n) => Sound(b2, n)
  BY <1>1 DEF Sound, SameButBooks
<1> QED BY <1>1, <1>2, <1>3 DEF b2

\* What holds of the chains at each step, with an order of b to free.
Freeing(b, r, s, id) ==
  /\ Stocked(r.bcs) /\ ~r.bcs.recovering
  /\ r.bcs.mempoolUncommitted[MatchChain] = <<>>
  /\ Outlives(b, r.bcs)
  /\ ~r.bcs.panicked =>
       /\ Sound(r.bcs, Len(r.bcs.chains[MatchChain]))
       /\ r.count = OnOrder(MatchesUpTo(r.bcs.chains[MatchChain],
                                        Len(r.bcs.chains[MatchChain])), s, id)

\* One block of the match chain less.
LEMMA FreeOrderStep ==
  ASSUME NEW b, NEW s, NEW id, NEW r, Freeing(b, r, s, id), NEW c, c = r.bcs, ~c.panicked,
         Len(c.chains[MatchChain]) # 0, r.count # 0,
         NEW order, order.chain = s, order.id = id, NEW r2, r2 = FreeOrder(r, order)
  PROVE  /\ Freeing(b, r2, s, id)
         /\ Len(r2.bcs.chains[MatchChain]) = Len(c.chains[MatchChain]) - 1
<1> DEFINE d == Cascading(c)
           blocks == c.chains[MatchChain]
           n == Len(blocks)
           ms == MatchesUpTo(blocks, n - 1)
           txs == Last(blocks)
           b2 == RollbackMatchBlock(d)
<1>1. r2 = [bcs |-> b2, count |-> r.count - UpdatesOn(txs, s, id)]
  BY DEF FreeOrder
<1>2. /\ Stocked(c) /\ ~c.recovering /\ ~c.panicked /\ c.mempoolUncommitted[MatchChain] = <<>>
      /\ Outlives(b, c) /\ Sound(c, n) /\ r.count = OnOrder(MatchesUpTo(blocks, n), s, id)
      /\ n # 0
  BY DEF Freeing
<1> HIDE DEF b2
<1>3. blocks \in Seq(Seq(TxOn(MatchChain))) /\ n \in Nat
  BY <1>2, ChainKinds DEF Stocked
<1>4. /\ Len(Front(blocks)) = n - 1 /\ txs = blocks[n] /\ txs \in Seq(TxOn(MatchChain))
      /\ \A i \in 1 .. n - 1 : Front(blocks)[i] = blocks[i]
  <2> HIDE DEF blocks
  <2> QED BY <1>2, <1>3, FrontOf
<1>5. /\ Stocked(d) /\ SameButBooks(c, d) /\ d.panicked = c.panicked
      /\ Outlives(c, d) /\ Sound(d, n)
  BY <1>2, CascadingStocked
<1> HIDE DEF d
<1>6. /\ d.mempoolUncommitted[MatchChain] = <<>> /\ d.chains[MatchChain] = blocks
      /\ ~d.recovering /\ ~d.panicked
  BY <1>2, <1>5 DEF SameButBooks
<1>7. /\ Stocked(b2) /\ ~b2.recovering /\ b2.mempoolUncommitted[MatchChain] = <<>>
      /\ b2.chains[MatchChain] = Front(blocks)
      /\ ~b2.panicked => Sound(b2, n - 1)
      /\ Outlives(d, b2)
  BY <1>2, <1>3, <1>5, <1>6, MatchBlockRolledBack DEF b2
<1>8. Outlives(b, b2)
  <2>1. Outlives(b, d)
    BY <1>2, <1>5, OutlivesMore
  <2> QED BY <1>7, <2>1, OutlivesMore
<1>9. r.count - UpdatesOn(txs, s, id) = OnOrder(ms, s, id)
  <2>1. MatchesUpTo(blocks, n) = ms \cup MatchesOf(txs)
    BY <1>2, <1>3, <1>4, MatchesUpToStep
  <2>2. Orderly(ms, txs)
    <3>1. OrderlyBlocks(blocks, n) /\ n \in 1 .. n
      BY <1>2, <1>3 DEF Sound
    <3> QED BY <1>4, <3>1 DEF OrderlyBlocks
  <2>3. IsFiniteSet(ms \cup MatchesOf(txs))
    <3>1. IsFiniteSet(MatchesUpTo(blocks, n) \cup MatchesOf(<<>>))
      <4>1. Tallied(c.cs, MatchesUpTo(blocks, n) \cup MatchesOf(<<>>))
        BY <1>2 DEF Sound
      <4> QED BY <4>1 DEF Tallied, KnownIn
    <3>2. MatchesUpTo(blocks, n) \subseteq MatchesUpTo(blocks, n) \cup MatchesOf(<<>>)
      OBVIOUS
    <3>3. IsFiniteSet(MatchesUpTo(blocks, n))
      BY <3>1, <3>2, FS_Subset
    <3> QED BY <2>1, <3>3
  <2> HIDE DEF ms, txs, blocks, n
  <2> QED BY <1>2, <1>4, <2>1, <2>2, <2>3, OnOrderWithout
<1>10. MatchesUpTo(Front(blocks), n - 1) = ms
  <2>1. n - 1 \in Nat
    BY <1>2, <1>3
  <2>2. \A i \in 1 .. n - 1 : Front(blocks)[i] = blocks[i]
    BY <1>4
  <2> HIDE DEF n, blocks
  <2>3. MatchesUpTo(Front(blocks), n - 1) = MatchesUpTo(blocks, n - 1)
    BY ONLY <2>1, <2>2, SameBlocks
  <2> QED BY <2>3 DEF ms
<1>11. r2.bcs = b2 /\ r2.count = OnOrder(ms, s, id)
  BY <1>1, <1>9
<1>12. Freeing(b, r2, s, id)
  BY <1>4, <1>7, <1>8, <1>10, <1>11 DEF Freeing
<1>13. Len(r2.bcs.chains[MatchChain]) = n - 1
  BY <1>4, <1>7, <1>11
<1> QED BY <1>12, <1>13

\* RollbackUntilOrderFree, one block at a time.
Freed == INSTANCE Folding WITH Step <- FreeOrder

\* The fold over the blocks goes one step for each block.
LEMMA FreeOrderSteps ==
  ASSUME NEW S, NEW seq \in Seq(S), NEW base
  PROVE  \E g : Freed!LeftSteps(seq, base, g) /\ FoldLeft(FreeOrder, base, seq) = g[Len(seq)]
<1>1. Freed!FoldLeft(FreeOrder, base, seq) = FoldLeft(FreeOrder, base, seq)
  BY DEF Freed!FoldLeft, FoldLeft, Freed!MapThenFoldSet, MapThenFoldSet, Freed!Max, Max
<1>2. \E g : Freed!LeftSteps(seq, base, g) /\ Freed!FoldLeft(FreeOrder, base, seq) = g[Len(seq)]
  BY ONLY Freed!FoldLeftSteps, seq \in Seq(S)
<1> QED BY <1>1, <1>2

\* As many blocks as there are can be rolled back, and no more are.
LEMMA AllFreed ==
  ASSUME NEW b, NEW s, NEW id, NEW r, Freeing(b, r, s, id), NEW n \in Nat,
         n = Len(r.bcs.chains[MatchChain])
  PROVE  Freeing(b, FoldLeft(FreeOrder, r, [i \in 1 .. n |-> [chain |-> s, id |-> id]]), s, id)
<1> DEFINE order == [chain |-> s, id |-> id]
           seq == [i \in 1 .. n |-> order]
           Good(q, k) == /\ Freeing(b, q, s, id)
                         /\ ~q.bcs.panicked /\ q.count # 0 =>
                              Len(q.bcs.chains[MatchChain]) = n - k
<1>1. seq \in Seq({order}) /\ Len(seq) = n
  OBVIOUS
<1>2. PICK g : Freed!LeftSteps(seq, r, g) /\ FoldLeft(FreeOrder, r, seq) = g[Len(seq)]
  BY <1>1, FreeOrderSteps
<1> DEFINE N == {k \in 0 .. n : Good(g[k], k)}
<1>3. g[0] = r /\ \A k \in 1 .. n : g[k] = FreeOrder(g[k - 1], order)
  BY <1>1, <1>2 DEF Freed!LeftSteps
<1> HIDE DEF order
<1>4. 0 \in N
  <2>1. Good(r, 0)
    OBVIOUS
  <2> HIDE DEF Good
  <2> QED BY <1>3, <2>1
<1>5. ASSUME NEW k \in 1 .. n, k - 1 \in N
      PROVE  k \in N
  <2> DEFINE q == g[k - 1]  q2 == g[k]
  <2>1. Good(q, k - 1) /\ q2 = FreeOrder(q, order) /\ k \in 0 .. n
    <3> HIDE DEF Good
    <3>1. Good(q, k - 1)
      BY <1>5
    <3> QED BY <1>3, <3>1
  <2> HIDE DEF q, q2
  <2>2. CASE q.bcs.panicked \/ q.count = 0
    <3>1. q2 = q
      BY <2>1, <2>2 DEF FreeOrder
    <3>2. Good(q2, k)
      BY <2>1, <2>2, <3>1
    <3> HIDE DEF Good
    <3> QED BY <2>1, <3>2 DEF q2
  <2>3. CASE ~q.bcs.panicked /\ q.count # 0
    <3>1. Freeing(b, q, s, id) /\ Len(q.bcs.chains[MatchChain]) = n - (k - 1)
      BY <2>1, <2>3
    <3>2. Len(q.bcs.chains[MatchChain]) # 0 /\ (n - (k - 1)) - 1 = n - k
      BY <3>1
    <3>3. /\ Freeing(b, q2, s, id)
          /\ Len(q2.bcs.chains[MatchChain]) = Len(q.bcs.chains[MatchChain]) - 1
      <4> DEFINE c == q.bcs
      <4>1. /\ c = q.bcs /\ ~c.panicked /\ Len(c.chains[MatchChain]) # 0 /\ q.count # 0
            /\ q2 = FreeOrder(q, order) /\ order.chain = s /\ order.id = id
            /\ Freeing(b, q, s, id)
        BY <2>1, <2>3, <3>1, <3>2 DEF order
      <4> HIDE DEF c
      <4>2. /\ Freeing(b, q2, s, id)
            /\ Len(q2.bcs.chains[MatchChain]) = Len(c.chains[MatchChain]) - 1
        BY ONLY <4>1, FreeOrderStep
      <4> QED BY <4>2 DEF c
    <3>4. Good(q2, k)
      BY <3>1, <3>2, <3>3
    <3> HIDE DEF Good
    <3> QED BY <2>1, <3>4 DEF q2
  <2> QED BY <2>2, <2>3
<1>6. n \in N
  <2> HIDE DEF N
  <2> QED BY <1>4, <1>5, Adding!InductUpTo
<1>7. Freeing(b, g[n], s, id)
  BY <1>6
<1> QED BY <1>1, <1>2, <1>7 DEF order

\* An order of a running node is freed: no match in force is left on it, or the code
\* panics.
LEMMA OrderFreed ==
  ASSUME NEW b, Stocked(b), ~b.panicked, ~b.recovering, NEW s \in Symbols, NEW id \in OrderIDs,
         Sound(b, Len(b.chains[MatchChain]))
  PROVE  LET b2 == RollbackUntilOrderFree(b, s, id)
         IN /\ Stocked(b2) /\ ~b2.recovering /\ Outlives(b, b2)
            /\ b.mempoolUncommitted[MatchChain] = <<>> =>
                 b2.mempoolUncommitted[MatchChain] = <<>>
            /\ ~b2.panicked => /\ Sound(b2, Len(b2.chains[MatchChain]))
                               /\ Exists(b2.cs, s)
                               /\ b2.cs.tokenStates[s].orderUpdatesCount[id] = 0
<1> DEFINE b2 == RollbackUntilOrderFree(b, s, id)
           blocks == b.chains[MatchChain]
           n == Len(blocks)
           list == b.mempoolUncommitted[MatchChain]
           ms == MatchesUpTo(blocks, n)
           c == Cascading(b)
           d == ForgetMatches(c)
           r == [bcs |-> d,
                 count |-> Updates(b, s, id) - UpdatesOn(list, s, id)]
           seq == [i \in DOMAIN blocks |-> [chain |-> s, id |-> id]]
           freed == FoldLeft(FreeOrder, r, seq)
<1>0. 0 # None
  BY NoneAssumption
<1>1. Outlives(b, b)
  BY LosesNothing, OutlivesSelf
<1>2. CASE Updates(b, s, id) = 0
  <2>1. b2 = b
    BY <1>2 DEF RollbackUntilOrderFree
  <2>2. Exists(b.cs, s) /\ b.cs.tokenStates[s].orderUpdatesCount[id] = 0
    BY <1>0, <1>2 DEF Updates
  <2> QED BY <1>1, <2>1, <2>2
<1>3. CASE Updates(b, s, id) = None
  <2>1. b2 = Panic(b)
    BY <1>0, <1>3 DEF RollbackUntilOrderFree
  <2>2. b.books \in Books /\ Loses(b.books, b.books)
    BY LosesNothing DEF Stocked, Blockchains
  <2> HIDE DEF b2
  <2>3. Stocked(b2) /\ SameButBooks(b, b2) /\ b2.panicked
    BY <2>1, <2>2, StockedButBooks
  <2>4. /\ Outlives(b, b2) /\ ~b2.recovering
        /\ b2.mempoolUncommitted = b.mempoolUncommitted
    BY <2>3, OutlivesSelf DEF SameButBooks
  <2> QED BY <2>3, <2>4 DEF b2
<1>4. CASE Updates(b, s, id) # 0 /\ Updates(b, s, id) # None
  <2>1. /\ blocks \in Seq(Seq(TxOn(MatchChain))) /\ n \in Nat /\ DOMAIN blocks = 1 .. n
        /\ list \in Seq(TxOn(MatchChain))
    BY ChainKinds DEF Stocked
  <2>2. /\ Exists(b.cs, s) /\ b.cs.tokenStates[s].orderUpdatesCount[id] # None
        /\ Updates(b, s, id) = b.cs.tokenStates[s].orderUpdatesCount[id]
    BY <1>4 DEF Updates
  <2>3. /\ Orderly(ms, list) /\ Tallied(b.cs, ms \cup MatchesOf(list))
    BY DEF Sound
  <2> HIDE DEF b2, n, blocks, list, ms
  <2>4. Updates(b, s, id) = OnOrder(ms \cup MatchesOf(list), s, id)
        /\ IsFiniteSet(ms \cup MatchesOf(list))
    BY <2>2, <2>3 DEF Tallied, CountedIn, KnownIn, OnOrder
  <2>5. Updates(b, s, id) - UpdatesOn(list, s, id) = OnOrder(ms, s, id)
    BY <2>1, <2>3, <2>4, OnOrderWithout
  <2>6. /\ Stocked(c) /\ SameButBooks(b, c) /\ c.panicked = b.panicked
        /\ Outlives(b, c) /\ Sound(c, n)
    BY CascadingStocked DEF n, blocks
  <2> HIDE DEF c
  <2>7. ~c.recovering /\ c.chains[MatchChain] = blocks /\ ~c.panicked
    BY <2>6 DEF SameButBooks, blocks
  <2>8. /\ Stocked(d) /\ ~d.recovering /\ d.mempoolUncommitted[MatchChain] = <<>>
        /\ d.chains[MatchChain] = blocks
        /\ ~d.panicked => Sound(d, n)
        /\ Outlives(c, d)
    <3>1. d \in {ForgetMatches(c), ForgetUncommitted(c, MatchChain)}
      OBVIOUS
    <3>2. n = Len(c.chains[MatchChain])
      BY <2>7 DEF n
    <3> HIDE DEF d
    <3> QED BY <2>6, <2>7, <3>1, <3>2, MatchesForgotten
  <2> HIDE DEF d
  <2>9. Outlives(b, d)
    BY <2>6, <2>8, OutlivesMore
  <2>10. r.bcs = d /\ r.count = OnOrder(ms, s, id)
    BY <2>5
  <2> HIDE DEF r
  <2>11. Freeing(b, r, s, id) /\ n = Len(r.bcs.chains[MatchChain])
    BY <2>8, <2>9, <2>10 DEF Freeing, n, ms
  <2>12. Freeing(b, freed, s, id)
    <3>1. Freeing(b, FoldLeft(FreeOrder, r, [i \in 1 .. n |-> [chain |-> s, id |-> id]]), s, id)
      BY <2>1, <2>11, AllFreed
    <3> QED BY <2>1, <3>1
  <2>13. b2 = IF freed.count # 0 \/ ~Exists(freed.bcs.cs, s) THEN Panic(freed.bcs)
              ELSE freed.bcs
    BY <1>4 DEF RollbackUntilOrderFree, b2, r, d, c, list, blocks
  <2> HIDE DEF freed
  <2> DEFINE f == freed.bcs
  <2>14. /\ Stocked(f) /\ ~f.recovering /\ Outlives(b, f)
         /\ f.mempoolUncommitted[MatchChain] = <<>>
         /\ ~f.panicked => /\ Sound(f, Len(f.chains[MatchChain]))
                           /\ freed.count = OnOrder(MatchesUpTo(f.chains[MatchChain],
                                                        Len(f.chains[MatchChain])), s, id)
    BY <2>12 DEF Freeing
  <2> HIDE DEF f
  <2>15. CASE freed.count # 0 \/ ~Exists(f.cs, s)
    <3>1. b2 = Panic(f)
      BY <2>13, <2>15 DEF f
    <3>2. f.books \in Books /\ Loses(f.books, f.books)
      BY <2>14, LosesNothing DEF Stocked, Blockchains
    <3>3. Stocked(b2) /\ SameButBooks(f, b2) /\ b2.panicked
      BY <2>14, <3>1, <3>2, StockedButBooks
    <3>4. /\ Outlives(f, b2) /\ ~b2.recovering
          /\ b2.mempoolUncommitted[MatchChain] = <<>>
      BY <2>14, <3>3, OutlivesSelf DEF SameButBooks
    <3>5. Outlives(b, b2)
      BY <2>14, <3>4, OutlivesMore
    <3> QED BY <3>3, <3>4, <3>5 DEF b2
  <2>16. CASE freed.count = 0 /\ Exists(f.cs, s)
    <3>1. b2 = f
      BY <2>13, <2>16 DEF f
    <3> SUFFICES ASSUME ~f.panicked
                 PROVE  f.cs.tokenStates[s].orderUpdatesCount[id] = 0
      BY <2>14, <2>16, <3>1 DEF b2
    <3> DEFINE now == MatchesUpTo(f.chains[MatchChain], Len(f.chains[MatchChain]))
    <3>2. f.cs.tokenStates[s].orderUpdatesCount[id] # None
      BY <2>2, <2>14, <2>16 DEF Outlives, Stays
    <3>3. MatchesOf(<<>>) = {}
      BY DEF MatchesOf, MatchesIn
    <3>4. Tallied(f.cs, now \cup MatchesOf(<<>>))
      BY <2>14 DEF Sound
    <3>5. now \cup MatchesOf(<<>>) = now
      BY <3>3
    <3>6. Tallied(f.cs, now)
      BY <3>4, <3>5
    <3>7. f.cs.tokenStates[s].orderUpdatesCount[id] = OnOrder(now, s, id)
      <4> HIDE DEF now
      <4> QED BY <2>16, <3>2, <3>6 DEF Tallied, CountedIn, OnOrder
    <3> QED BY <2>14, <2>16, <3>7
  <2> QED BY <2>15, <2>16 DEF f
<1> QED BY <1>2, <1>3, <1>4

-----------------------------------------------------------------------------
\* Undoing transactions of a token's chain.

\* What a change of the ledger alone leaves.
SameButLedger(b, b2) ==
  /\ b2.chains = b.chains /\ b2.height = b.height /\ b2.books = b.books
  /\ b2.mempoolUncommitted = b.mempoolUncommitted
  /\ b2.recovering = b.recovering /\ b2.panicked = b.panicked
  /\ \A t \in Symbols : Exists(b2.cs, t) <=> Exists(b.cs, t)

\* A ledger on which the same matches are in force takes the place of another.
LEMMA LedgerReplaced ==
  ASSUME NEW b, Stocked(b), NEW n, Sound(b, n), NEW ledger,
         \A ms : Tallied(b.cs, ms) => Tallied(ledger, ms),
         \A t \in Symbols : Exists(ledger, t) <=> Exists(b.cs, t)
  PROVE  LET b2 == [b EXCEPT !.cs = ledger]
         IN Stocked(b2) /\ Sound(b2, n) /\ SameButLedger(b, b2) /\ b2.cs = ledger
<1> DEFINE b2 == [b EXCEPT !.cs = ledger]
           ms == MatchesUpTo(b.chains[MatchChain], n)
                   \cup MatchesOf(b.mempoolUncommitted[MatchChain])
<1>1. Tallied(b.cs, ms)
  BY DEF Sound
<1>2. Tallied(ledger, ms)
  <2> HIDE DEF ms
  <2> QED BY <1>1
<1>3. ledger \in State /\ b \in Blockchains
  BY <1>2 DEF Tallied, Stocked
<1>4. /\ b2 \in Blockchains /\ b2.cs = ledger
      /\ b2.chains = b.chains /\ b2.height = b.height /\ b2.books = b.books
      /\ b2.mempoolUncommitted = b.mempoolUncommitted
      /\ b2.recovering = b.recovering /\ b2.panicked = b.panicked
  BY <1>3 DEF Blockchains
<1> HIDE DEF b2
<1>5. Stocked(b2) /\ SameButLedger(b, b2)
  BY <1>4 DEF Stocked, SameButLedger
<1>6. Sound(b2, n)
  <2>1. Peopled(ledger, b.chains[MatchChain], b.mempoolUncommitted[MatchChain], n)
    BY StillPeopled DEF Sound
  <2> QED BY <1>2, <1>4, <2>1 DEF Sound
<1> QED BY <1>4, <1>5, <1>6 DEF b2

\* A transaction of a token's chain is undone on the ledger, an order only without
\* updates.
LEMMA UndoneOnLedger ==
  ASSUME NEW b, Stocked(b), NEW n, Sound(b, n), NEW s \in Symbols, Exists(b.cs, s),
         NEW tx \in TxOn(s),
         tx.type = "ORDER" => b.cs.tokenStates[s].orderUpdatesCount[tx.order.ID] = 0
  PROVE  LET b2 == [b EXCEPT !.cs = Undone(b.cs, tx)]
         IN Stocked(b2) /\ Sound(b2, n) /\ SameButLedger(b, b2)
<1> DEFINE ledger == Undone(b.cs, tx)
           us == TokenTxUndone(b.cs.tokenStates[s], tx)
<1>1. /\ tx \in Transaction /\ tx.chain = s /\ b.cs \in State
      /\ tx.type \in {"ORDER", "CLAIM_FUNDS", "TRANSFER", "FREEZE"}
  BY OnTokenChain DEF Stocked, Blockchains
<1>2. us \in TokenState /\ us # None
  <2>1. b.cs.tokenStates[s] \in TokenState
    BY <1>1 DEF State, Exists
  <2>2. us \in TokenState
    BY <1>1, <2>1, TokenTxUndoneType
  <2> QED BY <2>2, NoneAssumption
<1>3. ledger = [b.cs EXCEPT !.tokenStates[s] = us]
  BY <1>1 DEF Undone, State
<1> HIDE DEF us
<1>4. \A t \in Symbols : Exists(ledger, t) <=> Exists(b.cs, t)
  BY <1>1, <1>2, <1>3 DEF Exists, State
<1>5. \A ms : Tallied(b.cs, ms) => Tallied(ledger, ms)
  <2> SUFFICES ASSUME NEW ms, Tallied(b.cs, ms) PROVE Tallied(ledger, ms)
    OBVIOUS
  <2> QED BY <1>1, TokenTxUndoneKeepsTally
<1> HIDE DEF ledger
<1>6. LET b2 == [b EXCEPT !.cs = ledger]
      IN Stocked(b2) /\ Sound(b2, n) /\ SameButLedger(b, b2)
  BY <1>4, <1>5, LedgerReplaced
<1> QED BY <1>6 DEF ledger

\* The chains of a running node, or of one that has n blocks of its match chain
\* applied again.
Whole(b, n) ==
  /\ Stocked(b)
  /\ b.recovering => b.mempoolUncommitted[MatchChain] = <<>>
  /\ ~b.panicked => Sound(b, IF b.recovering THEN n ELSE Len(b.chains[MatchChain]))

\* The token s is still there, with its blocks, and no match has come to wait.  In a
\* recovery nothing else goes.
KeepsToken(b, b2, s) ==
  /\ Loses(b.books, b2.books)
  /\ ~b.recovering => Keeps(b, b2)
  /\ b2.recovering = b.recovering
  /\ b.panicked => b2.panicked
  /\ b.mempoolUncommitted[MatchChain] = <<>> => b2.mempoolUncommitted[MatchChain] = <<>>
  /\ ~b2.panicked => /\ Exists(b2.cs, s)
                     /\ b2.chains[s] = b.chains[s] /\ b2.height[s] = b.height[s]
  /\ b.recovering => /\ b2.chains = b.chains
                     /\ b2.mempoolUncommitted = b.mempoolUncommitted
                     /\ \A t \in Symbols : Exists(b2.cs, t) <=> Exists(b.cs, t)

\* The order of a transaction has no match of the n blocks.
Unmatched(b, n, s, tx) ==
  tx.type = "ORDER" =>
    /\ MatchesBuying(MatchesUpTo(b.chains[MatchChain], n), s, tx.order.ID) = {}
    /\ MatchesSelling(MatchesUpTo(b.chains[MatchChain], n), s, tx.order.ID) = {}

\* An order is freed, in a recovery because no match is in force on it.
LEMMA OrderFreedOrFree ==
  ASSUME NEW b, NEW n, Whole(b, n), ~b.panicked, NEW s \in Symbols, Exists(b.cs, s),
         NEW tx \in TxOn(s), tx.type = "ORDER", b.recovering => Unmatched(b, n, s, tx)
  PROVE  LET b2 == RollbackUntilOrderFree(b, s, tx.order.ID)
         IN /\ Whole(b2, n) /\ KeepsToken(b, b2, s)
            /\ ~b2.panicked => b2.cs.tokenStates[s].orderUpdatesCount[tx.order.ID] = 0
<1> DEFINE id == tx.order.ID
           b2 == RollbackUntilOrderFree(b, s, id)
<1>1. id \in OrderIDs /\ 0 # None
  BY OnTokenChain, NoneAssumption
<1>2. CASE ~b.recovering
  <2> HIDE DEF b2, id
  <2>1. Stocked(b) /\ Sound(b, Len(b.chains[MatchChain]))
    BY <1>2 DEF Whole
  <2>2. /\ Stocked(b2) /\ ~b2.recovering /\ Outlives(b, b2)
        /\ b.mempoolUncommitted[MatchChain] = <<>> =>
             b2.mempoolUncommitted[MatchChain] = <<>>
        /\ ~b2.panicked => /\ Sound(b2, Len(b2.chains[MatchChain]))
                           /\ Exists(b2.cs, s)
                           /\ b2.cs.tokenStates[s].orderUpdatesCount[id] = 0
    BY <1>1, <1>2, <2>1, OrderFreed DEF b2
  <2>3. Whole(b2, n)
    BY <2>2 DEF Whole
  <2>4. ~b2.panicked => b2.chains[s] = b.chains[s] /\ b2.height[s] = b.height[s]
    BY <2>2 DEF Outlives, Stays
  <2>5. b2.recovering = b.recovering
    <3>1. b \in Blockchains /\ b2 \in Blockchains
      BY <2>1, <2>2 DEF Stocked
    <3> QED BY <1>2, <2>2, <3>1 DEF Blockchains
  <2>6. KeepsToken(b, b2, s)
    BY <1>2, <2>2, <2>4, <2>5 DEF KeepsToken, Outlives
  <2> QED BY <2>2, <2>3, <2>6 DEF b2, id
<1>3. CASE b.recovering
  <2> DEFINE ms == MatchesUpTo(b.chains[MatchChain], n)
             count == b.cs.tokenStates[s].orderUpdatesCount[id]
  <2>1. MatchesOf(<<>>) = {}
    BY DEF MatchesOf, MatchesIn
  <2>2. Tallied(b.cs, ms \cup MatchesOf(<<>>))
    BY <1>3 DEF Whole, Sound
  <2>3. ms \cup MatchesOf(<<>>) = ms
    BY <2>1
  <2>4. Tallied(b.cs, ms)
    BY <2>2, <2>3
  <2>5. MatchesBuying(ms, s, id) = {} /\ MatchesSelling(ms, s, id) = {}
    BY <1>3 DEF Unmatched
  <2> HIDE DEF ms
  <2>6. count # None => count = Cardinality({}) + Cardinality({})
    <3>1. count # None => count = Cardinality(MatchesBuying(ms, s, id))
                                    + Cardinality(MatchesSelling(ms, s, id))
      <4> HIDE DEF id
      <4> QED BY <1>1, <2>4 DEF Tallied, CountedIn
    <3> QED BY <2>5, <3>1
  <2>7. count = None \/ count = 0
    BY <2>6, FS_EmptySet
  <2>8. Updates(b, s, id) = count
    BY DEF Updates
  <2>9. CASE count = 0
    <3>1. b2 = b
      BY <2>8, <2>9 DEF RollbackUntilOrderFree
    <3>2. Loses(b.books, b.books)
      BY LosesNothing
    <3> QED BY <1>3, <2>9, <3>1, <3>2 DEF KeepsToken
  <2>10. CASE count = None
    <3>1. b2 = Panic(b)
      BY <1>1, <2>8, <2>10 DEF RollbackUntilOrderFree
    <3>2. Stocked(b) /\ b.books \in Books /\ Loses(b.books, b.books)
      BY LosesNothing DEF Whole, Stocked, Blockchains
    <3> HIDE DEF b2
    <3>3. Stocked(b2) /\ SameButBooks(b, b2) /\ b2.panicked
      BY <3>1, <3>2, StockedButBooks
    <3>4. Whole(b2, n) /\ KeepsToken(b, b2, s)
      BY <1>3, <3>3 DEF Whole, KeepsToken, SameButBooks
    <3> QED BY <3>3, <3>4 DEF b2
  <2> QED BY <2>7, <2>9, <2>10
<1> QED BY <1>2, <1>3

\* A transaction of a token's chain is undone, in a block or not.
LEMMA TokenTxRetracted ==
  ASSUME NEW b, NEW n, Whole(b, n), NEW s \in Symbols, ~b.panicked => Exists(b.cs, s),
         NEW tx \in TxOn(s), b.recovering => Unmatched(b, n, s, tx),
         NEW b2 \in {UndoTx(tx, b), UndoMinedTx(tx, b)}
  PROVE  Whole(b2, n) /\ KeepsToken(b, b2, s)
<1> DEFINE c == UndoTx(tx, b)
<1>1. Whole(c, n) /\ KeepsToken(b, c, s)
  <2>1. /\ tx \in Transaction /\ tx.chain = s /\ s # MatchChain
        /\ tx.type \in {"ORDER", "CLAIM_FUNDS", "TRANSFER", "FREEZE"}
    BY OnTokenChain, ChainKinds
  <2>2. CASE b.panicked
    <3>1. c = b
      BY <2>2 DEF UndoTx
    <3>2. Loses(b.books, b.books) /\ Keeps(b, b)
      BY LosesNothing, SameChainsKeep
    <3> QED BY <2>2, <3>1, <3>2 DEF KeepsToken
  <2>3. ASSUME NEW f, Whole(f, n), KeepsToken(b, f, s), ~b.panicked, ~f.panicked,
               tx.type = "ORDER" => f.cs.tokenStates[s].orderUpdatesCount[tx.order.ID] = 0
        PROVE  LET u == [f EXCEPT !.cs = Undone(f.cs, tx)]
               IN Whole(u, n) /\ KeepsToken(b, u, s)
    <3> DEFINE u == [f EXCEPT !.cs = Undone(f.cs, tx)]
               m == IF f.recovering THEN n ELSE Len(f.chains[MatchChain])
    <3>1. Stocked(f) /\ Sound(f, m) /\ Exists(f.cs, s)
      BY <2>3 DEF Whole, KeepsToken
    <3> HIDE DEF u
    <3>2. Stocked(u) /\ Sound(u, m) /\ SameButLedger(f, u)
      <4> HIDE DEF m
      <4> QED BY <2>3, <3>1, UndoneOnLedger DEF u
    <3>3. Whole(u, n)
      BY <2>3, <3>2 DEF Whole, SameButLedger
    <3>5. Keeps(f, u)
      BY <3>2, SameChainsKeep DEF SameButLedger
    <3>6. ~b.recovering => Keeps(b, u)
      BY <2>3, <3>5 DEF KeepsToken, Keeps
    <3>4. KeepsToken(b, u, s)
      BY <2>3, <3>2, <3>6 DEF KeepsToken, SameButLedger
    <3> QED BY <3>3, <3>4 DEF u
  <2>4. CASE ~b.panicked /\ tx.type # "ORDER"
    <3>1. c = [b EXCEPT !.cs = Undone(b.cs, tx)]
      BY <2>1, <2>4 DEF UndoTx, Whole, Stocked, Blockchains
    <3>2. KeepsToken(b, b, s)
      BY <2>4, LosesNothing, SameChainsKeep DEF KeepsToken
    <3> QED BY <2>3, <2>4, <3>1, <3>2
  <2>5. CASE ~b.panicked /\ tx.type = "ORDER"
    <3> DEFINE f == RollbackUntilOrderFree(b, s, tx.order.ID)
    <3>1. /\ Whole(f, n) /\ KeepsToken(b, f, s)
          /\ ~f.panicked => f.cs.tokenStates[s].orderUpdatesCount[tx.order.ID] = 0
      BY <2>5, OrderFreedOrFree
    <3>2. c = IF f.panicked THEN f ELSE [f EXCEPT !.cs = Undone(f.cs, tx)]
      BY <2>1, <2>5, <3>1 DEF UndoTx, Whole, Stocked, Blockchains
    <3> HIDE DEF f, c
    <3>3. CASE f.panicked
      <4>1. c = f
        BY <3>2, <3>3
      <4> QED BY <3>1, <4>1
    <3>4. CASE ~f.panicked
      <4>1. c = [f EXCEPT !.cs = Undone(f.cs, tx)]
        BY <3>2, <3>4
      <4> QED BY <2>3, <2>5, <3>1, <3>4, <4>1
    <3> QED BY <3>3, <3>4
  <2> QED BY <2>2, <2>4, <2>5
<1>2. CASE b2 = c
  BY <1>1, <1>2
<1>3. CASE b2 = OutOfBooks(c, tx, b)
  <2> HIDE DEF c
  <2>1. Stocked(b) /\ Stocked(c) /\ tx.type # "MATCH" /\ s \in Chains
    BY <1>1, OnTokenChain, ChainKinds DEF Whole
  <2>2. Stocked(b2) /\ SameButBooks(c, b2) /\ b2.panicked = c.panicked
    BY <1>3, <2>1, TxUnbooked
  <2>3. Whole(b2, n)
    BY <1>1, <2>2 DEF Whole, Sound, SameButBooks
  <2>4. Loses(b.books, b2.books)
    BY <1>1, <2>2, LosesMore DEF KeepsToken, SameButBooks
  <2>6. Keeps(c, b2)
    BY <2>2, SameChainsKeep DEF SameButBooks
  <2>7. ~b.recovering => Keeps(b, b2)
    BY <1>1, <2>6 DEF KeepsToken, Keeps
  <2>5. KeepsToken(b, b2, s)
    BY <1>1, <2>2, <2>4, <2>7 DEF KeepsToken, SameButBooks
  <2> QED BY <2>3, <2>5
<1> QED BY <1>2, <1>3 DEF UndoMinedTx

\* Transactions of a token's chain are undone, the last one first.
LEMMA TokenTxsRetracted ==
  ASSUME NEW b, NEW n, Whole(b, n), NEW s \in Symbols, ~b.panicked => Exists(b.cs, s),
         NEW txs \in Seq(TxOn(s)),
         b.recovering => \A k \in 1 .. Len(txs) : Unmatched(b, n, s, txs[k]),
         NEW b2 \in {UndoTransactions(b, txs), UndoMinedTransactions(b, txs)}
  PROVE  Whole(b2, n) /\ KeepsToken(b, b2, s)
<1> DEFINE m == Len(txs)
           Good(c) == Whole(c, n) /\ KeepsToken(b, c, s)
<1>1. m \in Nat /\ \A k \in 1 .. m : txs[k] \in TxOn(s) /\ k - 1 \in 0 .. m /\ k \in 0 .. m
  OBVIOUS
<1>2. PICK g : /\ g[m] = b /\ b2 = g[0]
               /\ \A k \in 1 .. m : g[k - 1] \in {UndoTx(txs[k], g[k]), UndoMinedTx(txs[k], g[k])}
  <2>1. CASE b2 = UndoTransactions(b, txs)
    BY <2>1, UndoTxsSteps DEF UndoingTxs!RightSteps
  <2>2. CASE b2 = UndoMinedTransactions(b, txs)
    BY <2>2, UndoMinedTxsSteps DEF UndoingMinedTxs!RightSteps
  <2> QED BY <2>1, <2>2
<1> DEFINE N == {k \in 0 .. m : Good(g[k])}
<1>3. m \in N
  <2>1. KeepsToken(b, b, s)
    BY LosesNothing, SameChainsKeep DEF KeepsToken
  <2> QED BY <1>1, <1>2, <2>1
<1>4. ASSUME NEW k \in 1 .. m, k \in N
      PROVE  k - 1 \in N
  <2> DEFINE c == g[k]  d == g[k - 1]  tx == txs[k]
  <2>1. /\ Whole(c, n) /\ KeepsToken(b, c, s) /\ tx \in TxOn(s)
        /\ d \in {UndoTx(tx, c), UndoMinedTx(tx, c)}
    BY <1>1, <1>2, <1>4
  <2>2. ~c.panicked => Exists(c.cs, s)
    BY <2>1 DEF KeepsToken
  <2>3. c.recovering => Unmatched(c, n, s, tx)
    BY <2>1 DEF KeepsToken, Unmatched
  <2> HIDE DEF c, d, tx
  <2>4. Whole(d, n) /\ KeepsToken(c, d, s)
    BY ONLY <2>1, <2>2, <2>3, s \in Symbols, TokenTxRetracted
  <2>5. Loses(b.books, d.books)
    BY <2>1, <2>4, LosesMore DEF KeepsToken
  <2>7. ~b.recovering => Keeps(b, d)
    BY <2>1, <2>4 DEF KeepsToken, Keeps
  <2>6. KeepsToken(b, d, s)
    BY <2>1, <2>4, <2>5, <2>7 DEF KeepsToken
  <2> QED BY <1>1, <2>4, <2>6 DEF d
<1>5. 0 \in N
  <2> HIDE DEF N, m
  <2> QED BY <1>1, <1>3, <1>4, Adding!InductDownTo
<1> QED BY <1>2, <1>5

-----------------------------------------------------------------------------
\* Rolling back blocks of a running node.

\* The chains of a running node.
Fit(b) ==
  /\ Stocked(b) /\ ~b.recovering
  /\ ~b.panicked => Sound(b, Len(b.chains[MatchChain]))

\* They are whole whatever number of blocks is named.
LEMMA FitIsWhole ==
  ASSUME NEW b, NEW n
  PROVE  Fit(b) <=> Whole(b, n) /\ ~b.recovering
BY DEF Fit, Whole

\* The list of a chain is forgotten: the chain has its blocks yet.
LEMMA UncommittedForgotten ==
  ASSUME NEW b, Fit(b), ~b.panicked, NEW s \in Chains, HasChain(b, s)
  PROVE  LET b2 == ForgetUncommitted(b, s)
         IN /\ Fit(b2) /\ Loses(b.books, b2.books) /\ Keeps(b, b2)
            /\ ~b2.panicked => /\ HasChain(b2, s) /\ b2.mempoolUncommitted[s] = <<>>
                               /\ b2.height[s] = b.height[s]
<1> DEFINE b2 == ForgetUncommitted(b, s)
           list == b.mempoolUncommitted[s]
           c == UndoTransactions(b, list)
<1>1. CASE s = MatchChain
  <2> DEFINE n == Len(b.chains[MatchChain])
  <2>1. Stocked(b) /\ Sound(b, n) /\ ~b.recovering
    BY DEF Fit
  <2>2. b2 \in {ForgetMatches(b), ForgetUncommitted(b, MatchChain)}
    BY <1>1
  <2> HIDE DEF b2, n
  <2>3. /\ Stocked(b2) /\ b2.recovering = b.recovering
        /\ b2.mempoolUncommitted[MatchChain] = <<>>
        /\ b2.chains[MatchChain] = b.chains[MatchChain]
        /\ ~b2.panicked => Sound(b2, n)
        /\ Loses(b.books, b2.books) /\ Keeps(b, b2)
    <3>1. n = Len(b.chains[MatchChain])
      BY DEF n
    <3> QED BY <2>1, <2>2, <3>1, MatchesForgotten DEF Outlives
  <2>4. b2.height[MatchChain] = b.height[MatchChain]
    BY <2>1, <2>3 DEF Stocked
  <2> QED BY <1>1, <2>1, <2>3, <2>4 DEF Fit, HasChain, b2, n
<1>2. CASE s # MatchChain
  <2>1. /\ s \in Symbols /\ Exists(b.cs, s) /\ Whole(b, 0) /\ ~b.recovering
        /\ list \in Seq(TxOn(s))
    BY <1>2, ChainKinds, FitIsWhole DEF HasChain, Fit, Stocked
  <2> HIDE DEF list
  <2>2. Whole(c, 0) /\ KeepsToken(b, c, s)
    BY <2>1, TokenTxsRetracted
  <2> HIDE DEF c
  <2>3. Fit(c) /\ c \in Blockchains
    BY <2>1, <2>2, FitIsWhole DEF KeepsToken, Fit, Stocked
  <2>4. b2 = [c EXCEPT !.mempoolUncommitted = [c.mempoolUncommitted EXCEPT ![s] = <<>>]]
    BY <2>3 DEF ForgetUncommitted, Blockchains, c, list
  <2>5. /\ c.mempoolUncommitted \in [Chains -> Seq(Transaction)]
        /\ [c.mempoolUncommitted EXCEPT ![s] = <<>>] \in [Chains -> Seq(Transaction)]
    <3>1. <<>> \in Seq(Transaction)
      OBVIOUS
    <3> QED BY <2>3, <3>1 DEF Blockchains
  <2> HIDE DEF b2
  <2>6. /\ b2 \in Blockchains /\ b2.cs = c.cs /\ b2.chains = c.chains /\ b2.height = c.height
        /\ b2.recovering = c.recovering /\ b2.panicked = c.panicked /\ b2.books = c.books
        /\ b2.mempoolUncommitted[s] = <<>>
        /\ \A t \in Chains : t # s => b2.mempoolUncommitted[t] = c.mempoolUncommitted[t]
    BY <2>3, <2>4, <2>5 DEF Blockchains
  <2>7. Stocked(b2)
    <3>1. <<>> \in Seq(TxOn(s))
      OBVIOUS
    <3> QED BY <2>3, <2>6, <3>1 DEF Stocked, Fit
  <2>8. Fit(b2)
    BY <1>2, <2>3, <2>6, <2>7, ChainKinds DEF Fit, Sound
  <2>9. Keeps(c, b2)
    BY <2>6, SameChainsKeep
  <2>10. Keeps(b, b2)
    BY <2>1, <2>2, <2>9 DEF KeepsToken, Keeps
  <2> QED BY <1>2, <2>2, <2>6, <2>8, <2>10 DEF KeepsToken, HasChain, b2
<1> QED BY <1>1, <1>2

\* The last block of a token's chain is rolled back: what its height gave back is
\* taken again first.
LEMMA TokenBlockRolledBack ==
  ASSUME NEW b, Fit(b), ~b.panicked, NEW s \in Symbols, Exists(b.cs, s), b.height[s] # 0
  PROVE  LET b2 == RollbackTokenBlock(b, s)
         IN /\ Fit(b2) /\ Loses(b.books, b2.books)
            /\ b.height[s] # 1 => Keeps(b, b2)
            /\ ~b2.panicked => Exists(b2.cs, s) /\ b2.height[s] = b.height[s] - 1
<1> DEFINE ts == b.cs.tokenStates[s]
           us == RollbackUnfreezesForBlock(ts, b.height[s])
           ledger == [b.cs EXCEPT !.tokenStates[s] = us]
           u == [b EXCEPT !.cs = ledger]
           c == RemoveLastBlock(u, s)
           txs == Last(b.chains[s])
           b2 == UndoMinedTransactions(c, txs)
           n == Len(b.chains[MatchChain])
<1>1. /\ Stocked(b) /\ ~b.recovering /\ Sound(b, n) /\ b \in Blockchains /\ b.cs \in State
      /\ s \in Chains /\ s # MatchChain
  BY ChainKinds DEF Fit, Stocked, Blockchains
<1>2. us \in TokenState /\ us # None
  <2>1. ts \in TokenState
    BY <1>1 DEF State, Exists
  <2> HIDE DEF ts
  <2>2. us \in TokenState
    BY <2>1, UnfreezesType
  <2> QED BY <2>2, NoneAssumption
<1>3. \A ms : Tallied(b.cs, ms) => Tallied(ledger, ms)
  <2> SUFFICES ASSUME NEW ms, Tallied(b.cs, ms) PROVE Tallied(ledger, ms)
    OBVIOUS
  <2>1. ledger = [b.cs EXCEPT !.tokenStates[s] = RollbackUnfreezesForBlock(@, b.height[s])]
    BY <1>1 DEF State
  <2> HIDE DEF ledger
  <2> QED BY <2>1, UnfreezesKeepTally
<1>4. \A t \in Symbols : Exists(ledger, t) <=> Exists(b.cs, t)
  <2> HIDE DEF us
  <2> QED BY <1>1, <1>2 DEF Exists, State
<1>5. RollbackTokenBlock(b, s) = b2
  BY <1>1 DEF RollbackTokenBlock, Blockchains, State
<1> HIDE DEF ledger, b2
<1>6. Stocked(u) /\ Sound(u, n) /\ SameButLedger(b, u)
  BY <1>1, <1>3, <1>4, LedgerReplaced
<1> HIDE DEF u
<1>7. u.height[s] # 0 /\ u.height[s] = b.height[s] /\ u.chains[s] = b.chains[s]
  BY <1>6 DEF SameButLedger
<1>8. /\ Stocked(c) /\ c.cs = u.cs /\ c.mempoolUncommitted = u.mempoolUncommitted
      /\ c.recovering = u.recovering /\ c.panicked = u.panicked /\ c.books = u.books
      /\ c.height[s] = u.height[s] - 1
      /\ c.chains[MatchChain] = u.chains[MatchChain]
      /\ txs \in Seq(TxOn(s))
      /\ \A t \in Chains : t # s => c.chains[t] = u.chains[t]
  BY <1>1, <1>6, <1>7, LastBlockRemoved, ChainKinds
<1> HIDE DEF c, txs
<1>14. b.height[s] # 1 => Keeps(b, c)
  <2> SUFFICES ASSUME b.height[s] # 1 PROVE Keeps(b, c)
    OBVIOUS
  <2>1. c.height[s] # 0 /\ c.height[s] \in Nat /\ c.height[s] <= Len(c.chains[s])
    BY <1>1, <1>7, <1>8 DEF Stocked, Blockchains
  <2>2. c.chains[s] # <<>>
    BY <2>1
  <2>3. \A t \in Symbols : Created(c, t) => Created(b, t)
    BY <1>6, <1>8 DEF Created, SameButLedger
  <2>4. \A t \in Symbols : t # s => c.chains[t] = b.chains[t]
    BY <1>6, <1>8, ChainKinds DEF SameButLedger
  <2> QED BY <2>2, <2>3, <2>4 DEF Keeps, Kept
<1>9. Whole(c, 0) /\ ~c.recovering /\ ~c.panicked /\ Exists(c.cs, s)
  BY <1>1, <1>6, <1>8 DEF Whole, Sound, SameButLedger, n
<1>10. Whole(b2, 0) /\ KeepsToken(c, b2, s)
  BY <1>8, <1>9, TokenTxsRetracted DEF b2
<1>11. Fit(b2)
  BY <1>9, <1>10, FitIsWhole DEF KeepsToken
<1>12. ~b2.panicked => Exists(b2.cs, s) /\ b2.height[s] = b.height[s] - 1
  BY <1>7, <1>8, <1>10 DEF KeepsToken
<1>13. Loses(b.books, b2.books)
  BY <1>6, <1>8, <1>10 DEF SameButLedger, KeepsToken
<1>15. b.height[s] # 1 => Keeps(b, b2)
  BY <1>9, <1>10, <1>14 DEF KeepsToken, Keeps
<1> QED BY <1>5, <1>11, <1>12, <1>13, <1>15

\* RollbackBlocks, one block at a time.
RollingBack == INSTANCE Folding WITH Step <- RollbackBlock

\* The fold over the heights goes one step for each of them.
LEMMA RollbackSteps ==
  ASSUME NEW S, NEW seq \in Seq(S), NEW base
  PROVE  \E g : RollingBack!LeftSteps(seq, base, g)
                /\ FoldLeft(RollbackBlock, base, seq) = g[Len(seq)]
<1>1. RollingBack!FoldLeft(RollbackBlock, base, seq) = FoldLeft(RollbackBlock, base, seq)
  BY DEF RollingBack!FoldLeft, FoldLeft, RollingBack!MapThenFoldSet, MapThenFoldSet,
         RollingBack!Max, Max
<1>2. \E g : RollingBack!LeftSteps(seq, base, g)
               /\ RollingBack!FoldLeft(RollbackBlock, base, seq) = g[Len(seq)]
  BY ONLY RollingBack!FoldLeftSteps, seq \in Seq(S)
<1> QED BY <1>1, <1>2

\* The blocks above a height are rolled back, with the list of the chain forgotten.
LEMMA BlocksRolledBack ==
  ASSUME NEW b, Fit(b), NEW s \in Chains, ~b.panicked => HasChain(b, s),
         ~b.panicked => b.mempoolUncommitted[s] = <<>>,
         NEW n \in Nat, ~b.panicked => n < b.height[s]
  PROVE  LET b2 == RollbackBlocks(b, s, n)
         IN Fit(b2) /\ Loses(b.books, b2.books) /\ Keeps(b, b2)
<1> DEFINE seq == [i \in 1 .. n |-> s]
           Good(c, k) ==
             /\ Fit(c) /\ Loses(b.books, c.books) /\ Keeps(b, c)
             /\ ~c.panicked => /\ HasChain(c, s) /\ c.height[s] > n - k
                               /\ s = MatchChain => c.mempoolUncommitted[s] = <<>>
<1>1. seq \in Seq({s}) /\ Len(seq) = n /\ \A k \in 1 .. n : seq[k] = s
  OBVIOUS
<1>2. PICK g : RollingBack!LeftSteps(seq, b, g) /\ FoldLeft(RollbackBlock, b, seq) = g[Len(seq)]
  BY <1>1, RollbackSteps
<1> DEFINE N == {k \in 0 .. n : Good(g[k], k)}
<1>3. g[0] = b /\ \A k \in 1 .. n : g[k] = RollbackBlock(g[k - 1], s)
  BY <1>1, <1>2 DEF RollingBack!LeftSteps
<1>4. 0 \in N
  <2>1. Loses(b.books, b.books) /\ Keeps(b, b)
    BY LosesNothing, SameChainsKeep
  <2>2. Good(b, 0)
    BY <2>1 DEF Fit, Stocked, Blockchains
  <2> HIDE DEF Good
  <2> QED BY <1>3, <2>2
<1>5. ASSUME NEW k \in 1 .. n, k - 1 \in N
      PROVE  k \in N
  <2> DEFINE c == g[k - 1]  d == g[k]
  <2>1. Good(c, k - 1) /\ d = RollbackBlock(c, s) /\ k \in 0 .. n
    <3> HIDE DEF Good
    <3>1. Good(c, k - 1)
      BY <1>5
    <3> QED BY <1>3, <3>1
  <2> HIDE DEF c, d
  <2>2. Good(d, k)
    <3>1. CASE c.panicked
      <4>1. d = c
        BY <2>1, <3>1 DEF RollbackBlock
      <4> QED BY <2>1, <3>1, <4>1
    <3>2. CASE ~c.panicked
      <4>1. /\ Fit(c) /\ HasChain(c, s) /\ c.height[s] > n - (k - 1)
            /\ Loses(b.books, c.books) /\ Keeps(b, c)
            /\ s = MatchChain => c.mempoolUncommitted[s] = <<>>
            /\ c.height[s] \in Nat
        BY <2>1, <3>2 DEF Fit, Stocked, Blockchains
      <4>2. c.height[s] # 0 /\ c.height[s] # 1 /\ c.height[s] - 1 > n - k
        BY <4>1
      <4> HIDE DEF Good
      <4>3. CASE s = MatchChain
        <5> DEFINE m == Len(c.chains[MatchChain])
        <5>1. d = RollbackMatchBlock(c)
          BY <2>1, <3>2, <4>3 DEF RollbackBlock
        <5>2. /\ Stocked(c) /\ c.mempoolUncommitted[MatchChain] = <<>> /\ Sound(c, m)
              /\ m = c.height[MatchChain] /\ m \in Nat /\ m # 0 /\ ~c.recovering
              /\ c.chains[MatchChain] \in Seq(Seq(TxOn(MatchChain)))
          BY <3>2, <4>1, <4>2, <4>3 DEF Fit, Stocked
        <5>3. Len(Front(c.chains[MatchChain])) = m - 1
          BY <5>2, FrontOf
        <5> HIDE DEF m
        <5>4. /\ Stocked(d) /\ d.recovering = c.recovering
              /\ d.mempoolUncommitted[MatchChain] = <<>>
              /\ d.chains[MatchChain] = Front(c.chains[MatchChain])
              /\ ~d.panicked => Sound(d, m - 1)
              /\ Loses(c.books, d.books) /\ Keeps(c, d)
          BY <3>2, <5>1, <5>2, MatchBlockRolledBack DEF m, Outlives
        <5>5. d.height[MatchChain] = m - 1
          BY <5>3, <5>4 DEF Stocked
        <5>6. Fit(d) /\ HasChain(d, s)
          BY <4>3, <5>2, <5>3, <5>4 DEF Fit, HasChain
        <5>7. d.height[s] > n - k
          BY <4>2, <4>3, <5>2, <5>5
        <5>8. Loses(b.books, d.books) /\ Keeps(b, d)
          BY <4>1, <5>4, LosesMore DEF Keeps
        <5> QED BY <4>3, <5>4, <5>6, <5>7, <5>8 DEF Good
      <4>4. CASE s # MatchChain
        <5>1. d = RollbackTokenBlock(c, s)
          BY <2>1, <3>2, <4>4 DEF RollbackBlock
        <5>2. s \in Symbols /\ Exists(c.cs, s)
          BY <4>1, <4>4, ChainKinds DEF HasChain
        <5>3. Fit(d) /\ (~d.panicked => Exists(d.cs, s) /\ d.height[s] = c.height[s] - 1)
              /\ Loses(c.books, d.books) /\ Keeps(c, d)
          BY <3>2, <4>1, <4>2, <5>1, <5>2, TokenBlockRolledBack
        <5>4. Loses(b.books, d.books) /\ Keeps(b, d)
          BY <4>1, <5>3, LosesMore DEF Keeps
        <5> QED BY <4>2, <4>4, <5>3, <5>4 DEF Good, HasChain
      <4> QED BY <4>3, <4>4
    <3> QED BY <3>1, <3>2
  <2> HIDE DEF Good
  <2> QED BY <2>1, <2>2 DEF d
<1>6. n \in N
  <2> HIDE DEF N
  <2> QED BY <1>4, <1>5, Adding!InductUpTo
<1>7. Fit(g[n]) /\ Loses(b.books, g[n].books) /\ Keeps(b, g[n])
  BY <1>6
<1> QED BY <1>1, <1>2, <1>7 DEF RollbackBlocks

-----------------------------------------------------------------------------
\* Adding blocks to a running node.

\* A block is put on its chain.
LEMMA BlockAppended ==
  ASSUME NEW b, Stocked(b), NEW s \in Chains, NEW txs \in Seq(TxOn(s))
  PROVE  LET b2 == Appended(b, s, txs)
         IN /\ Stocked(b2) /\ b2.cs = b.cs /\ b2.books = b.books
            /\ b2.mempoolUncommitted = b.mempoolUncommitted
            /\ b2.recovering = b.recovering /\ b2.panicked = b.panicked
            /\ b2.chains[s] = Append(b.chains[s], txs)
            /\ \A t \in Chains : t # s => b2.chains[t] = b.chains[t]
<1> DEFINE b2 == Appended(b, s, txs)
           c == b.chains[s]
           more == Append(c, txs)
           h == b.height[s]
<1>1. /\ b \in Blockchains /\ c \in Seq(Seq(TxOn(s))) /\ h \in Nat /\ h <= Len(c)
      /\ b.chains \in [Chains -> Seq(Block)] /\ b.height \in [Chains -> Nat]
      /\ c \in Seq(Block) /\ txs \in Block
  BY DEF Stocked, Blockchains, Block, TxOn
<1>2. b2 = [b EXCEPT !.chains = [b.chains EXCEPT ![s] = more],
                     !.height = [b.height EXCEPT ![s] = h + 1]]
  BY <1>1 DEF Appended, Blockchains
<1>3. /\ more \in Seq(Seq(TxOn(s))) /\ more \in Seq(Block) /\ Len(more) = Len(c) + 1
      /\ h + 1 \in Nat /\ h + 1 <= Len(c) + 1
  <2> HIDE DEF c, h
  <2> QED BY <1>1
<1> HIDE DEF b2, more
<1>4. /\ [b.chains EXCEPT ![s] = more] \in [Chains -> Seq(Block)]
      /\ [b.height EXCEPT ![s] = h + 1] \in [Chains -> Nat]
  <2> HIDE DEF h
  <2> QED BY <1>1, <1>3
<1>5. /\ b2 \in Blockchains /\ b2.cs = b.cs /\ b2.books = b.books
      /\ b2.chains = [b.chains EXCEPT ![s] = more]
      /\ b2.height = [b.height EXCEPT ![s] = h + 1]
      /\ b2.mempoolUncommitted = b.mempoolUncommitted
      /\ b2.recovering = b.recovering /\ b2.panicked = b.panicked
  <2> HIDE DEF h
  <2> QED BY <1>1, <1>2, <1>4 DEF Blockchains
<1>6. /\ b2.chains[s] = more /\ b2.height[s] = h + 1
      /\ \A t \in Chains : t # s => b2.chains[t] = b.chains[t] /\ b2.height[t] = b.height[t]
  BY <1>1, <1>5
<1>7. \A t \in Chains : /\ b2.chains[t] \in Seq(Seq(TxOn(t)))
                        /\ b2.mempoolUncommitted[t] \in Seq(TxOn(t))
                        /\ b2.height[t] <= Len(b2.chains[t])
  <2> SUFFICES ASSUME NEW t \in Chains
               PROVE  /\ b2.chains[t] \in Seq(Seq(TxOn(t)))
                      /\ b2.mempoolUncommitted[t] \in Seq(TxOn(t))
                      /\ b2.height[t] <= Len(b2.chains[t])
    OBVIOUS
  <2>1. /\ b.chains[t] \in Seq(Seq(TxOn(t))) /\ b.mempoolUncommitted[t] \in Seq(TxOn(t))
        /\ b.height[t] <= Len(b.chains[t])
    BY DEF Stocked
  <2>2. CASE t = s
    <3>1. b2.height[s] <= Len(b2.chains[s])
      BY <1>3, <1>6
    <3> QED BY <1>3, <1>5, <1>6, <2>1, <2>2, <3>1
  <2>3. CASE t # s
    BY <1>5, <1>6, <2>1, <2>3
  <2> QED BY <2>2, <2>3
<1>8. b2.height[MatchChain] = Len(b2.chains[MatchChain])
  <2>1. b.height[MatchChain] = Len(b.chains[MatchChain])
    BY DEF Stocked
  <2>2. CASE s = MatchChain
    BY <1>3, <1>6, <2>1, <2>2
  <2>3. CASE s # MatchChain
    BY <1>6, <2>1, <2>3, ChainKinds
  <2> QED BY <2>2, <2>3
<1>9. Stocked(b2)
  BY <1>5, <1>7, <1>8 DEF Stocked
<1> QED BY <1>5, <1>6, <1>9 DEF b2, more

\* No transaction of a token's chain is a match.
LEMMA NoMatchOnTokenChain ==
  ASSUME NEW s \in Symbols, NEW txs \in Seq(TxOn(s))
  PROVE  MatchesOf(txs) = {}
<1>1. \A k \in 1 .. Len(txs) : txs[k] \in TxOn(s)
  OBVIOUS
<1>2. \A k \in 1 .. Len(txs) : txs[k].type # "MATCH"
  BY <1>1, OnTokenChain
<1> QED BY <1>2 DEF MatchesOf, MatchesIn

\* The match chain with one block more.
LEMMA MatchBlockAppended ==
  ASSUME NEW blocks, NEW S, blocks \in Seq(S), NEW txs \in S,
         OrderlyBlocks(blocks, Len(blocks)), Orderly(MatchesUpTo(blocks, Len(blocks)), txs)
  PROVE  LET more == Append(blocks, txs)
         IN /\ OrderlyBlocks(more, Len(more))
            /\ MatchesUpTo(more, Len(more))
                 = MatchesUpTo(blocks, Len(blocks)) \cup MatchesOf(txs)
<1> DEFINE more == Append(blocks, txs)
           n == Len(blocks)
<1>1. /\ n \in Nat /\ Len(more) = n + 1 /\ more[n + 1] = txs
      /\ \A i \in 1 .. n : more[i] = blocks[i]
  OBVIOUS
<1> HIDE DEF more, n
<1>2. MatchesUpTo(more, n) = MatchesUpTo(blocks, n) /\ OrderlyBlocks(more, n)
  BY <1>1, SameBlocks DEF n
<1>3. MatchesUpTo(more, n + 1) = MatchesUpTo(more, n) \cup MatchesOf(more[n + 1])
  <2>1. n + 1 \in Nat /\ n + 1 # 0 /\ (n + 1) - 1 = n
    BY <1>1
  <2> QED BY <2>1, MatchesUpToStep
<1>4. OrderlyBlocks(more, n + 1)
  <2> SUFFICES ASSUME NEW k \in 1 .. n + 1
               PROVE  Orderly(MatchesUpTo(more, k - 1), more[k])
    BY DEF OrderlyBlocks
  <2>1. CASE k = n + 1
    <3>1. k - 1 = n
      BY <1>1, <2>1
    <3> QED BY <1>1, <1>2, <2>1, <3>1 DEF n
  <2>2. CASE k # n + 1
    <3>1. k \in 1 .. n
      BY <1>1, <2>2
    <3> QED BY <1>2, <3>1 DEF OrderlyBlocks
  <2> QED BY <2>1, <2>2
<1> QED BY <1>1, <1>2, <1>3, <1>4 DEF more, n

\* c is b with transactions added to the chain s, which had none waiting if it is the
\* match chain; ms was in force before.
AddedTo(b, s, ms, c, txs) ==
  /\ Fit(b) /\ ~b.panicked /\ HasChain(b, s)
  /\ s = MatchChain => b.mempoolUncommitted[s] = <<>>
  /\ ms = MatchesUpTo(b.chains[MatchChain], Len(b.chains[MatchChain]))
            \cup MatchesOf(b.mempoolUncommitted[MatchChain])
  /\ Stocked(c) /\ ~c.panicked /\ Builds(b, c)
  /\ Added(b, ms, s, txs) /\ Tallied(c.cs, ms \cup MatchesOf(txs)) /\ Present(c, txs)

\* What was added keeps the tokens there are, and created none of them.
LEMMA AddedKeeps ==
  ASSUME NEW b, NEW s, NEW ms, NEW c, NEW txs, AddedTo(b, s, ms, c, txs)
  PROVE  /\ Peopled(b.cs, b.chains[MatchChain], b.mempoolUncommitted[MatchChain],
                     Len(b.chains[MatchChain]))
         /\ \A t \in Symbols : Exists(b.cs, t) => Exists(c.cs, t)
         /\ \A t \in Symbols : Founds(txs, t) =>
              /\ ~Exists(b.cs, t) /\ ~Created(c, t)
              /\ Exists(c.cs, t) /\ c.chains[t] # <<>>
              /\ \A i \in 1 .. Len(b.chains[MatchChain]) : ~Founds(b.chains[MatchChain][i], t)
         /\ Keeps(b, c)
<1>1. /\ Sound(b, Len(b.chains[MatchChain])) /\ ~b.recovering /\ Builds(b, c)
      /\ Added(b, ms, s, txs) /\ Present(c, txs)
  BY DEF AddedTo, Fit
<1>2. Keeps(b, c)
  BY <1>1, BuildsKeeps
<1>3. ~c.recovering /\ c.chains[MatchChain] = b.chains[MatchChain]
      /\ \A t \in Symbols : Exists(b.cs, t) => Exists(c.cs, t)
  BY <1>1 DEF Builds
<1>4. ASSUME NEW t \in Symbols, Founds(txs, t)
      PROVE  /\ ~Exists(b.cs, t) /\ ~Created(b, t)
             /\ Exists(c.cs, t) /\ c.chains[t] # <<>>
  <2>1. ~Exists(b.cs, t)
    BY <1>1, <1>4 DEF Added, Founds
  <2>2. ~Created(b, t)
    BY <1>1, <2>1, NotCreated
  <2>3. There(c, t)
    BY <1>1, <1>4 DEF Present
  <2> QED BY <1>3, <2>1, <2>2, <2>3 DEF There
<1>5. Peopled(b.cs, b.chains[MatchChain], b.mempoolUncommitted[MatchChain],
              Len(b.chains[MatchChain]))
  BY <1>1 DEF Sound
<1> QED BY <1>2, <1>3, <1>4, <1>5 DEF Created

\* A block that is refused is undone, as far as it was added.
LEMMA RefusedUndone ==
  ASSUME NEW b, NEW s \in Chains, NEW ms, NEW c, NEW txs, AddedTo(b, s, ms, c, txs)
  PROVE  LET b2 == UndoMinedTransactions(c, txs)
         IN /\ Fit(b2) /\ Loses(b.books, b2.books) /\ Keeps(b, b2)
            /\ b.mempoolUncommitted[MatchChain] = <<>> =>
                 b2.mempoolUncommitted[MatchChain] = <<>>
<1> DEFINE b2 == UndoMinedTransactions(c, txs)
           blocks == b.chains[MatchChain]
           n == Len(blocks)
           list == b.mempoolUncommitted[MatchChain]
<1>0. /\ Fit(b) /\ ~b.panicked /\ HasChain(b, s) /\ (s = MatchChain => list = <<>>)
      /\ ms = MatchesUpTo(blocks, n) \cup MatchesOf(list)
      /\ Stocked(c) /\ ~c.panicked /\ Builds(b, c)
      /\ Added(b, ms, s, txs) /\ Tallied(c.cs, ms \cup MatchesOf(txs))
  BY DEF AddedTo
<1>1. /\ Stocked(b) /\ ~b.recovering
      /\ OrderlyBlocks(blocks, n) /\ Orderly(MatchesUpTo(blocks, n), list)
  BY <1>0 DEF Fit, Sound
<1>2. /\ c.chains[MatchChain] = blocks /\ c.mempoolUncommitted[MatchChain] = list
      /\ ~c.recovering
  BY <1>0, <1>1 DEF Builds
<1>3. txs \in Seq(TxOn(s)) /\ Orderly(ms, txs)
  BY <1>0 DEF Added
<1>6. /\ Peopled(b.cs, blocks, list, n)
      /\ \A t \in Symbols : Exists(b.cs, t) => Exists(c.cs, t)
      /\ \A t \in Symbols : Founds(txs, t) =>
           /\ Exists(c.cs, t) /\ c.chains[t] # <<>> /\ ~Created(c, t)
           /\ \A i \in 1 .. n : ~Founds(blocks[i], t)
      /\ Keeps(b, c)
  BY AddedKeeps
<1>4. CASE s = MatchChain
  <2>1. list = <<>> /\ MatchesOf(<<>>) = {}
    BY <1>0, <1>4 DEF MatchesOf, MatchesIn
  <2>2. ms = MatchesUpTo(blocks, n)
    BY <1>0, <2>1
  <2> HIDE DEF b2
  <2>3. /\ Stocked(b2) /\ SameMatchChain(c, b2) /\ Retracts(c, b2, txs)
        /\ ~b2.panicked => Tallied(b2.cs, ms)
    <3>1. b2 \in {FoldRight(UndoMatchChainTx, txs, c), FoldRight(UndoMinedMatchTx, txs, c),
                 UndoTransactions(c, txs), UndoMinedTransactions(c, txs)}
      BY DEF b2
    <3>2. txs \in Seq(TxOn(MatchChain)) /\ Stocked(c) /\ Orderly(ms, txs)
          /\ (~c.panicked => Tallied(c.cs, ms \cup MatchesOf(txs)))
      BY <1>0, <1>3, <1>4
    <3> QED BY ONLY <3>1, <3>2, MatchChainUndone
  <2>4. /\ b2.chains[MatchChain] = blocks /\ b2.mempoolUncommitted[MatchChain] = list
        /\ ~b2.recovering
    BY <1>2, <2>3 DEF SameMatchChain
  <2>5. MatchesUpTo(blocks, n) \cup MatchesOf(<<>>) = ms
    BY <2>1, <2>2
  <2>8. Peopled(b2.cs, blocks, <<>>, n)
    <3> HIDE DEF blocks, n, list
    <3>1. Peopled(c.cs, blocks, <<>>, n)
      BY <1>6, <2>1, StillPeopled
    <3> QED BY <1>6, <2>3, <3>1, PeopledRetracted
  <2>6. ~b2.panicked => Sound(b2, n)
    BY <1>1, <2>1, <2>3, <2>4, <2>5, <2>8 DEF Sound
  <2>9. Keeps(c, b2)
    BY <1>6, <2>3, RetractsKeeps
  <2>10. Keeps(b, b2)
    BY <1>6, <2>9 DEF Keeps
  <2>7. Loses(b.books, b2.books)
    BY <1>0, <2>3, LosesMore DEF Builds, SameMatchChain
  <2> HIDE DEF n
  <2> QED BY <2>3, <2>4, <2>6, <2>7, <2>10 DEF Fit, b2, n
<1>5. CASE s # MatchChain
  <2>1. s \in Symbols /\ Exists(b.cs, s)
    BY <1>0, <1>5, ChainKinds DEF HasChain
  <2>2. MatchesOf(txs) = {}
    BY <1>3, <2>1, NoMatchOnTokenChain
  <2>3. Exists(c.cs, s)
    BY <1>0, <2>1 DEF Builds
  <2>4. ms \cup MatchesOf(txs) = ms
    BY <2>2
  <2>5. Tallied(c.cs, ms)
    BY <1>0, <2>4
  <2>11. Peopled(c.cs, blocks, list, n)
    <3> HIDE DEF blocks, n, list
    <3> QED BY <1>6, StillPeopled
  <2>6. Sound(c, n)
    BY <1>0, <1>1, <1>2, <2>5, <2>11 DEF Sound
  <2>7. Whole(c, 0)
    BY <1>0, <1>2, <2>6 DEF Whole
  <2> HIDE DEF b2
  <2>8. Whole(b2, 0) /\ KeepsToken(c, b2, s)
    BY <1>2, <1>3, <2>1, <2>3, <2>7, TokenTxsRetracted DEF b2
  <2>9. Fit(b2)
    BY <1>2, <2>8, FitIsWhole DEF KeepsToken
  <2>10. Loses(b.books, b2.books)
    BY <1>0, <2>8, LosesMore DEF Builds, KeepsToken
  <2>12. Keeps(b, b2)
    BY <1>2, <1>6, <2>8 DEF KeepsToken, Keeps
  <2> QED BY <1>2, <2>8, <2>9, <2>10, <2>12 DEF KeepsToken, b2
<1> QED BY <1>4, <1>5

\* A token's chain with what a height gives back.
Unfrozen(c, s, height) ==
  IF s = MatchChain THEN c
  ELSE [c EXCEPT !.cs.tokenStates[s] = ApplyUnfreezesForBlock(@, height)]

\* A block that is accepted is put on its chain, with what its height gives back.
LEMMA AcceptedAppended ==
  ASSUME NEW b, NEW s \in Chains, NEW ms, NEW c, NEW txs, AddedTo(b, s, ms, c, txs), NEW height
  PROVE  LET b2 == Appended(Unfrozen(c, s, height), s, txs)
         IN /\ Fit(b2) /\ Loses(b.books, b2.books) /\ Keeps(b, b2)
            /\ b.mempoolUncommitted[MatchChain] = <<>> =>
                 b2.mempoolUncommitted[MatchChain] = <<>>
<1> SUFFICES ASSUME NEW b2, b2 = Appended(Unfrozen(c, s, height), s, txs)
             PROVE  /\ Fit(b2) /\ Loses(b.books, b2.books) /\ Keeps(b, b2)
                    /\ b.mempoolUncommitted[MatchChain] = <<>> =>
                         b2.mempoolUncommitted[MatchChain] = <<>>
  OBVIOUS
<1> DEFINE d == Unfrozen(c, s, height)
           blocks == b.chains[MatchChain]
           n == Len(blocks)
           list == b.mempoolUncommitted[MatchChain]
<1>0. /\ Fit(b) /\ ~b.panicked /\ HasChain(b, s) /\ (s = MatchChain => list = <<>>)
      /\ ms = MatchesUpTo(blocks, n) \cup MatchesOf(list)
      /\ Stocked(c) /\ ~c.panicked /\ Builds(b, c)
      /\ Added(b, ms, s, txs) /\ Tallied(c.cs, ms \cup MatchesOf(txs))
  BY DEF AddedTo
<1>1. /\ Stocked(b) /\ ~b.recovering
      /\ OrderlyBlocks(blocks, n) /\ Orderly(MatchesUpTo(blocks, n), list)
  BY <1>0 DEF Fit, Sound
<1>2. /\ c.chains[MatchChain] = blocks /\ c.mempoolUncommitted[MatchChain] = list
      /\ ~c.recovering
  BY <1>0, <1>1 DEF Builds
<1>3. txs \in Seq(TxOn(s)) /\ Orderly(ms, txs)
  BY <1>0 DEF Added
<1>6. /\ Peopled(b.cs, blocks, list, n)
      /\ \A t \in Symbols : Exists(b.cs, t) => Exists(c.cs, t)
      /\ \A t \in Symbols : Founds(txs, t) =>
           /\ Exists(c.cs, t) /\ c.chains[t] # <<>> /\ ~Created(c, t)
           /\ \A i \in 1 .. n : ~Founds(blocks[i], t)
      /\ Keeps(b, c)
  BY AddedKeeps
<1>4. CASE s = MatchChain
  <2>1. list = <<>> /\ MatchesOf(<<>>) = {}
    BY <1>0, <1>4 DEF MatchesOf, MatchesIn
  <2>2. ms = MatchesUpTo(blocks, n)
    BY <1>0, <2>1
  <2>3. d = c
    BY <1>4 DEF Unfrozen
  <2>4. /\ Stocked(b2) /\ b2.cs = c.cs /\ b2.mempoolUncommitted = c.mempoolUncommitted
        /\ b2.recovering = c.recovering /\ b2.panicked = c.panicked
        /\ b2.books = c.books
        /\ b2.chains[MatchChain] = Append(blocks, txs)
        /\ \A t \in Symbols : b2.chains[t] = c.chains[t]
    <3>1. Stocked(c) /\ txs \in Seq(TxOn(s)) /\ s \in Chains /\ b2 = Appended(c, s, txs)
      BY <1>0, <1>3, <2>3
    <3>2. /\ Stocked(b2) /\ b2.cs = c.cs /\ b2.mempoolUncommitted = c.mempoolUncommitted
          /\ b2.recovering = c.recovering /\ b2.panicked = c.panicked
          /\ b2.books = c.books
          /\ b2.chains[s] = Append(c.chains[s], txs)
          /\ \A t \in Chains : t # s => b2.chains[t] = c.chains[t]
      BY ONLY <3>1, BlockAppended
    <3> QED BY <1>2, <1>4, <3>2, ChainKinds
  <2> DEFINE more == Append(blocks, txs)
  <2>5. blocks \in Seq(Seq(TxOn(MatchChain))) /\ txs \in Seq(TxOn(MatchChain))
    BY <1>1, <1>3, <1>4, ChainKinds DEF Stocked
  <2> HIDE DEF blocks
  <2>6. /\ OrderlyBlocks(more, Len(more))
        /\ MatchesUpTo(more, Len(more)) = MatchesUpTo(blocks, n) \cup MatchesOf(txs)
    BY <1>1, <1>3, <2>2, <2>5, MatchBlockAppended DEF n
  <2> HIDE DEF more
  <2>7. Orderly(MatchesUpTo(more, Len(more)), <<>>)
        /\ MatchesUpTo(more, Len(more)) \cup MatchesOf(<<>>) = ms \cup MatchesOf(txs)
    BY <2>1, <2>2, <2>6 DEF Orderly
  <2>10. /\ n \in Nat /\ Len(more) = n + 1 /\ more[n + 1] = txs
         /\ \A i \in 1 .. n : more[i] = blocks[i]
    BY <2>5 DEF more, n
  <2> HIDE DEF n
  <2>11. Peopled(b2.cs, more, <<>>, Len(more))
    <3>1. Peopled(c.cs, more, <<>>, n + 1)
      <4> HIDE DEF list
      <4> QED BY <1>6, <2>10, PeopledBlock
    <3> QED BY <2>4, <2>10, <3>1
  <2>8. Sound(b2, Len(more))
    BY <1>0, <1>2, <2>1, <2>4, <2>6, <2>7, <2>11 DEF Sound, more
  <2>9. b2.chains[MatchChain] = more
    BY <2>4 DEF more
  <2>12. Keeps(b, b2)
    <3> SUFFICES ASSUME NEW t \in Symbols, Kept(b, t), Created(b2, t)
                 PROVE  b2.chains[t] # <<>>
      BY DEF Keeps, Kept
    <3>1. PICK i \in 1 .. n + 1 : Founds(more[i], t)
      BY <2>9, <2>10 DEF Created
    <3>2. CASE i = n + 1
      BY <1>6, <2>4, <2>10, <3>1, <3>2
    <3>3. CASE i # n + 1
      <4>1. i \in 1 .. n /\ Founds(blocks[i], t)
        BY <2>10, <3>1, <3>3
      <4>2. Created(c, t)
        BY <1>2, <4>1 DEF Created, n, blocks
      <4>3. Kept(c, t)
        BY <1>6 DEF Keeps
      <4> QED BY <2>4, <4>2, <4>3 DEF Kept
    <3> QED BY <3>2, <3>3
  <2> QED BY <1>0, <1>2, <2>4, <2>8, <2>9, <2>12 DEF Fit, Builds
<1>5. CASE s # MatchChain
  <2>1. s \in Symbols /\ Exists(b.cs, s)
    BY <1>0, <1>5, ChainKinds DEF HasChain
  <2>2. MatchesOf(txs) = {}
    BY <1>3, <2>1, NoMatchOnTokenChain
  <2>3. Exists(c.cs, s)
    BY <1>0, <2>1 DEF Builds
  <2>4. ms \cup MatchesOf(txs) = ms
    BY <2>2
  <2>5. Tallied(c.cs, ms)
    BY <1>0, <2>4
  <2>17. Peopled(c.cs, blocks, list, n)
    <3> HIDE DEF blocks, n, list
    <3> QED BY <1>6, StillPeopled
  <2>6. Sound(c, n)
    BY <1>0, <1>1, <1>2, <2>5, <2>17 DEF Sound
  <2> DEFINE us == ApplyUnfreezesForBlock(c.cs.tokenStates[s], height)
             ledger == [c.cs EXCEPT !.tokenStates[s] = us]
  <2>7. c \in Blockchains /\ c.cs \in State
    BY <1>0 DEF Stocked, Blockchains
  <2>8. us \in TokenState /\ us # None
    <3>1. c.cs.tokenStates[s] \in TokenState
      BY <2>1, <2>3, <2>7 DEF State, Exists
    <3>2. us \in TokenState
      BY <3>1, UnfreezesType
    <3> QED BY <3>2, NoneAssumption
  <2>9. \A us2 : Tallied(c.cs, us2) => Tallied(ledger, us2)
    <3> SUFFICES ASSUME NEW xs, Tallied(c.cs, xs) PROVE Tallied(ledger, xs)
      OBVIOUS
    <3>1. ledger = [c.cs EXCEPT !.tokenStates[s] = ApplyUnfreezesForBlock(@, height)]
      BY <2>1, <2>7 DEF State
    <3> HIDE DEF ledger
    <3> QED BY <2>1, <2>3, <3>1, UnfreezesKeepTally
  <2>10. \A t \in Symbols : Exists(ledger, t) <=> Exists(c.cs, t)
    <3> HIDE DEF us
    <3> QED BY <2>1, <2>3, <2>7, <2>8 DEF Exists, State
  <2>11. d = [c EXCEPT !.cs = ledger]
    BY <1>5, <2>1, <2>7 DEF Blockchains, State, Unfrozen
  <2> HIDE DEF ledger
  <2>12. Stocked(d) /\ Sound(d, n) /\ SameButLedger(c, d)
    BY <1>0, <2>6, <2>9, <2>10, <2>11, LedgerReplaced
  <2>13. /\ Stocked(b2) /\ b2.cs = d.cs /\ b2.mempoolUncommitted = d.mempoolUncommitted
         /\ b2.recovering = d.recovering /\ b2.panicked = d.panicked
         /\ b2.books = d.books
         /\ b2.chains[MatchChain] = d.chains[MatchChain]
         /\ b2.chains[s] # <<>>
         /\ \A t \in Symbols : t # s => b2.chains[t] = d.chains[t]
    <3>1. Stocked(d) /\ txs \in Seq(TxOn(s)) /\ s \in Chains /\ b2 = Appended(d, s, txs)
      BY <1>3, <2>12
    <3>2. /\ Stocked(b2) /\ b2.cs = d.cs /\ b2.mempoolUncommitted = d.mempoolUncommitted
          /\ b2.recovering = d.recovering /\ b2.panicked = d.panicked
          /\ b2.books = d.books
          /\ b2.chains[s] = Append(d.chains[s], txs)
          /\ \A t \in Chains : t # s => b2.chains[t] = d.chains[t]
      BY ONLY <3>1, BlockAppended
    <3>3. d.chains[s] \in Seq(Seq(TxOn(s)))
      BY <3>1 DEF Stocked
    <3>4. Append(d.chains[s], txs) # <<>>
      <4> DEFINE blocks2 == d.chains[s]
      <4> HIDE DEF blocks2
      <4>1. blocks2 \in Seq(Seq(TxOn(s)))
        BY <3>3 DEF blocks2
      <4>2. Append(blocks2, txs) # <<>>
        BY <3>1, <4>1
      <4> QED BY <4>2 DEF blocks2
    <3> QED BY <1>5, <3>2, <3>4, ChainKinds
  <2>14. b2.chains[MatchChain] = blocks /\ b2.mempoolUncommitted[MatchChain] = list
         /\ ~b2.recovering
    BY <1>2, <2>12, <2>13 DEF SameButLedger
  <2>15. Sound(b2, n)
    BY <2>12, <2>13 DEF Sound
  <2>16. Loses(b.books, b2.books)
    BY <1>0, <2>12, <2>13 DEF Builds, SameButLedger
  <2>18. Keeps(c, b2)
    <3>1. \A t \in Symbols : Created(b2, t) <=> Created(c, t)
      BY <1>2, <2>14 DEF Created
    <3>2. d.chains = c.chains
      BY <2>12 DEF SameButLedger
    <3> QED BY <2>13, <3>1, <3>2 DEF Keeps, Kept
  <2>19. Keeps(b, b2)
    BY <1>6, <2>18 DEF Keeps
  <2> QED BY <2>13, <2>14, <2>15, <2>16, <2>19 DEF Fit
<1> QED BY <1>4, <1>5

\* AddBlocks, of a block for a chain that has no transaction waiting.
LEMMA BlockAdded ==
  ASSUME NEW b, Fit(b), NEW block, block.symbol \in Chains,
         block.txs \in Seq(TxOn(block.symbol)),
         ~b.panicked => HasChain(b, block.symbol),
         ~b.panicked /\ block.symbol = MatchChain => b.mempoolUncommitted[MatchChain] = <<>>,
         NEW fits
  PROVE  LET b2 == AddBlockTo(b, block, fits)
         IN /\ Fit(b2) /\ Loses(b.books, b2.books) /\ Keeps(b, b2)
            /\ b.mempoolUncommitted[MatchChain] = <<>> =>
                 b2.mempoolUncommitted[MatchChain] = <<>>
<1> DEFINE s == block.symbol
           r == AddData(b, block.txs)
           ms == MatchesUpTo(b.chains[MatchChain], Len(b.chains[MatchChain]))
                   \cup MatchesOf(b.mempoolUncommitted[MatchChain])
           b2 == AddBlockTo(b, block, fits)
<1>1. CASE ~fits \/ b.panicked
  <2>1. b2 = b /\ Loses(b.books, b.books) /\ Keeps(b, b)
    BY <1>1, LosesNothing, SameChainsKeep DEF AddBlockTo
  <2> QED BY <2>1
<1>2. CASE fits /\ ~b.panicked
  <2>1. Stocked(b) /\ Tallied(b.cs, ms) /\ ~b.recovering
    BY <1>2 DEF Fit, Sound
  <2>2. /\ Stocked(r.bcs) /\ Builds(b, r.bcs) /\ Added(b, ms, s, r.added)
        /\ Tallied(r.bcs.cs, ms \cup MatchesOf(r.added)) /\ Present(r.bcs, r.added)
        /\ r.ok /\ ~r.bcs.panicked => r.added = block.txs
    <3> HIDE DEF ms
    <3> QED BY <2>1, DataAdded
  <2>3. ms = MatchesUpTo(b.chains[MatchChain], Len(b.chains[MatchChain]))
               \cup MatchesOf(b.mempoolUncommitted[MatchChain])
    OBVIOUS
  <2> HIDE DEF r, ms, b2
  <2>4. s \in Chains /\ HasChain(b, s) /\ (s = MatchChain => b.mempoolUncommitted[s] = <<>>)
    BY <1>2
  <2> HIDE DEF s
  <2>5. CASE r.bcs.panicked
    <3>1. b2 = r.bcs
      BY <1>2, <2>5 DEF AddBlockTo, b2, r
    <3>2. Keeps(b, r.bcs)
      BY <1>2, <2>2, BuildsKeeps DEF Fit
    <3> QED BY <2>1, <2>2, <2>5, <3>1, <3>2 DEF Fit, Builds, b2
  <2>6. CASE ~r.bcs.panicked /\ ~r.ok
    <3> DEFINE c == r.bcs  txs == r.added
    <3>1. b2 = UndoMinedTransactions(c, txs)
      BY <1>2, <2>6 DEF AddBlockTo, b2, r
    <3>2. AddedTo(b, s, ms, c, txs)
      BY <1>2, <2>2, <2>3, <2>4, <2>6 DEF AddedTo
    <3> DEFINE e == UndoMinedTransactions(c, txs)
    <3>3. b2 = e
      BY <3>1
    <3> HIDE DEF c, txs, b2
    <3>4. /\ Fit(e) /\ Loses(b.books, e.books) /\ Keeps(b, e)
          /\ b.mempoolUncommitted[MatchChain] = <<>> =>
               e.mempoolUncommitted[MatchChain] = <<>>
      <4>1. s \in Chains
        BY <2>4
      <4> QED BY ONLY <3>2, <4>1, RefusedUndone
    <3> HIDE DEF e
    <3>5. /\ Fit(b2) /\ Loses(b.books, b2.books) /\ Keeps(b, b2)
          /\ b.mempoolUncommitted[MatchChain] = <<>> =>
               b2.mempoolUncommitted[MatchChain] = <<>>
      BY ONLY <3>3, <3>4
    <3> QED BY ONLY <3>5 DEF b2
  <2>7. CASE ~r.bcs.panicked /\ r.ok
    <3> DEFINE c == r.bcs  txs == block.txs
               d == Unfrozen(c, s, b.height[s] + 1)
    <3>1. b2 = Appended(d, s, txs)
      BY <1>2, <2>7 DEF AddBlockTo, b2, r, s, Unfrozen
    <3>2. AddedTo(b, s, ms, c, txs)
      BY <1>2, <2>2, <2>3, <2>4, <2>7 DEF AddedTo
    <3> DEFINE height == b.height[s] + 1
    <3> DEFINE e == Appended(Unfrozen(c, s, height), s, txs)
    <3>3. b2 = e
      BY <3>1
    <3> HIDE DEF c, txs, height, b2
    <3>4. /\ Fit(e) /\ Loses(b.books, e.books) /\ Keeps(b, e)
          /\ b.mempoolUncommitted[MatchChain] = <<>> =>
               e.mempoolUncommitted[MatchChain] = <<>>
      BY ONLY <2>4, <3>2, AcceptedAppended
    <3> HIDE DEF e
    <3>5. /\ Fit(b2) /\ Loses(b.books, b2.books) /\ Keeps(b, b2)
          /\ b.mempoolUncommitted[MatchChain] = <<>> =>
               b2.mempoolUncommitted[MatchChain] = <<>>
      BY ONLY <3>3, <3>4
    <3> QED BY ONLY <3>5 DEF b2
  <2> QED BY <2>5, <2>6, <2>7
<1> QED BY <1>1, <1>2

-----------------------------------------------------------------------------
\* What the constants are.

\* The transactions of a block that a node meets are those of its chain.
LEMMA BlockTxs ==
  ASSUME NoCancels, NoSelfMatches, NEW block \in ToSet(StartBlocks) \cup PeerBlocks
  PROVE  block.symbol \in Chains /\ block.txs \in Seq(TxOn(block.symbol))
<1>1. block \in [symbol : Chains, txs : Block]
  <2> DEFINE S == [symbol : Chains, txs : Block]
  <2>0. StartBlocks \in Seq(S) /\ PeerBlocks \subseteq S
    BY BlocksAssumption
  <2> HIDE DEF S
  <2>1. \A i \in DOMAIN StartBlocks : StartBlocks[i] \in S
    BY <2>0
  <2> QED BY <2>0, <2>1 DEF ToSet, S
<1>2. block.symbol \in Chains /\ block.txs \in Seq(Transaction)
  BY <1>1 DEF Block
<1> DEFINE txs == block.txs
<1>3. \A i \in DOMAIN txs : txs[i] \in TxOn(block.symbol)
  <2>1. \A i \in DOMAIN txs : txs[i] \in Transaction
    BY <1>2
  <2>2. \A i \in DOMAIN txs : /\ txs[i].chain = block.symbol /\ BetweenTokens(txs[i])
                              /\ txs[i].type # "CANCEL_ORDER"
    BY BlocksAssumption DEF NoCancels, NoSelfMatches
  <2> QED BY <2>1, <2>2 DEF TxOn
<1> HIDE DEF txs
<1>4. txs \in Seq(TxOn(block.symbol))
  <2>1. txs = [i \in 1 .. Len(txs) |-> txs[i]] /\ Len(txs) \in Nat /\ DOMAIN txs = 1 .. Len(txs)
    BY <1>2 DEF txs
  <2> QED BY <1>3, <2>1, IsASeq
<1> QED BY <1>2, <1>4 DEF txs

\* A transaction that is offered alone is one of its chain.
LEMMA OfferedTx ==
  ASSUME NoCancels, NoSelfMatches, NEW tx \in MempoolTxs
  PROVE  tx.chain \in Chains /\ tx \in TxOn(tx.chain)
<1>1. tx \in Transaction /\ tx.type # "CANCEL_ORDER" /\ BetweenTokens(tx)
  BY BlocksAssumption DEF NoCancels, NoSelfMatches
<1>2. tx.chain \in Chains
  <2>1. tx \in TokenTx => tx.chain \in Symbols
    BY DEF TokenTx, OrderTx, ClaimTx, TransferTx, FreezeTx
  <2>2. tx \in MatchTx \cup CreateTx \cup CancelTx => tx.chain = MatchChain
    BY DEF MatchTx, CreateTx, CancelTx
  <2> QED BY <1>1, <2>1, <2>2 DEF Transaction, Chains
<1> QED BY <1>1, <1>2 DEF TxOn

-----------------------------------------------------------------------------
\* The start of a node, and its restart.

\* A database that is opened: nothing is applied yet.
LEMMA OpenedStocked ==
  ASSUME NEW chains, \A s \in Chains : chains[s] \in Seq(Seq(TxOn(s))),
         chains \in [Chains -> Seq(Block)], NEW recovering \in BOOLEAN
  PROVE  LET b2 == Opened(chains, recovering)
         IN /\ Stocked(b2) /\ Sound(b2, 0) /\ ~b2.panicked /\ b2.chains = chains
            /\ b2.recovering = recovering
            /\ \A s \in Chains : b2.mempoolUncommitted[s] = <<>>
            /\ \A s \in Symbols : ~Exists(b2.cs, s)
<1> DEFINE b2 == Opened(chains, recovering)
           height == [s \in Chains |-> IF s = MatchChain THEN Len(chains[s]) ELSE 0]
           lists == [s \in Chains |-> <<>>]
<1>1. NewConsensusState \in State /\ \A s \in Symbols : ~Exists(NewConsensusState, s)
  BY NoneAssumption DEF NewConsensusState, State, Exists
<1>2. Tallied(NewConsensusState, {})
  <2>1. KnownIn(NewConsensusState, {})
    BY FS_EmptySet DEF KnownIn
  <2>2. CountedIn(NewConsensusState, {})
    BY <1>1 DEF CountedIn, NewConsensusState
  <2>3. LedgerFiled(NewConsensusState)
    BY <1>1 DEF LedgerFiled, Exists
  <2> QED BY <1>1, <2>1, <2>2, <2>3 DEF Tallied
<1>3. NoBooks \in Books
  BY DEF NoBooks, Books, EmptyQueue, Queue
<1>4. height \in [Chains -> Nat] /\ \A s \in Chains : height[s] <= Len(chains[s])
  <2>1. \A s \in Chains : Len(chains[s]) \in Nat
    OBVIOUS
  <2> QED BY <2>1
<1>5. lists \in [Chains -> Seq(Transaction)] /\ \A s \in Chains : lists[s] \in Seq(TxOn(s))
  OBVIOUS
<1>6. b2 = [cs |-> NewConsensusState, chains |-> chains, height |-> height,
            mempoolUncommitted |-> lists, books |-> NoBooks,
            recovering |-> recovering, panicked |-> FALSE, cascades |-> 0]
  BY DEF Opened
<1> HIDE DEF b2
<1>7. b2 \in Blockchains
  <2> HIDE DEF height, lists
  <2> QED BY <1>1, <1>3, <1>4, <1>5, <1>6 DEF Blockchains
<1>8. Stocked(b2)
  <2>1. height[MatchChain] = Len(chains[MatchChain])
    BY ChainKinds
  <2> HIDE DEF height, lists
  <2> QED BY <1>4, <1>5, <1>6, <1>7, <2>1 DEF Stocked
<1>9. Sound(b2, 0)
  <2>1. MatchesUpTo(chains[MatchChain], 0) = {} /\ MatchesOf(<<>>) = {}
    BY DEF MatchesUpTo, MatchesOf, MatchesIn
  <2>2. b2.mempoolUncommitted[MatchChain] = <<>> /\ b2.chains = chains /\ b2.cs = NewConsensusState
    BY <1>6, ChainKinds
  <2>3. OrderlyBlocks(chains[MatchChain], 0)
    BY DEF OrderlyBlocks
  <2>4. Orderly({}, <<>>)
    BY DEF Orderly
  <2>5. {} \cup {} = {}
    OBVIOUS
  <2>6. Peopled(NewConsensusState, chains[MatchChain], <<>>, 0)
    BY DEF Peopled, Founds
  <2> QED BY ONLY <1>2, <2>1, <2>2, <2>3, <2>4, <2>5, <2>6 DEF Sound
<1> QED BY <1>1, <1>6, <1>8, <1>9 DEF b2

\* Init, one block at a time.
Starting == INSTANCE Folding WITH Step <- AddStartBlock

\* The fold over the blocks at the start goes one step for each of them.
LEMMA StartSteps ==
  ASSUME NEW S, NEW seq \in Seq(S), NEW base
  PROVE  \E g : Starting!LeftSteps(seq, base, g) /\ FoldLeft(AddStartBlock, base, seq) = g[Len(seq)]
<1>1. Starting!FoldLeft(AddStartBlock, base, seq) = FoldLeft(AddStartBlock, base, seq)
  BY DEF Starting!FoldLeft, FoldLeft, Starting!MapThenFoldSet, MapThenFoldSet,
         Starting!Max, Max
<1>2. \E g : Starting!LeftSteps(seq, base, g)
               /\ Starting!FoldLeft(AddStartBlock, base, seq) = g[Len(seq)]
  BY ONLY Starting!FoldLeftSteps, seq \in Seq(S)
<1> QED BY <1>1, <1>2

\* A node starts with chains that fit its ledger, and with no order in a book that is
\* not dirty.
LEMMA StartFits ==
  ASSUME NoCancels, NoSelfMatches
  PROVE  LET b2 == FoldLeft(AddStartBlock, Opened([s \in Chains |-> <<>>], FALSE), StartBlocks)
         IN Fit(b2) /\ Loses(NoBooks, b2.books)
<1> DEFINE base == Opened([s \in Chains |-> <<>>], FALSE)
           seq == StartBlocks
           n == Len(seq)
           Good(b) == /\ Fit(b) /\ b.mempoolUncommitted[MatchChain] = <<>>
                      /\ Loses(NoBooks, b.books)
<1>1. Good(base)
  <2> DEFINE none == [s \in Chains |-> <<>>]
  <2>1. none \in [Chains -> Seq(Block)] /\ \A s \in Chains : none[s] \in Seq(Seq(TxOn(s)))
    OBVIOUS
  <2>2. Len(none[MatchChain]) = 0
    BY ChainKinds
  <2> HIDE DEF none
  <2>3. LET b2 == Opened(none, FALSE)
        IN /\ Stocked(b2) /\ Sound(b2, 0) /\ ~b2.panicked /\ b2.chains = none
           /\ b2.recovering = FALSE
           /\ \A s \in Chains : b2.mempoolUncommitted[s] = <<>>
    BY <2>1, OpenedStocked
  <2>4. Opened(none, FALSE).books = NoBooks
    BY DEF Opened
  <2>5. Good(Opened(none, FALSE))
    BY <2>2, <2>3, <2>4, ChainKinds, LosesNothing DEF Fit
  <2> HIDE DEF Good
  <2> QED BY <2>5 DEF none
<1>2. seq \in Seq([symbol : Chains, txs : Block]) /\ n \in Nat
      /\ \A k \in 1 .. n : seq[k] \in ToSet(StartBlocks) \cup PeerBlocks
  BY BlocksAssumption DEF ToSet
<1>3. PICK g : Starting!LeftSteps(seq, base, g) /\ FoldLeft(AddStartBlock, base, seq) = g[n]
  BY <1>2, StartSteps
<1> HIDE DEF seq, n, base
<1>4. g[0] = base /\ \A k \in 1 .. n : g[k] = AddStartBlock(g[k - 1], seq[k])
  BY <1>3 DEF Starting!LeftSteps, n
<1> DEFINE N == {k \in 0 .. n : Good(g[k])}
<1>5. 0 \in N
  <2> HIDE DEF Good
  <2> QED BY <1>1, <1>2, <1>4
<1>6. ASSUME NEW k \in 1 .. n, k - 1 \in N
      PROVE  k \in N
  <2> DEFINE c == g[k - 1]  d == g[k]  block == seq[k]
  <2>1. Good(c) /\ d = AddStartBlock(c, block) /\ k \in 0 .. n
    <3> HIDE DEF Good
    <3>1. Good(c)
      BY <1>6
    <3> QED BY <1>2, <1>4, <3>1
  <2>2. block.symbol \in Chains /\ block.txs \in Seq(TxOn(block.symbol))
    BY <1>2, BlockTxs
  <2> HIDE DEF c, d, block
  <2>3. Good(d)
    <3>1. CASE ~HasChain(c, block.symbol)
      BY <2>1, <3>1 DEF AddStartBlock
    <3>2. CASE HasChain(c, block.symbol)
      <4>1. d = AddBlockTo(c, block, TRUE)
        BY <2>1, <3>2 DEF AddStartBlock
      <4>2. LET b2 == AddBlockTo(c, block, TRUE)
            IN /\ Fit(b2) /\ b2.mempoolUncommitted[MatchChain] = <<>>
               /\ Loses(c.books, b2.books)
        BY <2>1, <2>2, <3>2, BlockAdded
      <4> QED BY <2>1, <4>1, <4>2, LosesMore
    <3> QED BY <3>1, <3>2
  <2> HIDE DEF Good
  <2> QED BY <2>1, <2>3 DEF d
<1>7. n \in N
  <2> HIDE DEF N
  <2> QED BY <1>2, <1>5, <1>6, Adding!InductUpTo
<1> QED BY <1>3, <1>7 DEF seq, base

-----------------------------------------------------------------------------
\* The operations of a running node.

\* The end of a critical section changes a count only.
LEMMA SettledStocked ==
  ASSUME NEW b, Stocked(b)
  PROVE  LET b2 == Settled(b)
         IN /\ Stocked(b2) /\ SameButBooks(b, b2) /\ b2.panicked = b.panicked
            /\ \A n : Sound(b, n) => Sound(b2, n)
<1> DEFINE b2 == Settled(b)
<1>1. b2 \in Blockchains /\ SameButBooks(b, b2) /\ b2.panicked = b.panicked
  BY LosesNothing DEF Settled, Stocked, Blockchains, SameButBooks
<1> HIDE DEF b2
<1>2. Stocked(b2)
  BY <1>1 DEF Stocked, SameButBooks
<1>3. \A n : Sound(b, n) => Sound(b2, n)
  BY <1>1 DEF Sound, SameButBooks
<1> QED BY <1>1, <1>2, <1>3 DEF b2

\* So it leaves chains that fit.
LEMMA SettledFits ==
  ASSUME NEW b, Fit(b)
  PROVE  Fit(Settled(b)) /\ Settled(b).books = b.books /\ Settled(b).chains = b.chains
<1> DEFINE b2 == Settled(b)
<1>1. /\ Stocked(b2) /\ SameButBooks(b, b2) /\ b2.panicked = b.panicked
      /\ \A n : Sound(b, n) => Sound(b2, n)
  BY SettledStocked DEF Fit
<1>2. b2.books = b.books /\ b2.chains = b.chains
  BY DEF Settled, Fit, Stocked, Blockchains
<1> HIDE DEF b2
<1>3. Fit(b2)
  BY <1>1 DEF Fit, SameButBooks
<1> QED BY <1>2, <1>3 DEF b2

\* AddBlock: the list of the chain is forgotten before the block of a peer comes.
LEMMA PeerBlockAdded ==
  ASSUME NEW b, Fit(b), ~b.panicked, NEW block, block.symbol \in Chains,
         block.txs \in Seq(TxOn(block.symbol)), HasChain(b, block.symbol), NEW fits
  PROVE  LET b2 == Settled(AddBlockTo(ForgetUncommitted(b, block.symbol), block, fits))
         IN Fit(b2) /\ Loses(b.books, b2.books) /\ Keeps(b, b2)
<1> DEFINE s == block.symbol
           c == ForgetUncommitted(b, s)
           d == AddBlockTo(c, block, fits)
<1>1. /\ Fit(c) /\ Loses(b.books, c.books) /\ Keeps(b, c)
      /\ ~c.panicked => HasChain(c, s) /\ c.mempoolUncommitted[s] = <<>>
  BY UncommittedForgotten
<1> HIDE DEF c
<1>2. Fit(d) /\ Loses(c.books, d.books) /\ Keeps(c, d)
  BY <1>1, BlockAdded
<1> HIDE DEF d
<1>3. Fit(Settled(d)) /\ Settled(d).books = d.books /\ Keeps(d, Settled(d))
  BY <1>2, SettledFits, SameChainsKeep
<1>4. Loses(b.books, d.books)
  BY <1>1, <1>2, LosesMore
<1>5. Keeps(b, Settled(d))
  BY <1>1, <1>2, <1>3 DEF Keeps
<1> QED BY <1>3, <1>4, <1>5 DEF c, d

\* RollbackToHeight: all the blocks above the fork are rolled back.
LEMMA RolledBackToHeight ==
  ASSUME NEW b, Fit(b), ~b.panicked, NEW s \in Chains, HasChain(b, s),
         NEW h \in Nat, h # 0, h < b.height[s]
  PROVE  LET b2 == Settled(RollbackBlocks(ForgetUncommitted(b, s), s, b.height[s] - h))
         IN Fit(b2) /\ Loses(b.books, b2.books) /\ Keeps(b, b2)
<1> DEFINE c == ForgetUncommitted(b, s)
           n == b.height[s] - h
           d == RollbackBlocks(c, s, n)
<1>1. /\ Fit(c) /\ Loses(b.books, c.books) /\ Keeps(b, c)
      /\ ~c.panicked => /\ HasChain(c, s) /\ c.mempoolUncommitted[s] = <<>>
                        /\ c.height[s] = b.height[s]
  BY UncommittedForgotten
<1>2. n \in Nat /\ n < b.height[s]
  <2>1. b.height[s] \in Nat
    BY DEF Fit, Stocked, Blockchains
  <2> QED BY <2>1
<1> HIDE DEF c, n
<1>3. Fit(d) /\ Loses(c.books, d.books) /\ Keeps(c, d)
  <2>1. n \in Nat /\ (~c.panicked => n < c.height[s])
    BY <1>1, <1>2
  <2> QED BY ONLY <1>1, <2>1, s \in Chains, BlocksRolledBack DEF d
<1> HIDE DEF d
<1>4. Fit(Settled(d)) /\ Settled(d).books = d.books /\ Keeps(d, Settled(d))
  BY <1>3, SettledFits, SameChainsKeep
<1>5. Loses(b.books, d.books)
  BY <1>1, <1>3, LosesMore
<1>6. Keeps(b, Settled(d))
  BY <1>1, <1>3, <1>4 DEF Keeps
<1> QED BY <1>4, <1>5, <1>6 DEF c, d, n

\* StartMining(false): the list of the miner's chain is forgotten.
LEMMA MiningRestarted ==
  ASSUME NEW b, Fit(b), ~b.panicked, NEW s \in Chains, HasChain(b, s)
  PROVE  LET b2 == Settled(ForgetUncommitted(b, s))
         IN Fit(b2) /\ Loses(b.books, b2.books) /\ Keeps(b, b2)
<1> DEFINE c == ForgetUncommitted(b, s)
<1>1. Fit(c) /\ Loses(b.books, c.books) /\ Keeps(b, c)
  BY UncommittedForgotten
<1> HIDE DEF c
<1>2. Fit(Settled(c)) /\ Settled(c).books = c.books /\ Keeps(c, Settled(c))
  BY <1>1, SettledFits, SameChainsKeep
<1>3. Keeps(b, Settled(c))
  BY <1>1, <1>2 DEF Keeps
<1> QED BY <1>1, <1>2, <1>3 DEF c

\* A transaction that is kept waits at the end of the list of its chain.
LEMMA TxKept ==
  ASSUME NEW b, Fit(b), ~b.panicked, NEW s \in Chains, NEW tx \in TxOn(s), Accepted(b.cs, tx),
         NEW b2, b2 = [AddTx(b, tx) EXCEPT !.mempoolUncommitted[s] = Append(@, tx)]
  PROVE  Fit(b2) /\ Loses(b.books, b2.books) /\ Keeps(b, b2)
<1> DEFINE c == AddTx(b, tx)
           blocks == b.chains[MatchChain]
           n == Len(blocks)
           list == b.mempoolUncommitted[MatchChain]
           ms == MatchesUpTo(blocks, n) \cup MatchesOf(list)
<1>1. /\ Stocked(b) /\ Sound(b, n) /\ ~b.recovering
      /\ OrderlyBlocks(blocks, n) /\ Orderly(MatchesUpTo(blocks, n), list)
      /\ Tallied(b.cs, ms) /\ Peopled(b.cs, blocks, list, n)
  BY DEF Fit, Sound
<1> HIDE DEF ms
<1>2. /\ Stocked(c) /\ Builds(b, c) /\ c.panicked = b.panicked
      /\ Tallied(c.cs, IF tx.type = "MATCH" THEN ms \cup {tx} ELSE ms)
      /\ tx.type = "MATCH" => tx \notin ms
      /\ tx.type = "CREATE_TOKEN" =>
           /\ ~Exists(b.cs, tx.Symbol) /\ There(c, tx.Symbol)
           /\ \A m \in ms : m.BuySymbol # tx.Symbol /\ m.SellSymbol # tx.Symbol
  BY <1>1, TxAdded
<1> HIDE DEF c
<1>11. \A t \in Symbols : Exists(b.cs, t) => Exists(c.cs, t)
  BY <1>2 DEF Builds
<1>12. Keeps(b, c)
  BY <1>1, <1>2, BuildsKeeps
<1> DEFINE lists == [c.mempoolUncommitted EXCEPT ![s] = Append(@, tx)]
<1>3. c \in Blockchains /\ c.mempoolUncommitted[s] \in Seq(TxOn(s)) /\ tx \in Transaction
  BY <1>2 DEF Stocked, TxOn
<1>4. b2 = [c EXCEPT !.mempoolUncommitted = lists]
  BY <1>3 DEF Blockchains, c
<1>5. lists \in [Chains -> Seq(Transaction)]
      /\ lists[s] = Append(c.mempoolUncommitted[s], tx)
      /\ \A t \in Chains : t # s => lists[t] = c.mempoolUncommitted[t]
  <2>1. c.mempoolUncommitted \in [Chains -> Seq(Transaction)]
    BY <1>3 DEF Blockchains
  <2>2. Append(c.mempoolUncommitted[s], tx) \in Seq(Transaction)
    BY <1>3, <2>1
  <2> QED BY <2>1, <2>2
<1> HIDE DEF lists
<1>6. /\ b2 \in Blockchains /\ b2.cs = c.cs /\ b2.chains = c.chains /\ b2.height = c.height
      /\ b2.mempoolUncommitted = lists /\ b2.books = c.books
      /\ b2.recovering = c.recovering /\ b2.panicked = c.panicked
  BY <1>3, <1>4, <1>5 DEF Blockchains
<1>13. Keeps(b, b2)
  <2>1. Keeps(c, b2)
    BY <1>6, SameChainsKeep
  <2> QED BY <1>12, <2>1 DEF Keeps
<1>7. Stocked(b2)
  <2>1. \A t \in Chains : lists[t] \in Seq(TxOn(t))
    <3>1. \A t \in Chains : c.mempoolUncommitted[t] \in Seq(TxOn(t))
      BY <1>2 DEF Stocked
    <3>2. lists[s] \in Seq(TxOn(s))
      BY <1>3, <1>5
    <3>3. ASSUME NEW t \in Chains, t # s PROVE lists[t] \in Seq(TxOn(t))
      BY <1>5, <3>1, <3>3
    <3> QED BY <3>2, <3>3
  <2> QED BY <1>2, <1>6, <2>1 DEF Stocked
<1>8. b2.chains[MatchChain] = blocks /\ ~b2.recovering /\ Loses(b.books, b2.books)
      /\ c.mempoolUncommitted[MatchChain] = list
  BY <1>1, <1>2, <1>6 DEF Builds
<1>9. CASE s = MatchChain
  <2>1. list \in Seq(TxOn(s)) /\ b2.mempoolUncommitted[MatchChain] = Append(list, tx)
    BY <1>3, <1>5, <1>6, <1>8, <1>9
  <2> HIDE DEF list, blocks, n
  <2>2. Orderly(MatchesUpTo(blocks, n), Append(list, tx))
    BY <1>1, <1>2, <2>1, OrderlyAppend DEF ms
  <2>3. MatchesUpTo(blocks, n) \cup MatchesOf(Append(list, tx))
          = IF tx.type = "MATCH" THEN ms \cup {tx} ELSE ms
    BY <2>1, MatchesOfAppend DEF ms
  <2>5. Peopled(b2.cs, blocks, Append(list, tx), n)
    <3> DEFINE more == Append(list, tx)
               k == Len(list)
    <3>1. k \in Nat /\ Len(more) = k + 1 /\ more[k + 1] = tx
          /\ \A i \in 1 .. k : more[i] = list[i]
      BY <2>1
    <3> HIDE DEF more, k
    <3>2. ASSUME NEW t \in Symbols, Founds(more, t)
          PROVE  Exists(c.cs, t) /\ (Founds(list, t) \/ ~Exists(b.cs, t))
      <4>1. PICK i \in 1 .. k + 1 : more[i].type = "CREATE_TOKEN" /\ more[i].Symbol = t
        BY <3>1, <3>2 DEF Founds
      <4>2. CASE i = k + 1
        BY <1>2, <3>1, <4>1, <4>2 DEF There
      <4>3. CASE i # k + 1
        <5>1. Founds(list, t)
          BY <3>1, <4>1, <4>3 DEF Founds, k
        <5> QED BY <1>1, <1>11, <5>1 DEF Peopled
      <4> QED BY <4>2, <4>3
    <3>3. Peopled(c.cs, blocks, more, n)
      BY <1>1, <1>11, <3>2, PeopledList
    <3> QED BY <1>6, <3>3 DEF more
  <2>4. Sound(b2, n)
    BY <1>1, <1>2, <1>6, <1>8, <2>1, <2>2, <2>3, <2>5 DEF Sound
  <2> QED BY <1>7, <1>8, <1>13, <2>4 DEF Fit, n
<1>10. CASE s # MatchChain
  <2>1. s \in Symbols
    BY <1>10, ChainKinds
  <2>2. tx.type # "MATCH"
    BY <2>1, OnTokenChain
  <2>3. b2.mempoolUncommitted[MatchChain] = list
    BY <1>5, <1>6, <1>8, <1>10, ChainKinds
  <2>4. Tallied(b2.cs, ms)
    BY <1>2, <1>6, <2>2
  <2>6. Peopled(b2.cs, blocks, list, n)
    <3> HIDE DEF blocks, n, list
    <3> QED BY <1>1, <1>6, <1>11, StillPeopled
  <2>5. Sound(b2, n)
    BY <1>1, <1>8, <2>3, <2>4, <2>6 DEF Sound, ms
  <2> QED BY <1>7, <1>8, <1>13, <2>5 DEF Fit
<1> QED BY <1>9, <1>10

\* What is in force is matches.
LEMMA OnlyMatches ==
  ASSUME NEW blocks, NEW n, NEW list
  PROVE  \A m \in MatchesUpTo(blocks, n) \cup MatchesOf(list) : m.type = "MATCH"
BY DEF MatchesUpTo, MatchesOf, MatchesIn

\* A transaction of another chain than the miner's is only tried.
LEMMA TxTried ==
  ASSUME NEW b, Fit(b), ~b.panicked, NEW s \in Chains, NEW tx \in TxOn(s), Accepted(b.cs, tx)
  PROVE  LET b2 == UndoTx(tx, AddTx(b, tx))
         IN Fit(b2) /\ Loses(b.books, b2.books) /\ Keeps(b, b2)
<1> DEFINE c == AddTx(b, tx)
           d == UndoTx(tx, c)
           blocks == b.chains[MatchChain]
           n == Len(blocks)
           list == b.mempoolUncommitted[MatchChain]
           ms == MatchesUpTo(blocks, n) \cup MatchesOf(list)
           with == IF tx.type = "MATCH" THEN ms \cup {tx} ELSE ms
<1>1. /\ Stocked(b) /\ ~b.recovering
      /\ OrderlyBlocks(blocks, n) /\ Orderly(MatchesUpTo(blocks, n), list)
      /\ Tallied(b.cs, ms) /\ Peopled(b.cs, blocks, list, n) /\ Sound(b, n)
  BY DEF Fit, Sound
<1>2. \A m \in ms : m.type = "MATCH"
  <2> HIDE DEF blocks, n, list
  <2> QED BY OnlyMatches
<1> HIDE DEF ms
<1>3. /\ Stocked(c) /\ Builds(b, c) /\ c.panicked = b.panicked /\ Tallied(c.cs, with)
      /\ tx.type = "MATCH" => tx \notin ms
      /\ tx.type = "CREATE_TOKEN" =>
           /\ ~Exists(b.cs, tx.Symbol)
           /\ \A m \in ms : m.BuySymbol # tx.Symbol /\ m.SellSymbol # tx.Symbol
  BY <1>1, TxAdded
<1> HIDE DEF c
<1>8. Keeps(b, c)
  BY <1>1, <1>3, BuildsKeeps
<1>9. Peopled(c.cs, blocks, list, n)
  <2>1. \A t \in Symbols : Exists(b.cs, t) => Exists(c.cs, t)
    BY <1>3 DEF Builds
  <2> HIDE DEF blocks, n, list
  <2> QED BY <1>1, <2>1, StillPeopled
<1>4. /\ c.chains[MatchChain] = blocks /\ c.mempoolUncommitted[MatchChain] = list
      /\ ~c.recovering /\ ~c.panicked
  BY <1>1, <1>3 DEF Builds
<1>5. with \ {tx} = ms
  BY <1>2, <1>3
<1>6. CASE s = MatchChain
  <2>1. d = UndoMatchChainTx(tx, c)
    BY <1>6, UndoOnMatchChain
  <2>2. /\ tx.type = "MATCH" => tx \in with
        /\ tx.type = "CREATE_TOKEN" =>
             \A m \in with : m.BuySymbol # tx.Symbol /\ m.SellSymbol # tx.Symbol
    BY <1>3
  <2> HIDE DEF d, with
  <2>3. /\ Stocked(d) /\ SameMatchChain(c, d)
        /\ ~d.panicked => Tallied(d.cs, with \ {tx})
        /\ \A t \in Symbols : \/ Stays(c, d, t)
                              \/ /\ tx.type = "CREATE_TOKEN" /\ t = tx.Symbol
                                 /\ ~Exists(d.cs, t)
    <3>1. /\ d \in {UndoMatchChainTx(tx, c), UndoMinedMatchTx(tx, c)}
          /\ tx \in TxOn(MatchChain)
      BY <1>6, <2>1
    <3>2. Stocked(c) /\ (~c.panicked => Tallied(c.cs, with))
      BY <1>3
    <3> QED BY ONLY <2>2, <3>1, <3>2, MatchTxUndone
  <2>4. /\ d.chains[MatchChain] = blocks /\ d.mempoolUncommitted[MatchChain] = list
        /\ ~d.recovering
    BY <1>4, <2>3 DEF SameMatchChain
  <2>7. Peopled(d.cs, blocks, list, n)
    <3>1. ASSUME NEW t \in Symbols, ~Exists(d.cs, t)
          PROVE  ~Founds(list, t) /\ \A i \in 1 .. n : ~Founds(blocks[i], t)
      <4>1. CASE Stays(c, d, t)
        BY <1>9, <3>1, <4>1 DEF Stays, Peopled
      <4>2. CASE ~Exists(b.cs, t)
        BY <1>1, <4>2 DEF Peopled
      <4> QED BY <1>3, <2>3, <4>1, <4>2
    <3> HIDE DEF blocks, n, list
    <3> QED BY <1>9, <3>1 DEF Peopled
  <2>5. ~d.panicked => Sound(d, n)
    BY <1>1, <1>5, <2>3, <2>4, <2>7 DEF Sound, ms
  <2>8. Keeps(c, d)
    <3> DEFINE txs == <<tx>>
    <3>1. Len(txs) = 1 /\ txs[1] = tx
      OBVIOUS
    <3> HIDE DEF txs
    <3>2. \A t \in Symbols : Founds(txs, t) <=> tx.type = "CREATE_TOKEN" /\ tx.Symbol = t
      BY <3>1 DEF Founds
    <3>3. Retracts(c, d, txs)
      BY <2>3, <3>2 DEF Retracts
    <3>4. ASSUME NEW t \in Symbols, Founds(txs, t) PROVE ~Created(c, t)
      <4>1. ~Exists(b.cs, t)
        BY <1>3, <3>2, <3>4
      <4>2. ~Created(b, t)
        BY <1>1, <4>1, NotCreated
      <4> QED BY <1>4, <4>2 DEF Created
    <3> QED BY <2>3, <3>3, <3>4, RetractsKeeps
  <2>9. Keeps(b, d)
    BY <1>8, <2>8 DEF Keeps
  <2>6. Loses(b.books, d.books)
    BY <1>3, <2>3, LosesMore DEF Builds, SameMatchChain
  <2> QED BY <2>3, <2>4, <2>5, <2>6, <2>9 DEF Fit, c, d
<1>7. CASE s # MatchChain
  <2>1. s \in Symbols
    BY <1>7, ChainKinds
  <2>2. tx.type \in {"ORDER", "CLAIM_FUNDS", "TRANSFER", "FREEZE"} /\ tx.chain = s
    BY <2>1, OnTokenChain
  <2>3. Exists(c.cs, s)
    <3>1. Exists(b.cs, s)
      BY <2>2 DEF Accepted
    <3> QED BY <1>3, <2>1, <3>1 DEF Builds
  <2>4. Tallied(c.cs, ms)
    BY <1>3, <2>2
  <2>5. Sound(c, n)
    BY <1>1, <1>4, <1>9, <2>4 DEF Sound, ms
  <2>6. Whole(c, 0)
    BY <1>3, <1>4, <2>5 DEF Whole
  <2> HIDE DEF d
  <2>7. Whole(d, 0) /\ KeepsToken(c, d, s)
    <3>1. d \in {UndoTx(tx, c), UndoMinedTx(tx, c)} /\ (c.recovering => Unmatched(c, 0, s, tx))
          /\ (~c.panicked => Exists(c.cs, s)) /\ tx \in TxOn(s)
      BY <1>4, <2>3 DEF d
    <3> QED BY ONLY <2>1, <2>6, <3>1, TokenTxRetracted
  <2>8. Fit(d)
    BY <1>4, <2>7, FitIsWhole DEF KeepsToken
  <2>9. Loses(b.books, d.books)
    BY <1>3, <2>7, LosesMore DEF Builds, KeepsToken
  <2>10. Keeps(b, d)
    BY <1>4, <1>8, <2>7 DEF KeepsToken, Keeps
  <2> QED BY <2>8, <2>9, <2>10 DEF c, d
<1> QED BY <1>6, <1>7

\* AddTransactionToMempool.
LEMMA TxOffered ==
  ASSUME NEW b, Fit(b), ~b.panicked, NEW tx, tx.chain \in Chains, tx \in TxOn(tx.chain)
  PROVE  LET b2 == Settled(Offered(b, tx))
         IN Fit(b2) /\ Loses(b.books, b2.books) /\ Keeps(b, b2)
<1>0. tx.type # "CANCEL_ORDER" /\ b \in Blockchains
  BY DEF TxOn, Fit, Stocked
<1>1. CASE ~Accepted(b.cs, tx)
  <2>1. Offered(b, tx) = [b EXCEPT !.cs = b.cs]
    BY <1>0, <1>1 DEF Offered, AfterRejected
  <2>2. [b EXCEPT !.cs = b.cs] = b
    BY <1>0 DEF Blockchains
  <2> QED BY <2>1, <2>2, SettledFits, LosesNothing, SameChainsKeep
<1>2. CASE Accepted(b.cs, tx) /\ tx.chain = chosen
  <2> DEFINE b2 == [AddTx(b, tx) EXCEPT !.mempoolUncommitted[chosen] = Append(@, tx)]
  <2>1. Offered(b, tx) = b2
    BY <1>0, <1>2 DEF Offered
  <2>2. b2 = [AddTx(b, tx) EXCEPT !.mempoolUncommitted[chosen] = Append(@, tx)]
    OBVIOUS
  <2>3. chosen \in Chains /\ tx \in TxOn(chosen)
    BY <1>2
  <2> HIDE DEF b2
  <2>4. Fit(b2) /\ Loses(b.books, b2.books) /\ Keeps(b, b2)
    BY <1>2, <2>2, <2>3, TxKept
  <2>5. Fit(Settled(b2)) /\ Settled(b2).books = b2.books /\ Keeps(b2, Settled(b2))
    BY <2>4, SettledFits, SameChainsKeep
  <2>6. Keeps(b, Settled(b2))
    BY <2>4, <2>5 DEF Keeps
  <2> QED BY <2>1, <2>4, <2>5, <2>6
<1>3. CASE Accepted(b.cs, tx) /\ tx.chain # chosen
  <2>1. Offered(b, tx) = UndoTx(tx, AddTx(b, tx))
    BY <1>0, <1>3 DEF Offered
  <2> DEFINE s == tx.chain
  <2>2. s \in Chains /\ tx \in TxOn(s)
    OBVIOUS
  <2> HIDE DEF s
  <2> DEFINE b2 == UndoTx(tx, AddTx(b, tx))
  <2>3. Fit(b2) /\ Loses(b.books, b2.books) /\ Keeps(b, b2)
    BY <1>3, <2>2, TxTried
  <2> HIDE DEF b2
  <2>4. Fit(Settled(b2)) /\ Settled(b2).books = b2.books /\ Keeps(b2, Settled(b2))
    BY <2>3, SettledFits, SameChainsKeep
  <2>5. Keeps(b, Settled(b2))
    BY <2>3, <2>4 DEF Keeps
  <2> QED BY <2>1, <2>3, <2>4, <2>5 DEF b2
<1> QED BY <1>1, <1>2, <1>3

-----------------------------------------------------------------------------
\* The recovery.

\* A node that opens its database, with done[s] blocks of each chain applied.  A token
\* that is not there yet has none applied.
Restoring(b, done) ==
  /\ Stocked(b) /\ b.recovering
  /\ \A s \in Chains : b.mempoolUncommitted[s] = <<>>
  /\ done \in [Chains -> Nat]
  /\ \A s \in Chains : done[s] <= Len(b.chains[s])
  /\ ~b.panicked => /\ Sound(b, done[MatchChain])
                    /\ \A s \in Symbols : ~Exists(b.cs, s) => done[s] = 0

\* r is what is added of the next block of s in the database of b.
NextRecovered(b, done, s, txs, r) ==
  /\ Restoring(b, done) /\ ~b.panicked /\ HasChain(b, s)
  /\ done[s] < Len(b.chains[s]) /\ txs = b.chains[s][done[s] + 1]
  /\ r = AddData(b, txs)

\* What is known of it before it is accepted or refused, with ms in force before.
RecoveredTo(b, done, s, txs, r, c, ms) ==
  /\ txs \in Seq(TxOn(s)) /\ done[MatchChain] \in Nat
  /\ OrderlyBlocks(b.chains[MatchChain], done[MatchChain])
  /\ Stocked(c) /\ c.recovering /\ c.chains = b.chains /\ Loses(b.books, c.books)
  /\ \A t \in Chains : c.mempoolUncommitted[t] = <<>>
  /\ \A t \in Symbols : Exists(b.cs, t) => Exists(c.cs, t)
  /\ Added(b, ms, s, r.added) /\ Tallied(c.cs, ms \cup MatchesOf(r.added))
  /\ Present(c, r.added) /\ Peopled(b.cs, b.chains[MatchChain], <<>>, done[MatchChain])
  /\ r.ok /\ ~c.panicked => r.added = txs

\* It is so when AddData is done.
LEMMA RecoveredSoFar ==
  ASSUME NEW b, NEW done, NEW s \in Chains, NEW txs, NEW r, NextRecovered(b, done, s, txs, r),
         NEW c, c = r.bcs
  PROVE  RecoveredTo(b, done, s, txs, r, c, MatchesUpTo(b.chains[MatchChain], done[MatchChain]))
<1> DEFINE n == done[MatchChain]
           ms == MatchesUpTo(b.chains[MatchChain], n)
<1>1. /\ Stocked(b) /\ b.recovering /\ ~b.panicked /\ done \in [Chains -> Nat]
      /\ \A t \in Chains : b.mempoolUncommitted[t] = <<>>
      /\ Sound(b, n) /\ HasChain(b, s) /\ r = AddData(b, txs)
      /\ done[s] < Len(b.chains[s]) /\ txs = b.chains[s][done[s] + 1]
  BY DEF NextRecovered, Restoring
<1>2. n \in Nat /\ MatchChain \in Chains
  BY <1>1, ChainKinds
<1>3. txs \in Seq(TxOn(s))
  <2> DEFINE S == Seq(TxOn(s))  blocks == b.chains[s]  k == done[s] + 1
  <2>1. blocks \in Seq(S)
    BY <1>1 DEF Stocked
  <2>2. k \in Nat /\ 1 <= k /\ k <= Len(blocks) /\ txs = blocks[k]
    BY <1>1
  <2> HIDE DEF S, blocks, k
  <2>3. txs \in S
    BY <2>1, <2>2
  <2> QED BY <2>3 DEF S
<1>4. /\ OrderlyBlocks(b.chains[MatchChain], n) /\ Tallied(b.cs, ms)
      /\ Peopled(b.cs, b.chains[MatchChain], <<>>, n)
  <2>1. b.mempoolUncommitted[MatchChain] = <<>> /\ MatchesOf(<<>>) = {}
    BY <1>1, <1>2 DEF MatchesOf, MatchesIn
  <2>2. ms \cup {} = ms
    OBVIOUS
  <2> QED BY <1>1, <2>1, <2>2 DEF Sound
<1> HIDE DEF ms, n
<1>5. /\ Stocked(r.bcs) /\ Builds(b, r.bcs) /\ Added(b, ms, s, r.added)
      /\ Tallied(r.bcs.cs, ms \cup MatchesOf(r.added)) /\ Present(r.bcs, r.added)
      /\ r.ok /\ ~r.bcs.panicked => r.added = txs
  BY <1>1, <1>3, <1>4, DataAdded
<1>6. /\ r.bcs.recovering /\ r.bcs.chains = b.chains /\ Loses(b.books, r.bcs.books)
      /\ \A t \in Chains : r.bcs.mempoolUncommitted[t] = <<>>
      /\ \A t \in Symbols : Exists(b.cs, t) => Exists(r.bcs.cs, t)
  <2>1. Builds(b, r.bcs)
    BY <1>5
  <2>2. b.recovering /\ \A t \in Chains : b.mempoolUncommitted[t] = <<>>
    BY <1>1
  <2> QED BY ONLY <2>1, <2>2 DEF Builds
<1>7. /\ n \in Nat /\ txs \in Seq(TxOn(s)) /\ OrderlyBlocks(b.chains[MatchChain], n)
      /\ Peopled(b.cs, b.chains[MatchChain], <<>>, n)
  BY <1>2, <1>3, <1>4
<1> QED BY ONLY <1>5, <1>6, <1>7, c = r.bcs DEF RecoveredTo, ms, n

\* The block is accepted, or the code panics.
LEMMA RecoveredAccepted ==
  ASSUME NEW b, NEW done, NEW s \in Chains, NEW txs, NEW r, NextRecovered(b, done, s, txs, r),
         r.ok \/ r.bcs.panicked,
         NEW done2, done2 = IF r.ok THEN [done EXCEPT ![s] = @ + 1] ELSE done
  PROVE  /\ Restoring(r.bcs, done2)
         /\ Loses(b.books, r.bcs.books) /\ Keeps(b, r.bcs)
<1> DEFINE c == r.bcs
           blocks == b.chains[MatchChain]
           n == done[MatchChain]
           ms == MatchesUpTo(blocks, n)
<1>1. /\ done \in [Chains -> Nat] /\ \A t \in Chains : done[t] <= Len(b.chains[t])
      /\ \A t \in Symbols : ~Exists(b.cs, t) => done[t] = 0
      /\ HasChain(b, s) /\ done[s] < Len(b.chains[s]) /\ txs = b.chains[s][done[s] + 1]
  BY DEF NextRecovered, Restoring
<1>2. /\ txs \in Seq(TxOn(s)) /\ n \in Nat /\ OrderlyBlocks(blocks, n)
      /\ Stocked(c) /\ c.recovering /\ c.chains = b.chains /\ Loses(b.books, c.books)
      /\ \A t \in Chains : c.mempoolUncommitted[t] = <<>>
      /\ \A t \in Symbols : Exists(b.cs, t) => Exists(c.cs, t)
      /\ Added(b, ms, s, r.added) /\ Tallied(c.cs, ms \cup MatchesOf(r.added))
      /\ Present(c, r.added) /\ Peopled(b.cs, blocks, <<>>, n)
      /\ r.ok /\ ~c.panicked => r.added = txs
  <2>1. RecoveredTo(b, done, s, txs, r, c, ms)
    <3>1. c = r.bcs /\ ms = MatchesUpTo(b.chains[MatchChain], done[MatchChain])
          /\ NextRecovered(b, done, s, txs, r)
      OBVIOUS
    <3> HIDE DEF c, ms
    <3> QED BY ONLY <3>1, s \in Chains, RecoveredSoFar
  <2> QED BY <2>1 DEF RecoveredTo
<1> HIDE DEF c, ms
<1>3. done2 \in [Chains -> Nat] /\ \A t \in Chains : done2[t] <= Len(c.chains[t])
  <2>1. \A t \in Chains : done[t] \in Nat /\ Len(b.chains[t]) \in Nat
    BY <1>1, <1>2 DEF Stocked
  <2> QED BY <1>1, <1>2, <2>1
<1>4. ASSUME ~c.panicked
      PROVE  Sound(c, done2[MatchChain]) /\ \A t \in Symbols : ~Exists(c.cs, t) => done2[t] = 0
  <2>1. r.ok /\ done2 = [done EXCEPT ![s] = done[s] + 1] /\ r.added = txs
    BY <1>2, <1>4 DEF c
  <2>2. ASSUME NEW t \in Symbols, ~Exists(c.cs, t) PROVE done2[t] = 0
    <3>1. ~Exists(b.cs, t) /\ t # MatchChain
      BY <1>2, <2>2, ChainKinds
    <3>2. t # s
      BY <1>1, <3>1 DEF HasChain
    <3> QED BY <1>1, <2>1, <2>2, <3>1, <3>2
  <2>3. /\ c.mempoolUncommitted[MatchChain] = <<>> /\ MatchesOf(<<>>) = {}
        /\ c.chains[MatchChain] = blocks
    BY <1>2, ChainKinds DEF MatchesOf, MatchesIn
  <2>4. Orderly(ms, txs) /\ Tallied(c.cs, ms \cup MatchesOf(txs))
    BY <1>2, <2>1 DEF Added
  <2>5. CASE s = MatchChain
    <3> DEFINE k == n + 1
    <3>1. k \in Nat /\ k # 0 /\ k - 1 = n /\ done2[MatchChain] = k /\ txs = blocks[k]
      <4>1. done2[MatchChain] = k /\ txs = blocks[k]
        BY <1>1, <2>1, <2>5
      <4> QED BY <1>2, <4>1
    <3>2. MatchesUpTo(blocks, k) = ms \cup MatchesOf(txs)
      <4> HIDE DEF k, n, blocks
      <4> QED BY <3>1, MatchesUpToStep DEF ms
    <3>3. OrderlyBlocks(blocks, k)
      <4>1. \A i \in 1 .. k : i \in 1 .. n \/ i = k
        BY <1>2
      <4>2. Orderly(MatchesUpTo(blocks, k - 1), blocks[k])
        BY <2>4, <3>1 DEF ms
      <4> HIDE DEF k, n, blocks
      <4> QED BY <1>2, <4>1, <4>2 DEF OrderlyBlocks
    <3>4. Orderly(MatchesUpTo(blocks, k), <<>>)
          /\ MatchesUpTo(blocks, k) \cup MatchesOf(<<>>) = ms \cup MatchesOf(txs)
      BY <2>3, <3>2 DEF Orderly
    <3>6. Peopled(c.cs, blocks, <<>>, k)
      <4> HIDE DEF n, blocks
      <4>1. ASSUME NEW t \in Symbols, Founds(txs, t)
            PROVE  Exists(c.cs, t) /\ \A i \in 1 .. n : ~Founds(blocks[i], t)
        <5>1. ~Exists(b.cs, t) /\ Exists(c.cs, t)
          BY <1>2, <2>1, <4>1 DEF Added, Present, Founds, There
        <5> QED BY <1>2, <5>1 DEF Peopled
      <4>2. blocks[n + 1] = txs
        BY <3>1
      <4> QED BY <1>2, <4>1, <4>2, PeopledBlock
    <3> HIDE DEF k
    <3>5. Sound(c, k)
      BY <2>3, <2>4, <3>3, <3>4, <3>6 DEF Sound
    <3> QED BY <2>2, <3>1, <3>5
  <2>6. CASE s # MatchChain
    <3>1. s \in Symbols /\ done2[MatchChain] = n
      BY <1>1, <2>1, <2>6, ChainKinds
    <3>2. MatchesOf(txs) = {}
      BY <1>2, <3>1, NoMatchOnTokenChain
    <3>3. Orderly(ms, <<>>) /\ ms \cup MatchesOf(txs) = ms \cup MatchesOf(<<>>)
      BY <2>3, <3>2 DEF Orderly
    <3>5. Peopled(c.cs, blocks, <<>>, n)
      <4> HIDE DEF n, blocks
      <4> QED BY <1>2, StillPeopled
    <3>4. Sound(c, n)
      BY <1>2, <2>3, <2>4, <3>3, <3>5 DEF Sound, ms
    <3> QED BY <2>2, <3>1, <3>4
  <2> QED BY <2>5, <2>6
<1>5. Restoring(c, done2)
  BY <1>2, <1>3, <1>4 DEF Restoring
<1> QED BY <1>2, <1>5, SameChainsKeep DEF c

\* The block is refused: its transactions are undone, and it is tried again later.
LEMMA RecoveredRefused ==
  ASSUME NEW b, NEW done, NEW s \in Chains, NEW txs, NEW r, NextRecovered(b, done, s, txs, r),
         ~r.bcs.panicked
  PROVE  LET b2 == Settled(UndoMinedTransactions(r.bcs, r.added))
         IN /\ Restoring(b2, done) /\ Loses(b.books, b2.books)
            /\ s # MatchChain => Keeps(b, b2)
<1> DEFINE c == r.bcs
           d == UndoMinedTransactions(c, r.added)
           e == Settled(d)
           blocks == b.chains[MatchChain]
           n == done[MatchChain]
           ms == MatchesUpTo(blocks, n)
<1>1. /\ done \in [Chains -> Nat] /\ \A t \in Chains : done[t] <= Len(b.chains[t])
      /\ \A t \in Symbols : ~Exists(b.cs, t) => done[t] = 0
      /\ HasChain(b, s)
  BY DEF NextRecovered, Restoring
<1>2. /\ n \in Nat /\ OrderlyBlocks(blocks, n)
      /\ Stocked(c) /\ c.recovering /\ c.chains = b.chains /\ ~c.panicked
      /\ Loses(b.books, c.books)
      /\ \A t \in Chains : c.mempoolUncommitted[t] = <<>>
      /\ \A t \in Symbols : Exists(b.cs, t) => Exists(c.cs, t)
      /\ Added(b, ms, s, r.added) /\ Tallied(c.cs, ms \cup MatchesOf(r.added))
      /\ Peopled(b.cs, blocks, <<>>, n)
  <2>1. RecoveredTo(b, done, s, txs, r, c, ms)
    <3>1. c = r.bcs /\ ms = MatchesUpTo(b.chains[MatchChain], done[MatchChain])
          /\ NextRecovered(b, done, s, txs, r)
      OBVIOUS
    <3> HIDE DEF c, ms
    <3> QED BY ONLY <3>1, s \in Chains, RecoveredSoFar
  <2> QED BY <2>1 DEF RecoveredTo
<1> DEFINE added == r.added
<1>3. added \in Seq(TxOn(s)) /\ Orderly(ms, added)
      /\ \A i \in 1 .. Len(added) :
           /\ added[i].type = "ORDER" => /\ MatchesBuying(ms, s, added[i].order.ID) = {}
                                         /\ MatchesSelling(ms, s, added[i].order.ID) = {}
           /\ added[i].type = "CREATE_TOKEN" => ~Exists(b.cs, added[i].Symbol)
  BY <1>2 DEF Added
<1> HIDE DEF c, added, n
<1>11. Peopled(c.cs, blocks, <<>>, n)
  <2> HIDE DEF blocks
  <2> QED BY <1>2, StillPeopled
<1>4. /\ c.mempoolUncommitted[MatchChain] = <<>> /\ MatchesOf(<<>>) = {}
      /\ c.chains[MatchChain] = blocks /\ Orderly(ms, <<>>)
  BY <1>2, ChainKinds DEF MatchesOf, MatchesIn, Orderly
<1>5. /\ Stocked(d) /\ d.recovering /\ Loses(c.books, d.books)
      /\ \A t \in Chains : d.mempoolUncommitted[t] = <<>>
      /\ ~d.panicked => Sound(d, n)
      /\ \A t \in Chains : d.chains[t] = b.chains[t] \/ done[t] = 0
      /\ ~d.panicked => \A t \in Symbols : ~Exists(d.cs, t) => done[t] = 0
      /\ s # MatchChain => d.chains = b.chains
  <2>1. CASE s = MatchChain
    <3>1. d \in {FoldRight(UndoMatchChainTx, added, c), FoldRight(UndoMinedMatchTx, added, c),
                 UndoTransactions(c, added), UndoMinedTransactions(c, added)}
      BY DEF added
    <3>2. /\ added \in Seq(TxOn(MatchChain)) /\ Stocked(c) /\ Orderly(ms, added)
          /\ ~c.panicked => Tallied(c.cs, ms \cup MatchesOf(added))
      BY <1>2, <1>3, <2>1 DEF added
    <3> HIDE DEF d, ms
    <3>3. /\ Stocked(d) /\ SameMatchChain(c, d) /\ Retracts(c, d, added)
          /\ ~d.panicked => Tallied(d.cs, ms)
      BY ONLY <3>1, <3>2, MatchChainUndone
    <3>4. /\ d.chains[MatchChain] = blocks /\ d.recovering /\ Loses(c.books, d.books)
          /\ \A t \in Chains : d.mempoolUncommitted[t] = <<>>
      BY <1>2, <1>4, <3>3 DEF SameMatchChain
    <3>7. Peopled(d.cs, blocks, <<>>, n)
      <4> HIDE DEF blocks
      <4>1. \A t \in Symbols : Founds(added, t) => \A i \in 1 .. n : ~Founds(blocks[i], t)
        BY <1>2, <1>3 DEF Founds, Peopled
      <4> QED BY <1>11, <3>3, <4>1, PeopledRetracted
    <3>5. ~d.panicked => Sound(d, n)
      <4>1. d.mempoolUncommitted[MatchChain] = <<>> /\ ms \cup MatchesOf(<<>>) = ms
        BY <1>4, <3>4, ChainKinds
      <4> QED BY <1>2, <1>4, <3>3, <3>4, <3>7, <4>1 DEF Sound, ms
    <3>6. ASSUME NEW t \in Symbols
          PROVE  /\ d.chains[t] = b.chains[t] \/ done[t] = 0
                 /\ ~Exists(d.cs, t) => done[t] = 0
      <4>1. CASE Stays(c, d, t)
        BY <1>1, <1>2, <4>1 DEF Stays
      <4>2. CASE Founds(added, t)
        BY <1>1, <1>3, <4>2 DEF Founds
      <4> QED BY <3>3, <4>1, <4>2 DEF Retracts
    <3> QED BY <1>4, <2>1, <3>3, <3>4, <3>5, <3>6, ChainKinds
  <2>2. CASE s # MatchChain
    <3>1. s \in Symbols /\ Exists(b.cs, s)
      BY <1>1, <2>2, ChainKinds DEF HasChain
    <3>2. MatchesOf(added) = {} /\ Exists(c.cs, s)
      BY <1>2, <1>3, <3>1, NoMatchOnTokenChain
    <3>3. Sound(c, n)
      <4>1. ms \cup MatchesOf(added) = ms \cup MatchesOf(<<>>)
        BY <1>4, <3>2
      <4> QED BY <1>2, <1>4, <1>11, <4>1 DEF Sound, ms, added
    <3>4. Whole(c, n)
      BY <1>2, <1>4, <3>3 DEF Whole
    <3>5. \A k \in 1 .. Len(added) : Unmatched(c, n, s, added[k])
      BY <1>3, <1>4 DEF Unmatched, ms
    <3> HIDE DEF d, ms
    <3>6. Whole(d, n) /\ KeepsToken(c, d, s)
      <4>1. d \in {UndoTransactions(c, added), UndoMinedTransactions(c, added)}
            /\ (c.recovering => \A k \in 1 .. Len(added) : Unmatched(c, n, s, added[k]))
            /\ (~c.panicked => Exists(c.cs, s)) /\ added \in Seq(TxOn(s))
        BY <1>3, <3>2, <3>5 DEF d, added
      <4> QED BY ONLY <3>1, <3>4, <4>1, TokenTxsRetracted
    <3>7. /\ d.recovering /\ d.chains = c.chains /\ d.mempoolUncommitted = c.mempoolUncommitted
          /\ Loses(c.books, d.books)
          /\ \A t \in Symbols : Exists(d.cs, t) <=> Exists(c.cs, t)
      BY <1>2, <3>6 DEF KeepsToken
    <3> QED BY <1>1, <1>2, <3>6, <3>7 DEF Whole
  <2> QED BY <2>1, <2>2
<1> HIDE DEF d
<1>6. /\ Stocked(e) /\ SameButBooks(d, e) /\ e.panicked = d.panicked
      /\ \A m : Sound(d, m) => Sound(e, m)
  BY <1>5, SettledStocked
<1> HIDE DEF e
<1>7. \A t \in Chains : done[t] <= Len(d.chains[t])
  <2>1. \A t \in Chains : Len(d.chains[t]) \in Nat
    BY <1>5 DEF Stocked
  <2> QED BY <1>1, <1>5, <2>1
<1>8. Restoring(e, done)
  BY <1>1, <1>5, <1>6, <1>7 DEF Restoring, SameButBooks, n
<1>9. Loses(b.books, d.books)
  BY <1>2, <1>5, LosesMore
<1>10. Loses(b.books, e.books)
  BY <1>6, <1>9, LosesMore DEF SameButBooks
<1>12. s # MatchChain => Keeps(b, e)
  BY <1>5, <1>6, SameChainsKeep DEF SameButBooks
<1> QED BY <1>8, <1>10, <1>12 DEF c, d, e

-----------------------------------------------------------------------------
\* The invariant, and the theorems.

\* A running node has chains that fit its ledger, and one that opens its database has
\* applied the first blocks of each chain.
ChainsInv ==
  /\ chosen \in Chains /\ crashes \in 0 .. MaxCrashes
  /\ ~bcs.recovering => Fit(bcs) /\ replayed = [s \in Chains |-> 0]
  /\ bcs.recovering => Restoring(bcs, replayed)

\* A step of a running node that leaves chains that fit keeps the invariant.
LEMMA RunningStep ==
  ASSUME ChainsInv, Running, Fit(bcs'), UNCHANGED <<chosen, replayed, crashes>>
  PROVE  ChainsInv'
<1>1. ~bcs'.recovering
  BY DEF Fit
<1>2. Fit(bcs)'
  BY DEF Fit, Sound, Stocked
<1> QED BY <1>1, <1>2 DEF ChainsInv, Running

\* It holds of a node that starts with its first blocks.
LEMMA ChainsInit ==
  ASSUME NoCancels, NoSelfMatches, Init
  PROVE  ChainsInv
<1>1. Fit(bcs)
  BY StartFits DEF Init
<1>2. chosen \in Chains /\ crashes \in 0 .. MaxCrashes
  BY BlocksAssumption DEF Init
<1>3. replayed = [s \in Chains |-> 0]
  BY DEF Init
<1> QED BY <1>1, <1>2, <1>3 DEF ChainsInv, Fit

\* A step of a node that does not stop.
Works ==
  \/ \E block \in PeerBlocks, fits \in BOOLEAN : AddBlock(block, fits)
  \/ \E s \in Chains, h \in 1 .. MaxHeight : RollbackToHeight(s, h)
  \/ \E tx \in MempoolTxs : AddTransaction(tx)
  \/ RestartMining
  \/ \E s \in Chains : RecoverBlock(s)
  \/ EndRecovery
  \/ UNCHANGED vars

\* A recovery undoes a block of the match chain, as the chains of its orders are not
\* replayed so far.
MatchBlockRefused == RecoverBlock(MatchChain) /\ replayed' = replayed

\* Every such step keeps the invariant, what it does to the books makes them dirty, but
\* for orders that go, and tokens keep their blocks unless a recovery refuses a block
\* of the match chain.
LEMMA WorksStep ==
  ASSUME NoCancels, NoSelfMatches, ChainsInv, Works
  PROVE  ChainsInv' /\ Loses(bcs.books, bcs'.books)
         /\ (MatchBlockRefused \/ Keeps(bcs, bcs'))
<1>1. ASSUME NEW block \in PeerBlocks, NEW fits \in BOOLEAN, AddBlock(block, fits)
      PROVE  ChainsInv' /\ Loses(bcs.books, bcs'.books) /\ Keeps(bcs, bcs')
  <2>1. Running /\ Fit(bcs) /\ ~bcs.panicked /\ HasChain(bcs, block.symbol)
        /\ UNCHANGED <<chosen, replayed, crashes>>
    BY <1>1 DEF AddBlock, Running, ChainsInv
  <2>2. block.symbol \in Chains /\ block.txs \in Seq(TxOn(block.symbol))
    BY BlockTxs
  <2>3. Fit(bcs') /\ Loses(bcs.books, bcs'.books) /\ Keeps(bcs, bcs')
    <3>1. bcs' = Settled(AddBlockTo(ForgetUncommitted(bcs, block.symbol), block, fits))
      BY <1>1 DEF AddBlock
    <3> QED BY ONLY <2>1, <2>2, <3>1, PeerBlockAdded
  <2> QED BY <2>1, <2>3, RunningStep
<1>2. ASSUME NEW s \in Chains, NEW h \in 1 .. MaxHeight, RollbackToHeight(s, h)
      PROVE  ChainsInv' /\ Loses(bcs.books, bcs'.books) /\ Keeps(bcs, bcs')
  <2>1. Running /\ Fit(bcs) /\ ~bcs.panicked /\ HasChain(bcs, s) /\ h < bcs.height[s]
        /\ UNCHANGED <<chosen, replayed, crashes>>
    BY <1>2 DEF RollbackToHeight, Running, ChainsInv
  <2>2. Fit(bcs') /\ Loses(bcs.books, bcs'.books) /\ Keeps(bcs, bcs')
    <3>1. bcs' = Settled(RollbackBlocks(ForgetUncommitted(bcs, s), s, bcs.height[s] - h))
      BY <1>2 DEF RollbackToHeight
    <3>2. h \in Nat /\ h # 0
      BY BlocksAssumption
    <3> QED BY ONLY <2>1, <3>1, <3>2, s \in Chains, RolledBackToHeight
  <2> QED BY <2>1, <2>2, RunningStep
<1>3. ASSUME NEW tx \in MempoolTxs, AddTransaction(tx)
      PROVE  ChainsInv' /\ Loses(bcs.books, bcs'.books) /\ Keeps(bcs, bcs')
  <2>1. Running /\ Fit(bcs) /\ ~bcs.panicked /\ UNCHANGED <<chosen, replayed, crashes>>
    BY <1>3 DEF AddTransaction, Running, ChainsInv
  <2>2. tx.chain \in Chains /\ tx \in TxOn(tx.chain)
    BY OfferedTx
  <2>3. Fit(bcs') /\ Loses(bcs.books, bcs'.books) /\ Keeps(bcs, bcs')
    <3>1. bcs' = Settled(Offered(bcs, tx))
      BY <1>3 DEF AddTransaction
    <3> QED BY ONLY <2>1, <2>2, <3>1, TxOffered
  <2> QED BY <2>1, <2>3, RunningStep
<1>4. CASE RestartMining
  <2>1. Running /\ Fit(bcs) /\ ~bcs.panicked /\ HasChain(bcs, chosen) /\ chosen \in Chains
        /\ UNCHANGED <<chosen, replayed, crashes>>
    BY <1>4 DEF RestartMining, Running, ChainsInv
  <2>2. Fit(bcs') /\ Loses(bcs.books, bcs'.books) /\ Keeps(bcs, bcs')
    <3>1. bcs' = Settled(ForgetUncommitted(bcs, chosen))
      BY <1>4 DEF RestartMining
    <3> QED BY ONLY <2>1, <3>1, MiningRestarted
  <2> QED BY <2>1, <2>2, RunningStep
<1>5. ASSUME NEW s \in Chains, RecoverBlock(s)
      PROVE  ChainsInv' /\ Loses(bcs.books, bcs'.books) /\ (MatchBlockRefused \/ Keeps(bcs, bcs'))
  <2> DEFINE txs == bcs.chains[s][replayed[s] + 1]
             r == AddData(bcs, txs)
  <2>1. /\ Restoring(bcs, replayed) /\ ~bcs.panicked /\ HasChain(bcs, s)
        /\ replayed[s] < Len(bcs.chains[s])
    BY <1>5 DEF RecoverBlock, ChainsInv
  <2>2. NextRecovered(bcs, replayed, s, txs, r)
    BY <2>1 DEF NextRecovered
  <2>3. /\ bcs' = IF r.ok \/ r.bcs.panicked THEN r.bcs
                  ELSE Settled(UndoMinedTransactions(r.bcs, r.added))
        /\ replayed' = IF r.ok THEN [replayed EXCEPT ![s] = @ + 1] ELSE replayed
        /\ chosen' \in Chains /\ crashes' \in 0 .. MaxCrashes
    BY <1>5 DEF RecoverBlock, ChainsInv
  <2> HIDE DEF txs, r
  <2>4. /\ Restoring(bcs', replayed') /\ Loses(bcs.books, bcs'.books)
        /\ Keeps(bcs, bcs') \/ (s = MatchChain /\ replayed' = replayed)
    <3>1. CASE r.ok \/ r.bcs.panicked
      <4>1. replayed' = IF r.ok THEN [replayed EXCEPT ![s] = @ + 1] ELSE replayed
        BY <2>3
      <4>2. /\ Restoring(r.bcs, replayed') /\ Loses(bcs.books, r.bcs.books)
            /\ Keeps(bcs, r.bcs)
        BY ONLY <2>2, <3>1, <4>1, s \in Chains, RecoveredAccepted
      <4> QED BY <2>3, <3>1, <4>2
    <3>2. CASE ~r.ok /\ ~r.bcs.panicked
      <4>1. LET b2 == Settled(UndoMinedTransactions(r.bcs, r.added))
            IN /\ Restoring(b2, replayed) /\ Loses(bcs.books, b2.books)
               /\ s # MatchChain => Keeps(bcs, b2)
        BY ONLY <2>2, <3>2, s \in Chains, RecoveredRefused
      <4> QED BY <2>3, <3>2, <4>1
    <3> QED BY <3>1, <3>2
  <2>5. Restoring(bcs, replayed)'
    BY <2>4 DEF Restoring, Sound, Stocked
  <2>6. bcs'.recovering
    BY <2>4 DEF Restoring
  <2>7. MatchBlockRefused \/ Keeps(bcs, bcs')
    BY <1>5, <2>4 DEF MatchBlockRefused
  <2> QED BY <2>3, <2>4, <2>5, <2>6, <2>7 DEF ChainsInv
<1>6. CASE EndRecovery
  <2>1. /\ Restoring(bcs, replayed) /\ ~bcs.panicked
        /\ replayed[MatchChain] = Len(bcs.chains[MatchChain])
    BY <1>6, ChainKinds DEF EndRecovery, ChainsInv, HasChain
  <2>2. /\ bcs' = [bcs EXCEPT !.recovering = FALSE] /\ replayed' = [s \in Chains |-> 0]
        /\ chosen' \in Chains /\ crashes' \in 0 .. MaxCrashes
    BY <1>6 DEF EndRecovery, ChainsInv
  <2>3. /\ bcs' \in Blockchains /\ ~bcs'.recovering
        /\ bcs'.cs = bcs.cs /\ bcs'.chains = bcs.chains /\ bcs'.height = bcs.height
        /\ bcs'.mempoolUncommitted = bcs.mempoolUncommitted
        /\ bcs'.books = bcs.books
    BY <2>1, <2>2 DEF Restoring, Stocked, Blockchains
  <2>4. Stocked(bcs')
    BY <2>1, <2>3 DEF Restoring, Stocked
  <2>5. Sound(bcs', Len(bcs'.chains[MatchChain]))
    BY <2>1, <2>3 DEF Restoring, Sound
  <2>6. Fit(bcs')
    BY <2>3, <2>4, <2>5 DEF Fit
  <2>7. Fit(bcs)'
    BY <2>6 DEF Fit, Sound, Stocked
  <2> QED BY <2>2, <2>3, <2>7, LosesNothing, SameChainsKeep DEF ChainsInv
<1>7. CASE UNCHANGED vars
  <2>1. bcs' = bcs /\ chosen' = chosen /\ replayed' = replayed /\ crashes' = crashes
    BY <1>7 DEF vars
  <2>2. ChainsInv'
    BY <2>1 DEF ChainsInv, Fit, Restoring, Sound, Stocked
  <2> QED BY <2>1, <2>2, LosesNothing, SameChainsKeep
<1> QED BY <1>1, <1>2, <1>3, <1>4, <1>5, <1>6, <1>7 DEF Works

\* A node that stops, or stops again while it recovers, has its blocks to apply.
LEMMA RestartStep ==
  ASSUME ChainsInv, Restart
  PROVE  ChainsInv' /\ Keeps(bcs, bcs')
<1>1. Stocked(bcs)
  BY DEF ChainsInv, Fit, Restoring
<1>2. bcs' = Opened(bcs.chains, TRUE) /\ replayed' = [s \in Chains |-> 0]
      /\ chosen' \in Chains /\ crashes' \in 0 .. MaxCrashes
  BY BlocksAssumption DEF Restart, ChainsInv
<1>3. /\ Stocked(bcs') /\ Sound(bcs', 0) /\ ~bcs'.panicked /\ bcs'.recovering
      /\ bcs'.chains = bcs.chains
      /\ \A s \in Chains : bcs'.mempoolUncommitted[s] = <<>>
      /\ \A s \in Symbols : ~Exists(bcs'.cs, s)
  <2> DEFINE chains == bcs.chains
  <2>1. chains \in [Chains -> Seq(Block)] /\ \A s \in Chains : chains[s] \in Seq(Seq(TxOn(s)))
    BY <1>1 DEF Stocked, Blockchains
  <2>2. bcs' = Opened(chains, TRUE)
    BY <1>2
  <2> HIDE DEF chains
  <2>3. /\ Stocked(bcs') /\ Sound(bcs', 0) /\ ~bcs'.panicked /\ bcs'.chains = chains
        /\ bcs'.recovering /\ \A s \in Chains : bcs'.mempoolUncommitted[s] = <<>>
        /\ \A s \in Symbols : ~Exists(bcs'.cs, s)
    BY <2>1, <2>2, OpenedStocked
  <2> QED BY <2>3 DEF chains
<1>4. Restoring(bcs', replayed')
  <2>1. \A s \in Chains : Len(bcs'.chains[s]) \in Nat /\ replayed'[s] = 0
    <3>1. \A s \in Chains : Len(bcs'.chains[s]) \in Nat
      <4>1. bcs' \in Blockchains
        BY <1>3 DEF Stocked
      <4>2. \A s \in Chains : bcs'.chains[s] \in Seq(Block)
        BY <4>1 DEF Blockchains
      <4> QED BY <4>2
    <3> QED BY <1>2, <3>1
  <2>2. replayed' \in [Chains -> Nat] /\ \A s \in Symbols : replayed'[s] = 0
    BY <1>2, ChainKinds
  <2>3. replayed'[MatchChain] = 0
    BY <2>1, ChainKinds
  <2> QED BY <1>3, <2>1, <2>2, <2>3 DEF Restoring
<1>5. Restoring(bcs, replayed)'
  BY <1>4 DEF Restoring, Sound, Stocked
<1> QED BY <1>2, <1>3, <1>5, SameChainsKeep DEF ChainsInv

\* Every operation keeps it.
LEMMA ChainsStep ==
  ASSUME NoCancels, NoSelfMatches, ChainsInv, [Next]_vars
  PROVE  ChainsInv'
<1>1. CASE Works
  BY <1>1, WorksStep
<1>2. CASE Restart
  BY <1>2, RestartStep
<1> QED BY <1>1, <1>2 DEF Next, Works

\* The types are part of it.
LEMMA ChainsTyped ==
  ASSUME ChainsInv
  PROVE  TypeOK
<1>1. CASE ~bcs.recovering
  <2>1. bcs \in Blockchains /\ replayed = [s \in Chains |-> 0]
    BY <1>1 DEF ChainsInv, Fit, Stocked
  <2>2. \A s \in Chains : Len(bcs.chains[s]) \in Nat
    BY <2>1 DEF Blockchains
  <2> QED BY <2>1, <2>2 DEF TypeOK, ChainsInv
<1>2. CASE bcs.recovering
  BY <1>2 DEF ChainsInv, Restoring, Stocked, TypeOK
<1> QED BY <1>1, <1>2

\* The matches among the transactions of the match chain and its list are those in
\* force.
LEMMA MatchesInForce ==
  ASSUME Stocked(bcs)
  PROVE  Matches = MatchesUpTo(bcs.chains[MatchChain], Len(bcs.chains[MatchChain]))
                     \cup MatchesOf(bcs.mempoolUncommitted[MatchChain])
<1> DEFINE blocks == bcs.chains[MatchChain]
           list == bcs.mempoolUncommitted[MatchChain]
           T == TxOn(MatchChain)
<1>1. blocks \in Seq(Seq(T)) /\ list \in Seq(T)
  BY ChainKinds DEF Stocked
<1> HIDE DEF blocks, list, T
<1>2. ASSUME NEW txs \in Seq(T)
      PROVE  {tx \in ToSet(txs) : tx.type = "MATCH"} = MatchesOf(txs)
  BY DEF ToSet, MatchesOf, MatchesIn
<1>3. ToSet(blocks) = {blocks[i] : i \in 1 .. Len(blocks)}
      /\ \A i \in 1 .. Len(blocks) : blocks[i] \in Seq(T)
  BY <1>1 DEF ToSet
<1>4. {tx \in UNION {ToSet(block) : block \in ToSet(blocks)} : tx.type = "MATCH"}
        = MatchesUpTo(blocks, Len(blocks))
  <2>1. \A i \in 1 .. Len(blocks) :
          {tx \in ToSet(blocks[i]) : tx.type = "MATCH"} = MatchesOf(blocks[i])
    BY <1>2, <1>3
  <2> QED BY <1>3, <2>1 DEF MatchesUpTo
<1>5. Matches = {tx \in UNION {ToSet(block) : block \in ToSet(blocks)} : tx.type = "MATCH"}
                  \cup {tx \in ToSet(list) : tx.type = "MATCH"}
  <2> DEFINE A == UNION {ToSet(block) : block \in ToSet(blocks)}
  <2>1. TxsOf(MatchChain) = A \cup ToSet(list)
    BY DEF TxsOf, blocks, list
  <2> HIDE DEF A
  <2>2. Matches = {tx \in A : tx.type = "MATCH"} \cup {tx \in ToSet(list) : tx.type = "MATCH"}
    BY <2>1 DEF Matches
  <2> QED BY ONLY <2>2 DEF A
<1> QED BY <1>1, <1>2, <1>4, <1>5 DEF blocks, list

\* Of the ledger of a running node it says that the matches in force are counted.
LEMMA ChainsKnowMatches ==
  ASSUME ChainsInv
  PROVE  OrdersKnowTheirMatches
<1> SUFFICES ASSUME Running
             PROVE  /\ CountedIn(bcs.cs, Matches)
                    /\ \A m \in Matches : /\ Updates(bcs, m.BuySymbol, m.BuyOrderID) # None
                                          /\ Updates(bcs, m.SellSymbol, m.SellOrderID) # None
  BY DEF OrdersKnowTheirMatches
<1>1. Stocked(bcs) /\ Sound(bcs, Len(bcs.chains[MatchChain]))
  BY DEF Running, ChainsInv, Fit
<1>2. Tallied(bcs.cs, Matches)
  <2>1. Matches = MatchesUpTo(bcs.chains[MatchChain], Len(bcs.chains[MatchChain]))
                    \cup MatchesOf(bcs.mempoolUncommitted[MatchChain])
    BY <1>1, MatchesInForce
  <2> QED BY <1>1, <2>1 DEF Sound
<1>3. CountedIn(bcs.cs, Matches) /\ KnownIn(bcs.cs, Matches)
  BY <1>2 DEF Tallied
<1> QED BY <1>3 DEF KnownIn, Updates

\* The ledger of a node is a ledger, its chains are chains, and no more blocks are
\* applied again than there are, whatever blocks and transactions come and wherever
\* the node stops.
THEOREM ChainsTypeCorrect ==
  ASSUME NoCancels, NoSelfMatches
  PROVE  Spec => []TypeOK
<1>1. Init => ChainsInv
  BY ChainsInit
<1>2. ChainsInv /\ [Next]_vars => ChainsInv'
  BY ChainsStep
<1>3. ChainsInv => TypeOK
  BY ChainsTyped
<1> QED BY <1>1, <1>2, <1>3, PTL DEF Spec

\* The counter of each order is the number of matches in force on it, on the match
\* chain or waiting for it, after any blocks, rollbacks across chains, refused blocks
\* and restarts; the orders of those matches are there.
THEOREM ChainsCountMatches ==
  ASSUME NoCancels, NoSelfMatches
  PROVE  Spec => []OrdersKnowTheirMatches
<1>1. Init => ChainsInv
  BY ChainsInit
<1>2. ChainsInv /\ [Next]_vars => ChainsInv'
  BY ChainsStep
<1>3. ChainsInv => OrdersKnowTheirMatches
  BY ChainsKnowMatches
<1> QED BY <1>1, <1>2, <1>3, PTL DEF Spec

\* A token that the match chain creates is one that a transaction of a block creates.
LEMMA CreatedOnChain ==
  ASSUME NEW b, Stocked(b), NEW t
  PROVE  Creates(b.chains, t) <=> Created(b, t)
<1> DEFINE blocks == b.chains[MatchChain]
<1>1. blocks \in Seq(Seq(TxOn(MatchChain)))
  BY ChainKinds DEF Stocked
<1> HIDE DEF blocks
<1>2. /\ DOMAIN blocks = 1 .. Len(blocks)
      /\ \A i \in 1 .. Len(blocks) : DOMAIN blocks[i] = 1 .. Len(blocks[i])
  BY <1>1
<1>3. Creates(b.chains, t) <=> \E i \in DOMAIN blocks : \E k \in DOMAIN blocks[i] :
                                 blocks[i][k].type = "CREATE_TOKEN" /\ blocks[i][k].Symbol = t
  BY DEF Creates, ToSet, blocks
<1> QED BY <1>2, <1>3 DEF Created, Founds, blocks

\* A step keeps the blocks of the tokens, or refuses a block of the match chain while the
\* node recovers.
LEMMA TokensKeptStep ==
  ASSUME NoCancels, NoSelfMatches, ChainsInv, [Next]_vars
  PROVE  MatchBlockRefused \/ TokensKeepBlocks
<1>1. ChainsInv' /\ (MatchBlockRefused \/ Keeps(bcs, bcs'))
  <2>1. CASE Works
    BY <2>1, WorksStep
  <2>2. CASE Restart
    BY <2>2, RestartStep
  <2> QED BY <2>1, <2>2 DEF Next, Works
<1>2. Stocked(bcs) /\ Stocked(bcs')
  <2>1. Stocked(bcs)
    BY DEF ChainsInv, Fit, Restoring
  <2>2. Stocked(bcs)'
    BY <1>1 DEF ChainsInv, Fit, Restoring
  <2> QED BY <2>1, <2>2 DEF Stocked
<1>3. CASE Keeps(bcs, bcs')
  <2> SUFFICES ASSUME NEW s \in Symbols, Creates(bcs.chains, s), Creates(bcs'.chains, s),
                      bcs.chains[s] # <<>>
               PROVE  bcs'.chains[s] # <<>>
    BY DEF TokensKeepBlocks
  <2>1. Created(bcs', s)
    BY <1>2, CreatedOnChain
  <2>2. Kept(bcs', s)
    BY <1>3 DEF Keeps, Kept
  <2> QED BY <2>1, <2>2 DEF Kept
<1> QED BY <1>1, <1>3

\* A token has blocks in the database as long as the match chain has the block that
\* created it: through any blocks, refused ones too, forks with their cascades, stops and
\* recoveries.  The one step that can lose them is that of a recovery which refuses
\* a block of the match chain and undoes the creation in it (RemoveTokenChain).
THEOREM TokensKeepTheirBlocks ==
  ASSUME NoCancels, NoSelfMatches
  PROVE  /\ Spec => [][MatchBlockRefused \/ TokensKeepBlocks]_vars
         /\ Spec /\ [][~MatchBlockRefused]_vars => TokenChainKept
<1>1. Init => ChainsInv
  BY ChainsInit
<1>2. ChainsInv /\ [Next]_vars => ChainsInv'
  BY ChainsStep
<1>3. ChainsInv /\ [Next]_vars => MatchBlockRefused \/ TokensKeepBlocks
  BY TokensKeptStep
<1> QED BY <1>1, <1>2, <1>3, PTL DEF Spec, TokenChainKept

=============================================================================
