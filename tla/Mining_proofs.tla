------------------------------ MODULE Mining_proofs ------------------------------
(***************************************************************************)
(* Without peers, no block ever holds a transaction of another chain, for  *)
(* every value of the constants, any number of goroutines and any delay of *)
(* the messages between them.  The miner itself only looks at the type of  *)
(* a transaction and at the round of its message, which was read when the  *)
(* transaction was validated.                                              *)
(*                                                                         *)
(* One of the miner, ApplyLoop and the channels between them has the turn  *)
(* (Turn): a block is mined, or it is finished, or ApplyLoop is about to   *)
(* start another, or the message that does is on its way.  So the chosen   *)
(* token does not change while the miner works for it, and a message of    *)
(* the miner's round is of the token of its block (Timely); one that was   *)
(* stamped before the token changed is of an earlier round as soon as the  *)
(* miner has a block again.                                                *)
(*                                                                         *)
(* A block is added without a look at what undoing the rest of the list    *)
(* does, so that the ledger may be any; what the operations do to chains   *)
(* and lists does not depend on it (Shaped).                               *)
(***************************************************************************)
EXTENDS Mining, Blockchains_proofs

\* Nothing of a block or rollback of a peer.
NoPeers == MaxPeerSteps = 0

-----------------------------------------------------------------------------
\* What becomes of chains and lists, whatever the ledger is.

\* The transactions of the chain s.
OwnTx(s) == {tx \in Transaction : tx.chain = s}

\* The fields of a Blockchains.
Fields == {"cs", "chains", "height", "mempoolUncommitted", "books", "recovering",
           "panicked", "cascades"}

\* Chains of blocks that are their own, and lists.
Shaped(b) ==
  /\ DOMAIN b = Fields
  /\ b.chains \in [Chains -> Seq(Block)]
  /\ \A s \in Chains : b.chains[s] \in Seq(Seq(OwnTx(s)))
  /\ b.mempoolUncommitted \in [Chains -> Seq(Transaction)]

\* ... with the match chain as long as it was.
ShapedOn(b, b2) == Shaped(b2) /\ Len(b2.chains[MatchChain]) = Len(b.chains[MatchChain])

\* The chains there are.
LEMMA TheChains == MatchChain \in Chains /\ Symbols \subseteq Chains /\ MatchChain \notin Symbols
BY BlocksAssumption DEF Chains

\* Only chains and lists are looked at.
LEMMA SameShape ==
  ASSUME NEW b, Shaped(b), NEW b2, DOMAIN b2 = Fields, b2.chains = b.chains,
         b2.mempoolUncommitted \in [Chains -> Seq(Transaction)]
  PROVE  ShapedOn(b, b2)
BY DEF Shaped, ShapedOn

\* One field replaced.
LEMMA FieldReplaced ==
  ASSUME NEW b, Shaped(b), NEW v
  PROVE  /\ ShapedOn(b, [b EXCEPT !.cs = v]) /\ [b EXCEPT !.cs = v].chains = b.chains
         /\ ShapedOn(b, [b EXCEPT !.books = v]) /\ [b EXCEPT !.books = v].chains = b.chains
         /\ ShapedOn(b, [b EXCEPT !.panicked = v]) /\ [b EXCEPT !.panicked = v].chains = b.chains
         /\ ShapedOn(b, [b EXCEPT !.cascades = v]) /\ [b EXCEPT !.cascades = v].chains = b.chains
BY DEF Shaped, ShapedOn, Fields

\* A chain replaced, and whatever of the rest.
LEMMA ChainReplaced ==
  ASSUME NEW b, Shaped(b), NEW s \in Chains, NEW b2, DOMAIN b2 = Fields,
         b2.chains = [t \in Chains |-> b2.chains[t]],
         b2.chains[s] \in Seq(Seq(OwnTx(s))),
         \A t \in Chains : t # s => b2.chains[t] = b.chains[t],
         b2.mempoolUncommitted \in [Chains -> Seq(Transaction)]
  PROVE  Shaped(b2) /\ (s # MatchChain => ShapedOn(b, b2))
<1>1. \A t \in Chains : b2.chains[t] \in Seq(Seq(OwnTx(t)))
  BY DEF Shaped
<1>2. \A t \in Chains : b2.chains[t] \in Seq(Block)
  <2> SUFFICES ASSUME NEW t \in Chains PROVE b2.chains[t] \in Seq(Block)
    OBVIOUS
  <2>1. Seq(OwnTx(t)) \subseteq Block
    BY DEF OwnTx, Block
  <2> QED BY <1>1, <2>1
<1>3. Shaped(b2)
  BY <1>1, <1>2 DEF Shaped
<1> QED BY <1>3, TheChains DEF ShapedOn

\* A transaction that creates a token.
LEMMA CreatesToken ==
  ASSUME NEW tx \in Transaction, tx.type = "CREATE_TOKEN"
  PROVE  tx \in CreateTx /\ tx.Symbol \in Symbols
BY DEF Transaction, TokenTx, OrderTx, ClaimTx, TransferTx, FreezeTx, MatchTx, CreateTx, CancelTx

\* The chain of a token goes, with its list.
LEMMA TokenChainRemovedShaped ==
  ASSUME NEW b, Shaped(b), NEW s \in Symbols
  PROVE  ShapedOn(b, RemoveTokenChain(b, s))
<1> DEFINE c == RemoveTokenChain(b, s)
           lists == [b.mempoolUncommitted EXCEPT ![s] = <<>>]
<1>1. /\ DOMAIN c = Fields
      /\ c.chains = [b.chains EXCEPT ![s] = <<>>]
      /\ c.mempoolUncommitted = lists
  BY DEF RemoveTokenChain, Fields, Shaped
<1>2. lists \in [Chains -> Seq(Transaction)] /\ s \in Chains /\ s # MatchChain
  BY TheChains DEF Shaped
<1> HIDE DEF c, lists
<1>3. /\ c.chains = [t \in Chains |-> c.chains[t]]
      /\ c.chains[s] = <<>>
      /\ \A t \in Chains : t # s => c.chains[t] = b.chains[t]
  BY <1>1, <1>2 DEF Shaped
<1>4. c.mempoolUncommitted \in [Chains -> Seq(Transaction)] /\ <<>> \in Seq(Seq(OwnTx(s)))
  BY <1>1, <1>2
<1> QED BY <1>1, <1>2, <1>3, <1>4, ChainReplaced DEF c

\* The chain of a token is opened, with its genesis block if it has none.
LEMMA TokenChainAddedShaped ==
  ASSUME NEW b, Shaped(b), NEW t \in CreateTx
  PROVE  ShapedOn(b, AddTokenChain(b, t))
<1> DEFINE s == t.Symbol  g == TokenGenesis(t)
<1>1. s \in Symbols /\ g \in OwnTx(s)
  BY GenesisOnChain DEF TxOn, OwnTx
<1>2. s \in Chains /\ s # MatchChain
  BY <1>1, TheChains
<1> DEFINE c == AddTokenChain(b, t)
           lists == [b.mempoolUncommitted EXCEPT ![s] = <<>>]
<1>3. lists \in [Chains -> Seq(Transaction)]
  <2> HIDE DEF s, g, c
  <2> QED BY <1>2 DEF Shaped
<1>4. /\ DOMAIN c = Fields
      /\ c.chains = b.chains \/ c.chains = [b.chains EXCEPT ![s] = <<<<g>>>>]
      /\ c.mempoolUncommitted = lists
  BY DEF AddTokenChain, Fields, Shaped
<1>5. <<<<g>>>> \in Seq(Seq(OwnTx(s)))
  BY <1>1
<1> HIDE DEF c, s, g, lists
<1>6. CASE c.chains = b.chains
  BY <1>3, <1>4, <1>6, SameShape DEF c
<1>7. CASE c.chains = [b.chains EXCEPT ![s] = <<<<g>>>>]
  <2>1. c.mempoolUncommitted \in [Chains -> Seq(Transaction)]
    BY <1>3, <1>4
  <2>2. /\ c.chains = [u \in Chains |-> c.chains[u]]
        /\ c.chains[s] \in Seq(Seq(OwnTx(s)))
        /\ \A u \in Chains : u # s => c.chains[u] = b.chains[u]
    BY <1>2, <1>5, <1>7 DEF Shaped
  <2> QED BY <1>2, <1>4, <2>1, <2>2, ChainReplaced DEF c
<1> QED BY <1>4, <1>6, <1>7

\* A transaction is applied.
LEMMA TxAddedShaped ==
  ASSUME NEW b, Shaped(b), NEW tx \in Transaction
  PROVE  ShapedOn(b, AddTx(b, tx))
<1>1. CASE tx.type = "CREATE_TOKEN"
  BY <1>1, CreatesToken, TokenChainAddedShaped DEF AddTx
<1>2. CASE tx.type # "CREATE_TOKEN"
  BY <1>2, FieldReplaced DEF AddTx
<1> QED BY <1>1, <1>2

\* The matcher keeps to its books, or panics.
LEMMA BookedShaped ==
  ASSUME NEW b, Shaped(b), NEW tx
  PROVE  ShapedOn(b, IntoBooks(b, tx)) /\ IntoBooks(b, tx).chains = b.chains
<1>1. /\ DOMAIN IntoBooks(b, tx) = DOMAIN b
      /\ IntoBooks(b, tx).chains = b.chains
      /\ IntoBooks(b, tx).mempoolUncommitted = b.mempoolUncommitted
  BY DEF IntoBooks, Panic, Shaped, Fields
<1> QED BY <1>1, SameShape DEF Shaped

\* The same for what it takes out.
LEMMA UnbookedShaped ==
  ASSUME NEW undone, Shaped(undone), NEW tx, NEW b
  PROVE  /\ ShapedOn(undone, OutOfBooks(undone, tx, b))
         /\ OutOfBooks(undone, tx, b).chains = undone.chains
<1> DEFINE c == OutOfBooks(undone, tx, b)
<1>1. /\ DOMAIN c = DOMAIN undone
      /\ c.chains = undone.chains
      /\ c.mempoolUncommitted = undone.mempoolUncommitted
  BY DEF OutOfBooks, Shaped, Fields
<1> HIDE DEF c
<1> QED BY <1>1, SameShape DEF Shaped, c

\* ShapedOn goes from step to step.
LEMMA ShapedMore ==
  ASSUME NEW b, NEW c, NEW d, ShapedOn(b, c), ShapedOn(c, d)
  PROVE  ShapedOn(b, d)
BY DEF ShapedOn

\* A panic.
LEMMA PanicShaped ==
  ASSUME NEW b, Shaped(b)
  PROVE  ShapedOn(b, Panic(b)) /\ Panic(b).chains = b.chains
BY FieldReplaced DEF Panic

\* A transaction of the match chain is undone.
LEMMA MatchChainTxUndoneShaped ==
  ASSUME NEW b, Shaped(b), NEW tx \in Transaction
  PROVE  ShapedOn(b, UndoMatchChainTx(tx, b)) /\ ShapedOn(b, UndoMinedMatchTx(tx, b))
<1>1. ShapedOn(b, UndoMatchChainTx(tx, b))
  <2>1. CASE b.panicked
    BY <2>1 DEF UndoMatchChainTx, ShapedOn
  <2>2. CASE ~b.panicked /\ ~Undoable(b.cs, tx)
    BY <2>2, PanicShaped DEF UndoMatchChainTx
  <2>3. CASE ~b.panicked /\ Undoable(b.cs, tx) /\ tx.type = "CREATE_TOKEN"
    BY <2>3, CreatesToken, TokenChainRemovedShaped DEF UndoMatchChainTx
  <2>4. CASE ~b.panicked /\ Undoable(b.cs, tx) /\ tx.type # "CREATE_TOKEN"
    BY <2>4, FieldReplaced DEF UndoMatchChainTx
  <2> QED BY <2>1, <2>2, <2>3, <2>4
<1>2. Shaped(UndoMatchChainTx(tx, b))
  BY <1>1 DEF ShapedOn
<1>3. ShapedOn(UndoMatchChainTx(tx, b), UndoMinedMatchTx(tx, b))
  BY <1>2, UnbookedShaped DEF UndoMinedMatchTx
<1> QED BY <1>1, <1>3, ShapedMore

\* A list or a block of the match chain is undone.
LEMMA MatchChainTxsUndoneShaped ==
  ASSUME NEW b, Shaped(b), NEW txs \in Seq(Transaction)
  PROVE  /\ ShapedOn(b, FoldRight(UndoMatchChainTx, txs, b))
         /\ ShapedOn(b, FoldRight(UndoMinedMatchTx, txs, b))
<1> DEFINE n == Len(txs)
<1>0. n \in Nat /\ \A k \in 1 .. n : txs[k] \in Transaction
  OBVIOUS
<1>1. ASSUME NEW g, g[n] = b,
             \A k \in 1 .. n : \/ g[k - 1] = UndoMatchChainTx(txs[k], g[k])
                               \/ g[k - 1] = UndoMinedMatchTx(txs[k], g[k])
      PROVE  ShapedOn(b, g[0])
  <2> DEFINE N == {k \in 0 .. n : ShapedOn(b, g[k])}
  <2>1. n \in N
    BY <1>0, <1>1 DEF ShapedOn
  <2>2. ASSUME NEW k \in 1 .. n, k \in N
        PROVE  k - 1 \in N
    <3>1. ShapedOn(b, g[k]) /\ Shaped(g[k])
      BY <2>2 DEF ShapedOn
    <3>2. ShapedOn(g[k], g[k - 1])
      BY <1>0, <1>1, <3>1, MatchChainTxUndoneShaped
    <3>3. ShapedOn(b, g[k - 1])
      BY <3>1, <3>2, ShapedMore
    <3> QED BY <1>0, <3>3
  <2>3. 0 \in N
    <3> HIDE DEF N, n
    <3> QED BY <1>0, <2>1, <2>2, Adding!InductDownTo
  <2> QED BY <2>3
<1>2. ShapedOn(b, FoldRight(UndoMatchChainTx, txs, b))
  <2>1. PICK g : UndoingMatchTxs!RightSteps(txs, b, g)
                 /\ FoldRight(UndoMatchChainTx, txs, b) = g[0]
    BY UndoMatchTxsSteps
  <2>2. g[n] = b /\ \A k \in 1 .. n : g[k - 1] = UndoMatchChainTx(txs[k], g[k])
    BY <2>1 DEF UndoingMatchTxs!RightSteps
  <2> QED BY <1>1, <2>1, <2>2
<1>3. ShapedOn(b, FoldRight(UndoMinedMatchTx, txs, b))
  <2>1. PICK g : UndoingMinedMatchTxs!RightSteps(txs, b, g)
                 /\ FoldRight(UndoMinedMatchTx, txs, b) = g[0]
    BY UndoMinedMatchTxsSteps
  <2>2. g[n] = b /\ \A k \in 1 .. n : g[k - 1] = UndoMinedMatchTx(txs[k], g[k])
    BY <2>1 DEF UndoingMinedMatchTxs!RightSteps
  <2> QED BY <1>1, <2>1, <2>2
<1> QED BY <1>2, <1>3

\* A block of the match chain goes.
LEMMA MatchBlockShaped ==
  ASSUME NEW b, Shaped(b), Len(b.chains[MatchChain]) # 0
  PROVE  LET b2 == RollbackMatchBlock(b)
         IN Shaped(b2) /\ Len(b2.chains[MatchChain]) = Len(b.chains[MatchChain]) - 1
<1> DEFINE blocks == b.chains[MatchChain]
           c == RemoveLastBlock(b, MatchChain)
<1>1. MatchChain \in Chains /\ blocks \in Seq(Block) /\ blocks \in Seq(Seq(OwnTx(MatchChain)))
  BY TheChains DEF Shaped
<1>2. /\ Front(blocks) \in Seq(Seq(OwnTx(MatchChain))) /\ Len(Front(blocks)) = Len(blocks) - 1
      /\ Last(blocks) \in Block
  <2> HIDE DEF blocks
  <2>1. Len(blocks) # 0
    BY DEF blocks
  <2> QED BY <1>1, <2>1, FrontOf
<1>3. /\ DOMAIN c = Fields
      /\ c.chains = [b.chains EXCEPT ![MatchChain] = Front(blocks)]
      /\ c.mempoolUncommitted = b.mempoolUncommitted
  BY DEF RemoveLastBlock, Fields, Shaped
<1>4. Shaped(c) /\ c.chains[MatchChain] = Front(blocks)
  <2> HIDE DEF c, blocks
  <2>1. /\ c.chains = [t \in Chains |-> c.chains[t]]
        /\ c.chains[MatchChain] = Front(blocks)
        /\ \A t \in Chains : t # MatchChain => c.chains[t] = b.chains[t]
    BY <1>1, <1>3 DEF Shaped
  <2>2. c.mempoolUncommitted \in [Chains -> Seq(Transaction)]
    BY <1>3 DEF Shaped
  <2>3. c.chains[MatchChain] \in Seq(Seq(OwnTx(MatchChain)))
    BY <1>2, <2>1
  <2>4. Shaped(c)
    BY <1>1, <1>3, <2>1, <2>2, <2>3, ChainReplaced
  <2> QED BY <2>1, <2>4
<1>5. Last(blocks) \in Seq(Transaction) /\ RollbackMatchBlock(b) = FoldRight(UndoMinedMatchTx, Last(blocks), c)
  BY <1>2 DEF RollbackMatchBlock, Block
<1> HIDE DEF c
<1>6. ShapedOn(c, RollbackMatchBlock(b))
  BY <1>4, <1>5, MatchChainTxsUndoneShaped
<1> QED BY <1>2, <1>4, <1>6 DEF ShapedOn

\* The list of the match chain goes.
LEMMA MatchesForgottenShaped ==
  ASSUME NEW b, Shaped(b)
  PROVE  ShapedOn(b, ForgetMatches(b))
<1> DEFINE c == FoldRight(UndoMatchChainTx, b.mempoolUncommitted[MatchChain], b)
<1>1. b.mempoolUncommitted[MatchChain] \in Seq(Transaction) /\ MatchChain \in Chains
  BY TheChains DEF Shaped
<1>2. ShapedOn(b, c) /\ Shaped(c)
  BY <1>1, MatchChainTxsUndoneShaped DEF ShapedOn
<1> HIDE DEF c
<1>3. ShapedOn(c, [c EXCEPT !.mempoolUncommitted[MatchChain] = <<>>])
  BY <1>1, <1>2 DEF Shaped, ShapedOn, Fields
<1>4. ShapedOn(b, [c EXCEPT !.mempoolUncommitted[MatchChain] = <<>>])
  BY <1>2, <1>3, ShapedMore
<1>5. ForgetMatches(b) = IF b.recovering THEN b
                         ELSE [c EXCEPT !.mempoolUncommitted[MatchChain] = <<>>]
  BY DEF ForgetMatches, c
<1>6. ShapedOn(b, b)
  BY DEF ShapedOn
<1> QED BY <1>4, <1>5, <1>6

\* An order is freed: no more blocks of the match chain go than there are.
LEMMA OrderFreedShaped ==
  ASSUME NEW b, Shaped(b), NEW s, NEW id
  PROVE  Shaped(RollbackUntilOrderFree(b, s, id))
<1> DEFINE order == [chain |-> s, id |-> id]
           seq == [i \in DOMAIN b.chains[MatchChain] |-> order]
           n == Len(b.chains[MatchChain])
           uncommitted == UpdatesOn(b.mempoolUncommitted[MatchChain], s, id)
           forgotten == [bcs |-> ForgetMatches(Cascading(b)),
                         count |-> Updates(b, s, id) - uncommitted]
           freed == FoldLeft(FreeOrder, forgotten, seq)
           Good(r, k) == Shaped(r.bcs) /\ Len(r.bcs.chains[MatchChain]) >= n - k
<1>1. b.chains[MatchChain] \in Seq(Block) /\ n \in Nat
  BY TheChains DEF Shaped
<1>2. seq \in Seq({order}) /\ Len(seq) = n /\ \A k \in 1 .. n : seq[k] = order
  BY <1>1
<1>3. Good(forgotten, 0)
  <2>1. ShapedOn(b, Cascading(b))
    BY FieldReplaced DEF Cascading
  <2>2. ShapedOn(Cascading(b), ForgetMatches(Cascading(b)))
    BY <2>1, MatchesForgottenShaped DEF ShapedOn
  <2> QED BY <1>1, <2>1, <2>2 DEF ShapedOn
<1> HIDE DEF order, forgotten, seq, n
<1>4. PICK g : Freed!LeftSteps(seq, forgotten, g) /\ FoldLeft(FreeOrder, forgotten, seq) = g[Len(seq)]
  BY <1>2, FreeOrderSteps
<1>5. g[0] = forgotten /\ \A k \in 1 .. n : g[k] = FreeOrder(g[k - 1], order)
  BY <1>2, <1>4 DEF Freed!LeftSteps
<1> DEFINE N == {k \in 0 .. n : Good(g[k], k)}
<1>6. 0 \in N
  <2> HIDE DEF Good
  <2> QED BY <1>1, <1>3, <1>5
<1>7. ASSUME NEW k \in 1 .. n, k - 1 \in N
      PROVE  k \in N
  <2> DEFINE q == g[k - 1]  q2 == g[k]
  <2>1. /\ Shaped(q.bcs) /\ Len(q.bcs.chains[MatchChain]) >= n - (k - 1)
        /\ q2 = FreeOrder(q, order) /\ k \in 0 .. n
    BY <1>1, <1>5, <1>7
  <2> HIDE DEF q, q2
  <2>2. Len(q.bcs.chains[MatchChain]) \in Nat /\ Len(q.bcs.chains[MatchChain]) # 0
    <3>1. q.bcs.chains[MatchChain] \in Seq(Block)
      BY <2>1, TheChains DEF Shaped
    <3> QED BY <1>1, <2>1, <3>1
  <2>3. CASE q.bcs.panicked \/ q.count = 0
    <3>1. q2 = q
      BY <2>1, <2>3 DEF FreeOrder
    <3>2. Good(q2, k)
      BY <1>1, <2>1, <2>2, <3>1
    <3> HIDE DEF Good
    <3> QED BY <2>1, <3>2 DEF q2
  <2>4. CASE ~(q.bcs.panicked \/ q.count = 0)
    <3> DEFINE c == Cascading(q.bcs)
    <3>1. q2.bcs = RollbackMatchBlock(c)
      BY <2>1, <2>4 DEF FreeOrder
    <3>2. ShapedOn(q.bcs, c)
      BY <2>1, FieldReplaced DEF Cascading
    <3> HIDE DEF c
    <3>3. Shaped(c) /\ Len(c.chains[MatchChain]) = Len(q.bcs.chains[MatchChain])
      BY <3>2 DEF ShapedOn
    <3>4. Shaped(q2.bcs) /\ Len(q2.bcs.chains[MatchChain]) = Len(c.chains[MatchChain]) - 1
      BY <2>2, <3>1, <3>3, MatchBlockShaped
    <3>5. Good(q2, k)
      BY <1>1, <2>1, <2>2, <3>3, <3>4
    <3> HIDE DEF Good
    <3> QED BY <2>1, <3>5 DEF q2
  <2> QED BY <2>3, <2>4
<1>8. n \in N
  <2> HIDE DEF N
  <2> QED BY <1>1, <1>6, <1>7, Adding!InductUpTo
<1>9. Shaped(freed.bcs)
  BY <1>2, <1>4, <1>8
<1>10. RollbackUntilOrderFree(b, s, id)
         = IF Updates(b, s, id) = 0 THEN b
           ELSE IF Updates(b, s, id) = None THEN Panic(b)
           ELSE IF freed.count # 0 \/ ~Exists(freed.bcs.cs, s) THEN Panic(freed.bcs)
           ELSE freed.bcs
  BY DEF RollbackUntilOrderFree, forgotten, seq, order
<1> HIDE DEF freed
<1>11. Shaped(Panic(b)) /\ Shaped(Panic(freed.bcs))
  BY <1>9, PanicShaped DEF ShapedOn
<1> QED BY <1>9, <1>10, <1>11

\* A transaction of any chain is undone, be it of a list or of a block.
LEMMA TxUndoneShaped ==
  ASSUME NEW b, Shaped(b), NEW tx \in Transaction
  PROVE  Shaped(UndoTx(tx, b)) /\ Shaped(UndoMinedTx(tx, b))
<1> DEFINE freed == RollbackUntilOrderFree(b, tx.chain, tx.order.ID)
<1>1. Shaped(freed)
  BY OrderFreedShaped
<1>2. UndoTx(tx, b) = IF b.panicked THEN b
                      ELSE IF tx.chain = MatchChain THEN UndoMatchChainTx(tx, b)
                      ELSE IF tx.type # "ORDER" THEN [b EXCEPT !.cs = Undone(@, tx)]
                      ELSE IF freed.panicked THEN freed
                      ELSE [freed EXCEPT !.cs = Undone(@, tx)]
  BY DEF UndoTx
<1> HIDE DEF freed
<1>3. /\ Shaped(UndoMatchChainTx(tx, b))
      /\ Shaped([b EXCEPT !.cs = Undone(@, tx)])
      /\ Shaped([freed EXCEPT !.cs = Undone(@, tx)])
  BY <1>1, MatchChainTxUndoneShaped, FieldReplaced DEF ShapedOn
<1>4. Shaped(UndoTx(tx, b))
  BY <1>1, <1>2, <1>3
<1>5. Shaped(OutOfBooks(UndoTx(tx, b), tx, b))
  BY <1>4, UnbookedShaped DEF ShapedOn
<1> QED BY <1>4, <1>5 DEF UndoMinedTx

\* So are those of a list and of a block.
LEMMA TxsUndoneShaped ==
  ASSUME NEW b, Shaped(b), NEW txs \in Seq(Transaction)
  PROVE  Shaped(UndoTransactions(b, txs)) /\ Shaped(UndoMinedTransactions(b, txs))
<1> DEFINE n == Len(txs)
<1>0. n \in Nat /\ \A k \in 1 .. n : txs[k] \in Transaction
  OBVIOUS
<1>1. ASSUME NEW g, g[n] = b,
             \A k \in 1 .. n : \/ g[k - 1] = UndoTx(txs[k], g[k])
                               \/ g[k - 1] = UndoMinedTx(txs[k], g[k])
      PROVE  Shaped(g[0])
  <2> DEFINE N == {k \in 0 .. n : Shaped(g[k])}
  <2>1. n \in N
    BY <1>0, <1>1
  <2>2. ASSUME NEW k \in 1 .. n, k \in N
        PROVE  k - 1 \in N
    <3>1. Shaped(g[k])
      BY <2>2
    <3>2. Shaped(g[k - 1])
      BY <1>0, <1>1, <3>1, TxUndoneShaped
    <3> QED BY <1>0, <3>2
  <2>3. 0 \in N
    <3> HIDE DEF N, n
    <3> QED BY <1>0, <2>1, <2>2, Adding!InductDownTo
  <2> QED BY <2>3
<1>2. Shaped(UndoTransactions(b, txs))
  <2>1. PICK g : UndoingTxs!RightSteps(txs, b, g) /\ UndoTransactions(b, txs) = g[0]
    BY UndoTxsSteps
  <2>2. g[n] = b /\ \A k \in 1 .. n : g[k - 1] = UndoTx(txs[k], g[k])
    BY <2>1 DEF UndoingTxs!RightSteps
  <2> QED BY <1>1, <2>1, <2>2
<1>3. Shaped(UndoMinedTransactions(b, txs))
  <2>1. PICK g : UndoingMinedTxs!RightSteps(txs, b, g) /\ UndoMinedTransactions(b, txs) = g[0]
    BY UndoMinedTxsSteps
  <2>2. g[n] = b /\ \A k \in 1 .. n : g[k - 1] = UndoMinedTx(txs[k], g[k])
    BY <2>1 DEF UndoingMinedTxs!RightSteps
  <2> QED BY <1>1, <2>1, <2>2
<1> QED BY <1>2, <1>3

\* A list becomes empty.
LEMMA ListEmptied ==
  ASSUME NEW b, Shaped(b), NEW s \in Chains
  PROVE  Shaped([b EXCEPT !.mempoolUncommitted[s] = <<>>])
BY DEF Shaped, Fields

\* The list of a chain is undone and goes.
LEMMA UncommittedForgottenShaped ==
  ASSUME NEW b, Shaped(b), NEW s \in Chains
  PROVE  Shaped(Settled(ForgetUncommitted(b, s)))
<1> DEFINE c == UndoTransactions(b, b.mempoolUncommitted[s])
           d == ForgetUncommitted(b, s)
<1>1. b.mempoolUncommitted[s] \in Seq(Transaction)
  BY DEF Shaped
<1>2. Shaped(c)
  BY <1>1, TxsUndoneShaped
<1>3. d = [c EXCEPT !.mempoolUncommitted[s] = <<>>]
  BY DEF ForgetUncommitted
<1> HIDE DEF c, d
<1>4. Shaped(d)
  BY <1>2, <1>3, ListEmptied
<1> QED BY <1>4, FieldReplaced DEF Settled, ShapedOn, d

\* A transaction stays applied and listed.
LEMMA TxListedShaped ==
  ASSUME NEW b, Shaped(b), NEW tx \in Transaction, NEW s \in Chains
  PROVE  Shaped([AddTx(b, tx) EXCEPT !.mempoolUncommitted[s] = Append(@, tx)])
<1> DEFINE c == AddTx(b, tx)
<1>1. Shaped(c)
  BY TxAddedShaped DEF ShapedOn
<1> HIDE DEF c
<1>2. Append(c.mempoolUncommitted[s], tx) \in Seq(Transaction)
  BY <1>1 DEF Shaped
<1>3. Shaped([c EXCEPT !.mempoolUncommitted[s] = Append(@, tx)])
  BY <1>1, <1>2 DEF Shaped, Fields
<1> QED BY <1>3 DEF c

\* A transaction is offered to the chosen chain.
LEMMA OfferedShaped ==
  ASSUME Shaped(bcs), chosen \in Chains, NEW tx \in Transaction
  PROVE  Shaped(Offered(bcs, tx))
<1>1. Shaped(Panic(bcs)) /\ Shaped([bcs EXCEPT !.cs = AfterRejected(@, tx)])
  BY PanicShaped, FieldReplaced DEF ShapedOn
<1>2. Shaped([AddTx(bcs, tx) EXCEPT !.mempoolUncommitted[chosen] = Append(@, tx)])
  BY TxListedShaped
<1>3. Shaped(UndoTx(tx, AddTx(bcs, tx)))
  BY TxAddedShaped, TxUndoneShaped DEF ShapedOn
<1> QED BY <1>1, <1>2, <1>3 DEF Offered

\* A block of its own transactions is appended to a chain.
LEMMA BlockAppendedShaped ==
  ASSUME NEW b, Shaped(b), NEW s \in Chains, NEW txs \in Seq(OwnTx(s))
  PROVE  Shaped(Appended(b, s, txs))
<1> DEFINE c == Appended(b, s, txs)
<1>1. /\ DOMAIN c = Fields
      /\ c.chains = [b.chains EXCEPT ![s] = Append(b.chains[s], txs)]
      /\ c.mempoolUncommitted = b.mempoolUncommitted
  BY DEF Appended, Fields, Shaped
<1>2. Append(b.chains[s], txs) \in Seq(Seq(OwnTx(s)))
  BY DEF Shaped
<1> HIDE DEF c
<1>3. /\ c.chains = [t \in Chains |-> c.chains[t]]
      /\ c.chains[s] \in Seq(Seq(OwnTx(s)))
      /\ \A t \in Chains : t # s => c.chains[t] = b.chains[t]
  BY <1>1, <1>2 DEF Shaped
<1>4. c.mempoolUncommitted \in [Chains -> Seq(Transaction)]
  BY <1>1 DEF Shaped
<1> QED BY <1>1, <1>3, <1>4, ChainReplaced DEF c

\* The loop over the list, one transaction at a time.
Sweeping == INSTANCE Folding WITH Step <- Sweep

\* The fold goes one step for each transaction of the list.
LEMMA SweepSteps ==
  ASSUME NEW S, NEW txs \in Seq(S), NEW base
  PROVE  \E g : Sweeping!LeftSteps(txs, base, g) /\ FoldLeft(Sweep, base, txs) = g[Len(txs)]
<1>1. Sweeping!FoldLeft(Sweep, base, txs) = FoldLeft(Sweep, base, txs)
  BY DEF Sweeping!FoldLeft, FoldLeft, Sweeping!MapThenFoldSet, MapThenFoldSet,
         Sweeping!Max, Max
<1>2. \E g : Sweeping!LeftSteps(txs, base, g)
             /\ Sweeping!FoldLeft(Sweep, base, txs) = g[Len(txs)]
  BY ONLY Sweeping!FoldLeftSteps, txs \in Seq(S)
<1> QED BY <1>1, <1>2

\* What the loop goes on with.
Swept(r) ==
  /\ r = [bcs |-> r.bcs, inBlock |-> r.inBlock, still |-> r.still]
  /\ Shaped(r.bcs)
  /\ r.still \in Seq(Transaction)

\* A transaction of the list.
LEMMA TxSwept ==
  ASSUME NEW r, Swept(r), NEW tx \in Transaction
  PROVE  Swept(Sweep(r, tx))
<1>1. Shaped(IntoBooks(r.bcs, tx))
  BY BookedShaped DEF Swept, ShapedOn
<1>2. CASE tx \in r.inBlock
  <2>1. Sweep(r, tx) = [bcs |-> IntoBooks(r.bcs, tx), inBlock |-> r.inBlock, still |-> r.still]
    BY <1>2 DEF Sweep, Swept
  <2> QED BY <1>1, <2>1 DEF Swept
<1>3. CASE tx \notin r.inBlock
  <2>1. Sweep(r, tx) = [bcs |-> r.bcs, inBlock |-> r.inBlock, still |-> Append(r.still, tx)]
    BY <1>3 DEF Sweep, Swept
  <2> QED BY <2>1 DEF Swept
<1> QED BY <1>2, <1>3

\* A block that the miner has found is added.
LEMMA MinedBlockShaped ==
  ASSUME NEW b, Shaped(b), NEW mined, mined.symbol \in Chains,
         mined.txs \in Seq(OwnTx(mined.symbol))
  PROVE  Shaped(AddMinedBlock(b, mined))
<1> DEFINE s == mined.symbol
           base == [bcs |-> Appended(b, s, mined.txs),
                    inBlock |-> ToSet(mined.txs), still |-> <<>>]
           list == b.mempoolUncommitted[s]
           n == Len(list)
           swept == FoldLeft(Sweep, base, list)
           undone == UndoTransactions(swept.bcs, swept.still)
<1>1. list \in Seq(Transaction) /\ n \in Nat /\ \A k \in 1 .. n : list[k] \in Transaction
  BY DEF Shaped
<1>2. Swept(base)
  BY BlockAppendedShaped DEF Swept
<1>3. AddMinedBlock(b, mined) = [Settled(undone) EXCEPT !.mempoolUncommitted[s] = <<>>]
  BY DEF AddMinedBlock
<1> HIDE DEF base, list, n
<1>4. PICK g : Sweeping!LeftSteps(list, base, g) /\ swept = g[n]
  BY <1>1, SweepSteps DEF n
<1>5. g[0] = base /\ \A k \in 1 .. n : g[k] = Sweep(g[k - 1], list[k])
  BY <1>4 DEF Sweeping!LeftSteps, n
<1> DEFINE N == {k \in 0 .. n : Swept(g[k])}
<1>6. 0 \in N
  BY <1>1, <1>2, <1>5
<1>7. ASSUME NEW k \in 1 .. n, k - 1 \in N
      PROVE  k \in N
  <2>1. Swept(g[k])
    BY <1>1, <1>5, <1>7, TxSwept
  <2> QED BY <1>1, <2>1
<1>8. n \in N
  <2> HIDE DEF N
  <2> QED BY <1>1, <1>6, <1>7, Adding!InductUpTo
<1>9. Swept(swept)
  BY <1>4, <1>8
<1> HIDE DEF swept
<1>10. Shaped(undone)
  BY <1>9, TxsUndoneShaped DEF Swept
<1> HIDE DEF undone
<1>11. Shaped(Settled(undone))
  BY <1>10, FieldReplaced DEF Settled, ShapedOn
<1> QED BY <1>3, <1>11, ListEmptied

-----------------------------------------------------------------------------
\* The chains that a node starts with.

\* What AddData goes on with.
AddedSome(r) ==
  /\ DOMAIN r = {"bcs", "added", "ok"}
  /\ Shaped(r.bcs)
  /\ r.added \in Seq(Transaction)

\* The next transaction.
LEMMA NextAddedShaped ==
  ASSUME NEW r, AddedSome(r), NEW tx \in Transaction
  PROVE  AddedSome(AddNext(r, tx))
<1> DEFINE c == r.bcs
           rejected == [c EXCEPT !.cs = AfterRejected(@, tx)]
           r2 == AddNext(r, tx)
<1>1. Shaped(c) /\ r.added \in Seq(Transaction)
  BY DEF AddedSome
<1>2. Shaped(AddTx(c, tx))
  BY <1>1, TxAddedShaped DEF ShapedOn
<1>3. Shaped(AddMinedTx(c, tx))
  BY <1>2, BookedShaped DEF AddMinedTx, ShapedOn
<1>4. Shaped(rejected)
  BY <1>1, FieldReplaced DEF ShapedOn
<1>5. /\ DOMAIN r2 = {"bcs", "added", "ok"}
      /\ r2.bcs \in {c, AddMinedTx(c, tx), rejected}
      /\ r2.added \in {r.added, Append(r.added, tx)}
  BY DEF AddNext, AddedSome
<1> HIDE DEF c, rejected, r2
<1>6. Shaped(r2.bcs) /\ r2.added \in Seq(Transaction)
  BY <1>1, <1>3, <1>4, <1>5
<1> QED BY <1>5, <1>6 DEF AddedSome, r2

\* The transactions of a block.
LEMMA DataAddedShaped ==
  ASSUME NEW b, Shaped(b), NEW txs \in Seq(Transaction)
  PROVE  AddedSome(AddData(b, txs))
<1> DEFINE n == Len(txs)
<1>1. PICK g : /\ g[0] = [bcs |-> b, added |-> <<>>, ok |-> TRUE]
               /\ \A k \in 1 .. n : g[k] = AddNext(g[k - 1], txs[k])
               /\ AddData(b, txs) = g[n]
  BY AddDataSteps
<1>2. n \in Nat /\ \A k \in 1 .. n : txs[k] \in Transaction
  OBVIOUS
<1> DEFINE N == {k \in 0 .. n : AddedSome(g[k])}
<1>3. 0 \in N
  <2> DEFINE r == g[0]
  <2>1. r.bcs = b /\ r.added = <<>> /\ DOMAIN r = {"bcs", "added", "ok"}
    BY <1>1
  <2> HIDE DEF r
  <2>2. AddedSome(r)
    BY <2>1 DEF AddedSome
  <2> QED BY <1>2, <2>2 DEF r
<1>4. ASSUME NEW k \in 1 .. n, k - 1 \in N
      PROVE  k \in N
  <2>1. AddedSome(g[k])
    BY <1>1, <1>2, <1>4, NextAddedShaped
  <2> QED BY <1>2, <2>1
<1>5. n \in N
  <2> HIDE DEF N, n
  <2> QED BY <1>2, <1>3, <1>4, Adding!InductUpTo
<1> QED BY <1>1, <1>5

\* A block that a node starts with.
LEMMA StartBlockShaped ==
  ASSUME NEW b, Shaped(b), NEW block, block.symbol \in Chains,
         block.txs \in Seq(OwnTx(block.symbol))
  PROVE  Shaped(AddStartBlock(b, block))
<1> DEFINE s == block.symbol
           r == AddData(b, block.txs)
           unfrozen == [r.bcs EXCEPT !.cs.tokenStates[s] =
                          ApplyUnfreezesForBlock(@, b.height[s] + 1)]
           added == IF s = MatchChain THEN r.bcs ELSE unfrozen
<1>1. block.txs \in Seq(Transaction)
  BY DEF OwnTx
<1>2. Shaped(r.bcs) /\ r.added \in Seq(Transaction)
  BY <1>1, DataAddedShaped DEF AddedSome
<1>3. AddStartBlock(b, block)
        = IF ~HasChain(b, s) THEN b
          ELSE IF b.panicked THEN b
          ELSE IF r.bcs.panicked THEN r.bcs
          ELSE IF ~r.ok THEN UndoMinedTransactions(r.bcs, r.added)
          ELSE Appended(added, s, block.txs)
  BY DEF AddStartBlock, AddBlockTo
<1> HIDE DEF r
<1>4. Shaped(added)
  <2>1. Shaped(unfrozen)
    BY <1>2 DEF Shaped, Fields
  <2> QED BY <1>2, <2>1
<1> HIDE DEF added
<1>5. Shaped(UndoMinedTransactions(r.bcs, r.added)) /\ Shaped(Appended(added, s, block.txs))
  BY <1>2, <1>4, TxsUndoneShaped, BlockAppendedShaped
<1> QED BY <1>2, <1>3, <1>5

\* The blocks are of their chain.
LEMMA StartBlocksOwn ==
  ASSUME NEW block \in ToSet(StartBlocks)
  PROVE  block.symbol \in Chains /\ block.txs \in Seq(OwnTx(block.symbol))
<1>1. block \in [symbol : Chains, txs : Block]
  <2> DEFINE S == [symbol : Chains, txs : Block]
  <2>0. StartBlocks \in Seq(S)
    BY BlocksAssumption
  <2> HIDE DEF S
  <2>1. \A i \in DOMAIN StartBlocks : StartBlocks[i] \in S
    BY <2>0
  <2> QED BY <2>0, <2>1 DEF ToSet, S
<1>2. block.symbol \in Chains /\ block.txs \in Seq(Transaction)
  BY <1>1 DEF Block
<1> DEFINE txs == block.txs
<1>3. \A i \in DOMAIN txs : txs[i] \in OwnTx(block.symbol)
  <2>1. \A i \in DOMAIN txs : txs[i] \in Transaction
    BY <1>2
  <2>2. \A i \in DOMAIN txs : txs[i].chain = block.symbol
    BY BlocksAssumption
  <2> QED BY <2>1, <2>2 DEF OwnTx
<1> HIDE DEF txs
<1>4. txs \in Seq(OwnTx(block.symbol))
  <2>1. txs = [i \in 1 .. Len(txs) |-> txs[i]] /\ Len(txs) \in Nat /\ DOMAIN txs = 1 .. Len(txs)
    BY <1>2 DEF txs
  <2> QED BY <1>3, <2>1, IsASeq
<1> QED BY <1>2, <1>4 DEF txs

\* A node starts with chains of its blocks.
LEMMA StartShaped ==
  ASSUME Init
  PROVE  Shaped(bcs) /\ chosen \in Chains
<1> DEFINE base == Opened([s \in Chains |-> <<>>], FALSE)
           n == Len(StartBlocks)
<1>1. Shaped(base)
  <2>1. /\ DOMAIN base = Fields
        /\ base.chains = [s \in Chains |-> <<>>]
        /\ base.mempoolUncommitted = [s \in Chains |-> <<>>]
    BY DEF Opened, Fields
  <2> HIDE DEF base
  <2> QED BY <2>1 DEF Shaped
<1>2. StartBlocks \in Seq([symbol : Chains, txs : Block]) /\ n \in Nat
  BY BlocksAssumption
<1>3. bcs = FoldLeft(AddStartBlock, base, StartBlocks) /\ chosen \in Chains
  BY DEF Init
<1> HIDE DEF base
<1>4. PICK g : Starting!LeftSteps(StartBlocks, base, g)
               /\ FoldLeft(AddStartBlock, base, StartBlocks) = g[n]
  BY <1>2, StartSteps
<1>5. g[0] = base /\ \A k \in 1 .. n : g[k] = AddStartBlock(g[k - 1], StartBlocks[k])
  BY <1>4 DEF Starting!LeftSteps
<1> DEFINE N == {k \in 0 .. n : Shaped(g[k])}
<1>6. 0 \in N
  BY <1>1, <1>2, <1>5
<1>7. ASSUME NEW k \in 1 .. n, k - 1 \in N
      PROVE  k \in N
  <2>1. Shaped(g[k - 1])
    BY <1>7
  <2>2. StartBlocks[k] \in ToSet(StartBlocks)
    BY <1>2 DEF ToSet
  <2>3. Shaped(g[k])
    BY <1>5, <2>1, <2>2, StartBlocksOwn, StartBlockShaped
  <2> QED BY <1>2, <2>3
<1>8. n \in N
  <2> HIDE DEF N, n
  <2> QED BY <1>2, <1>6, <1>7, Adding!InductUpTo
<1> QED BY <1>3, <1>4, <1>8

-----------------------------------------------------------------------------
\* Sequences.

\* A part of a sequence is one of its elements.
LEMMA PartOf ==
  ASSUME NEW S, NEW seq \in Seq(S), NEW m \in Nat, m # 0, NEW n \in Nat, n <= Len(seq)
  PROVE  /\ SubSeq(seq, m, n) \in Seq(S)
         /\ Len(SubSeq(seq, m, n)) = IF m <= n THEN n - m + 1 ELSE 0
         /\ \A i \in DOMAIN SubSeq(seq, m, n) : SubSeq(seq, m, n)[i] = seq[m + i - 1]
                                                /\ m + i - 1 \in DOMAIN seq
<1> DEFINE part == SubSeq(seq, m, n)
<1>1. \A i \in m .. n : seq[i] \in S
  OBVIOUS
<1>2. /\ part \in Seq(S) /\ Len(part) = IF m <= n THEN n - m + 1 ELSE 0
      /\ \A i \in 1 .. n - m + 1 : part[i] = seq[m + i - 1]
  BY <1>1, SubSeqProperties
<1> HIDE DEF part
<1>3. \A i \in DOMAIN part : i \in 1 .. n - m + 1 /\ m + i - 1 \in 1 .. Len(seq)
  BY <1>2
<1> QED BY <1>2, <1>3 DEF part

\* What is left without one of the elements.
LEMMA RemovedAt ==
  ASSUME NEW S, NEW seq \in Seq(S), NEW i \in DOMAIN seq
  PROVE  /\ RemoveAt(seq, i) \in Seq(S)
         /\ \A j \in DOMAIN RemoveAt(seq, i) : \E k \in DOMAIN seq : RemoveAt(seq, i)[j] = seq[k]
<1> DEFINE before == SubSeq(seq, 1, i - 1)
           after == SubSeq(seq, i + 1, Len(seq))
<1>1. i \in Nat /\ i # 0 /\ i <= Len(seq) /\ Len(seq) \in Nat
  OBVIOUS
<1>2. before \in Seq(S) /\ \A j \in DOMAIN before : \E k \in DOMAIN seq : before[j] = seq[k]
  <2>1. i - 1 \in Nat /\ i - 1 <= Len(seq)
    BY <1>1
  <2> QED BY <2>1, PartOf
<1>3. after \in Seq(S) /\ \A j \in DOMAIN after : \E k \in DOMAIN seq : after[j] = seq[k]
  <2>1. i + 1 \in Nat /\ i + 1 # 0 /\ Len(seq) <= Len(seq)
    BY <1>1
  <2>2. /\ after \in Seq(S)
        /\ \A j \in DOMAIN after : after[j] = seq[i + 1 + j - 1] /\ i + 1 + j - 1 \in DOMAIN seq
    BY <1>1, <2>1, PartOf
  <2> HIDE DEF after
  <2> QED BY <2>2
<1>4. RemoveAt(seq, i) = before \o after
  BY DEF RemoveAt
<1> HIDE DEF before, after
<1>5. before \o after \in Seq(S)
  BY <1>2, <1>3
<1>6. ASSUME NEW j \in DOMAIN (before \o after)
      PROVE  \/ j \in DOMAIN before /\ (before \o after)[j] = before[j]
             \/ \E k \in DOMAIN after : (before \o after)[j] = after[k]
  <2>1. Len(before) \in Nat /\ Len(after) \in Nat /\ j \in 1 .. Len(before) + Len(after)
    BY <1>2, <1>3
  <2>2. CASE j <= Len(before)
    BY <1>2, <1>3, <2>1, <2>2
  <2>3. CASE j > Len(before)
    <3>1. j - Len(before) \in DOMAIN after
          /\ (before \o after)[j] = after[j - Len(before)]
      BY <1>2, <1>3, <2>1, <2>3
    <3> QED BY <3>1
  <2> QED BY <2>1, <2>2, <2>3
<1> QED BY <1>2, <1>3, <1>4, <1>5, <1>6

\* A transaction joins the others of the block.
LEMMA AddedToData ==
  ASSUME NEW S, NEW txs \in Seq(S), NEW tx \in S
  PROVE  AddToData(txs, tx) \in Seq(S)
<1> DEFINE before == {k \in DOMAIN txs : Rank(txs[k]) <= Rank(tx)}
           i == Cardinality(before) + 1
           n == Len(txs)
<1>1. n \in Nat /\ DOMAIN txs = 1 .. n
  OBVIOUS
<1>2. Cardinality(before) \in Nat /\ Cardinality(before) <= n
  <2>1. IsFiniteSet(1 .. n) /\ Cardinality(1 .. n) = n
    BY <1>1, FS_Interval
  <2>2. before \subseteq 1 .. n
    BY <1>1
  <2> HIDE DEF before, n
  <2> QED BY <2>1, <2>2, FS_Subset, FS_CardinalityType
<1> HIDE DEF before
<1>3. i \in Nat /\ i # 0 /\ i - 1 \in Nat /\ i - 1 <= n
  BY <1>1, <1>2
<1>4. AddToData(txs, tx) = SubSeq(txs, 1, i - 1) \o <<tx>> \o SubSeq(txs, i, n)
  BY DEF AddToData, InsertAt, before
<1> HIDE DEF i
<1>5. SubSeq(txs, 1, i - 1) \in Seq(S) /\ SubSeq(txs, i, n) \in Seq(S)
  BY <1>1, <1>3, PartOf
<1> QED BY <1>4, <1>5

-----------------------------------------------------------------------------
\* The invariant.

TxMsgs == [type : {"TX"}, tx : Transaction, round : Nat]
NewBlockMsgs == [type : {"NEW_BLOCK"}, symbol : Chains, last : Seq(Block)]
Errands == [token : Chains, msg : TxMsgs \cup {None}, transactions : SUBSET Transaction]

\* A block to be mined or found, with transactions of its chain.
OwnBlock(block) ==
  /\ block \in [symbol : Chains, last : Seq(Block), txs : Block]
  /\ block.txs \in Seq(OwnTx(block.symbol))

\* A message of the miner's round is of the token that the miner works for.
Timely(msg) ==
  /\ msg.round <= miner.round
  /\ msg.round = miner.round /\ miner.block # None => msg.tx.chain = miner.block.symbol

\* The i-th message in the miner's channel is one to start a block.
Starts(i) == minerCh[i].type = "NEW_BLOCK"

\* What is in memory.
InMemory ==
  /\ Shaped(bcs) /\ chosen \in Chains
  /\ mempools \in [Chains -> SUBSET Transaction]
  /\ \A s \in Chains : mempools[s] \subseteq OwnTx(s)

\* What is under way.
UnderWay ==
  /\ sending \subseteq TxMsgs
  /\ minerCh \in Seq(TxMsgs \cup NewBlockMsgs)
  /\ revalidating \in Seq(Errands)
  /\ \A i \in DOMAIN revalidating :
       revalidating[i].transactions \subseteq OwnTx(revalidating[i].token)
  /\ applying = "send" =>
       starting \in [last : Seq(Block), transactions : SUBSET OwnTx(chosen)]

\* What the miner works on and has found.
Mined ==
  /\ DOMAIN miner = {"block", "round"} /\ miner.round \in Nat
  /\ miner.block # None => OwnBlock(miner.block)
  /\ \A f \in finished : OwnBlock(f.block)

\* The rounds of the messages.
Stamped ==
  /\ \A msg \in sending : Timely(msg)
  /\ \A i \in DOMAIN minerCh : ~Starts(i) => Timely(minerCh[i])
  /\ \A i \in DOMAIN revalidating :
       revalidating[i].msg # None => Timely(revalidating[i].msg)

\* One of the miner, ApplyLoop and the channels between them has the turn, and no
\* peer takes it away.
Turn ==
  /\ peerSteps = 0 /\ \A s \in Chains : stopping[s] = 0
  /\ \A i \in DOMAIN minerCh : Starts(i) =>
       /\ applying = "select" /\ miner.block = None /\ finished = {}
       /\ minerCh[i].symbol = chosen
       /\ \A j \in DOMAIN minerCh : Starts(j) => i = j
  /\ miner.block # None =>
       applying = "select" /\ finished = {} /\ miner.block.symbol = chosen
  /\ finished # {} => applying = "select"
  /\ \A f, g \in finished : f = g

MiningInv == InMemory /\ UnderWay /\ Mined /\ Stamped /\ Turn

\* It holds at first.
LEMMA MiningInvInit ==
  ASSUME MiningInit
  PROVE  MiningInv
<1>1. Shaped(bcs) /\ chosen \in Chains
  BY StartShaped DEF MiningInit
<1>2. InMemory
  BY <1>1 DEF MiningInit, InMemory
<1>3. UnderWay
  BY DEF MiningInit, UnderWay
<1>4. Mined /\ Stamped
  BY DEF MiningInit, Mined, Stamped
<1>5. Turn
  BY DEF MiningInit, Turn
<1> QED BY <1>2, <1>3, <1>4, <1>5 DEF MiningInv

\* The mempools that survive are no larger.
LEMMA SurvivingOwn ==
  ASSUME NEW pools \in [Chains -> SUBSET Transaction], NEW b,
         \A s \in Chains : pools[s] \subseteq OwnTx(s)
  PROVE  /\ Surviving(pools, b) \in [Chains -> SUBSET Transaction]
         /\ \A s \in Chains : Surviving(pools, b)[s] \subseteq OwnTx(s)
BY DEF Surviving

\* A transaction is offered, and the message to the miner is of its round.
LEMMA OfferStep ==
  ASSUME MiningInv, NEW tx \in MempoolTxs, AddTransactionToMempool(tx)
  PROVE  MiningInv'
<1>1. tx \in Transaction /\ tx \in OwnTx(tx.chain)
  BY BlocksAssumption DEF OwnTx
<1>2. InMemory'
  <2> DEFINE pools == [mempools EXCEPT ![tx.chain] = @ \cup {tx}]
  <2>1. Shaped(bcs') /\ chosen' \in Chains
    BY <1>1, OfferedShaped DEF AddTransactionToMempool, MiningInv, InMemory
  <2>2. /\ pools \in [Chains -> SUBSET Transaction]
        /\ \A s \in Chains : pools[s] \subseteq OwnTx(s)
    BY <1>1 DEF MiningInv, InMemory
  <2>3. mempools' = mempools \/ mempools' = Surviving(pools, bcs')
    BY DEF AddTransactionToMempool
  <2> HIDE DEF pools
  <2>4. /\ mempools' \in [Chains -> SUBSET Transaction]
        /\ \A s \in Chains : mempools'[s] \subseteq OwnTx(s)
    <3>1. CASE mempools' = mempools
      BY <3>1 DEF MiningInv, InMemory
    <3>2. CASE mempools' = Surviving(pools, bcs')
      BY <2>2, <3>2, SurvivingOwn
    <3> QED BY <2>3, <3>1, <3>2
  <2> QED BY <2>1, <2>4 DEF InMemory
<1>3. sending' = sending \/ (tx.chain = chosen /\ sending' = sending \cup {TxMsg(tx, miner.round)})
  BY DEF AddTransactionToMempool
<1>4. UNCHANGED <<chosen, revalidating, miner, minerCh, finished, stopping, applying,
                  starting, peerSteps>>
  BY DEF AddTransactionToMempool
<1>5. TxMsg(tx, miner.round) \in TxMsgs
  BY <1>1 DEF TxMsg, TxMsgs, MiningInv, Mined
<1>6. tx.chain = chosen => Timely(TxMsg(tx, miner.round))
  BY DEF TxMsg, Timely, MiningInv, Mined, Turn
<1>7. UnderWay'
  BY <1>3, <1>4, <1>5 DEF UnderWay, MiningInv
<1>8. Mined'
  BY <1>4 DEF Mined, MiningInv
<1>9. Stamped'
  BY <1>3, <1>4, <1>6 DEF Stamped, Starts, Timely, MiningInv
<1>10. Turn'
  BY <1>4 DEF Turn, Starts, MiningInv
<1> QED BY <1>2, <1>7, <1>8, <1>9, <1>10 DEF MiningInv

\* A message goes to the miner's channel.
LEMMA MessageSent ==
  ASSUME MiningInv, NEW msg \in TxMsgs, Timely(msg), minerCh' = Append(minerCh, msg),
         UNCHANGED <<bcs, chosen, mempools, miner, finished, stopping, applying, starting,
                     peerSteps>>,
         sending' \subseteq sending, revalidating' \in Seq(Errands),
         \A i \in DOMAIN revalidating' :
           /\ revalidating'[i].transactions \subseteq OwnTx(revalidating'[i].token)
           /\ revalidating'[i].msg # None =>
                \E k \in DOMAIN revalidating : revalidating'[i].msg = revalidating[k].msg
  PROVE  MiningInv'
<1> DEFINE n == Len(minerCh)
<1>1. /\ minerCh \in Seq(TxMsgs \cup NewBlockMsgs) /\ n \in Nat
      /\ minerCh' \in Seq(TxMsgs \cup NewBlockMsgs)
      /\ DOMAIN minerCh = 1 .. n /\ DOMAIN minerCh' = 1 .. n + 1
      /\ minerCh'[n + 1] = msg /\ \A i \in 1 .. n : minerCh'[i] = minerCh[i]
  BY DEF MiningInv, UnderWay
<1>2. msg.type # "NEW_BLOCK"
  BY DEF TxMsgs
<1> HIDE DEF n
<1>3. \A i \in DOMAIN minerCh' :
        \/ i = n + 1 /\ minerCh'[i] = msg
        \/ i \in DOMAIN minerCh /\ minerCh'[i] = minerCh[i]
  BY <1>1
<1>4. InMemory'
  BY DEF InMemory, MiningInv
<1>5. UnderWay'
  BY <1>1 DEF UnderWay, MiningInv
<1>6. Mined'
  BY DEF Mined, MiningInv
<1>7. Stamped'
  BY <1>3 DEF Stamped, Starts, Timely, MiningInv
<1>8. Turn'
  BY <1>2, <1>3 DEF Turn, Starts, MiningInv
<1> QED BY <1>4, <1>5, <1>6, <1>7, <1>8 DEF MiningInv

\* AddTransactionToMempool sends its message.
LEMMA SendStep ==
  ASSUME MiningInv, NEW msg \in sending, SendTx(msg)
  PROVE  MiningInv'
<1>1. msg \in TxMsgs /\ Timely(msg)
  BY DEF MiningInv, UnderWay, Stamped
<1>2. /\ minerCh' = Append(minerCh, msg) /\ sending' \subseteq sending
      /\ UNCHANGED <<bcs, chosen, mempools, miner, finished, stopping, applying, starting,
                     peerSteps>>
      /\ revalidating' = revalidating
  BY DEF SendTx, vars
<1>3. /\ revalidating' \in Seq(Errands)
      /\ \A i \in DOMAIN revalidating' :
           revalidating'[i].transactions \subseteq OwnTx(revalidating'[i].token)
  BY <1>2 DEF MiningInv, UnderWay
<1> QED BY <1>1, <1>2, <1>3, MessageSent

\* The miner takes a message.
LEMMA ReceiveStep ==
  ASSUME MiningInv, Receive
  PROVE  MiningInv'
<1> DEFINE msg == Head(minerCh)
<1>1. /\ minerCh # <<>> /\ minerCh' = Tail(minerCh)
      /\ miner' = IF msg.type = "NEW_BLOCK"
                  THEN [block |-> [symbol |-> msg.symbol, last |-> msg.last, txs |-> <<>>],
                        round |-> miner.round + 1]
                  ELSE TakeTx(miner, msg)
      /\ UNCHANGED <<bcs, chosen, mempools, sending, revalidating, finished, stopping, applying,
                     starting, peerSteps>>
  BY DEF Receive, vars
<1>2. /\ minerCh \in Seq(TxMsgs \cup NewBlockMsgs)
      /\ minerCh' \in Seq(TxMsgs \cup NewBlockMsgs)
      /\ 1 \in DOMAIN minerCh /\ msg = minerCh[1] /\ msg \in TxMsgs \cup NewBlockMsgs
      /\ \A i \in DOMAIN minerCh' : i \in Nat \ {0} /\ i + 1 \in DOMAIN minerCh
                                    /\ minerCh'[i] = minerCh[i + 1]
  BY <1>1 DEF MiningInv, UnderWay
<1> HIDE DEF msg
<1>3. InMemory'
  BY <1>1 DEF InMemory, MiningInv
<1>4. UnderWay'
  BY <1>1, <1>2 DEF UnderWay, MiningInv
<1>5. CASE msg.type = "NEW_BLOCK"
  <2>1. msg \in NewBlockMsgs
    BY <1>2, <1>5 DEF TxMsgs
  <2> DEFINE block == [symbol |-> msg.symbol, last |-> msg.last, txs |-> <<>>]
  <2>2. block \in [symbol : Chains, last : Seq(Block), txs : Block]
        /\ block.txs \in Seq(OwnTx(block.symbol)) /\ block.symbol = msg.symbol
    BY <2>1 DEF NewBlockMsgs, Block
  <2>3. miner' = [block |-> block, round |-> miner.round + 1]
    BY <1>1, <1>5
  <2> HIDE DEF block
  <2>4. DOMAIN miner' = {"block", "round"} /\ miner'.block = block /\ miner.round \in Nat
        /\ miner'.round = miner.round + 1
    BY <2>3 DEF MiningInv, Mined
  <2>5. Mined'
    BY <1>1, <2>2, <2>4 DEF Mined, OwnBlock, MiningInv
  <2>6. \A other : other.round \in Nat /\ Timely(other) => Timely(other)'
    BY <2>4 DEF Timely
  <2>7. Stamped'
    <3>1. \A other \in TxMsgs : other.round \in Nat /\ other.type = "TX"
      BY DEF TxMsgs
    <3>2. \A other \in sending' : Timely(other)'
      BY <1>1, <2>6, <3>1 DEF MiningInv, UnderWay, Stamped
    <3>3. ASSUME NEW i \in DOMAIN minerCh', ~(minerCh'[i].type = "NEW_BLOCK")
          PROVE  Timely(minerCh[i])'
      <4>1. i + 1 \in DOMAIN minerCh /\ minerCh'[i] = minerCh[i + 1]
        BY <1>2
      <4>2. minerCh[i + 1] \in TxMsgs /\ Timely(minerCh[i + 1])
        BY <1>2, <3>3, <4>1 DEF MiningInv, Stamped, Starts, NewBlockMsgs
      <4> QED BY <2>4, <3>1, <4>1, <4>2 DEF Timely
    <3>4. ASSUME NEW i \in DOMAIN revalidating', revalidating'[i].msg # None
          PROVE  Timely(revalidating[i].msg)'
      <4>0. i \in DOMAIN revalidating /\ revalidating[i] \in Errands /\ revalidating[i].msg # None
        BY <1>1, <3>4 DEF MiningInv, UnderWay
      <4>1. revalidating[i].msg \in TxMsgs /\ Timely(revalidating[i].msg)
        BY <4>0 DEF MiningInv, Stamped, Errands
      <4> QED BY <1>1, <2>4, <3>1, <4>1 DEF Timely
    <3> QED BY <3>2, <3>3, <3>4 DEF Stamped, Starts
  <2>8. Turn'
    <3>1. Starts(1)
      BY <1>2, <1>5 DEF Starts
    <3>2. applying = "select" /\ miner.block = None /\ finished = {} /\ msg.symbol = chosen
          /\ \A j \in DOMAIN minerCh : Starts(j) => 1 = j
      BY <1>2, <3>1 DEF MiningInv, Turn
    <3>3. \A i \in DOMAIN minerCh' : minerCh'[i].type # "NEW_BLOCK"
      BY <1>2, <3>2 DEF Starts
    <3> QED BY <1>1, <2>2, <2>4, <3>2, <3>3 DEF Turn, Starts, MiningInv
  <2> QED BY <1>3, <1>4, <2>5, <2>7, <2>8 DEF MiningInv
<1>6. CASE msg.type # "NEW_BLOCK"
  <2>1. msg \in TxMsgs /\ Timely(msg)
    <3>1. msg \in TxMsgs /\ ~Starts(1)
      BY <1>2, <1>6 DEF NewBlockMsgs, Starts
    <3> QED BY <1>2, <3>1 DEF MiningInv, Stamped
  <2>2. DOMAIN miner = {"block", "round"} /\ miner.round \in Nat /\ miner' = TakeTx(miner, msg)
    BY <1>1, <1>6 DEF MiningInv, Mined
  <2>3. CASE miner' = miner
    <3>1. Mined' /\ Stamped' /\ Turn'
      <4>1. Mined'
        BY <1>1, <2>3 DEF Mined, MiningInv
      <4>2. Stamped'
        BY <1>1, <1>2, <2>3 DEF Stamped, Starts, Timely, MiningInv
      <4>3. \A i \in DOMAIN minerCh', j \in DOMAIN minerCh' : i + 1 = j + 1 => i = j
        BY <1>2
      <4>4. Turn'
        BY <1>1, <1>2, <2>3, <4>3 DEF Turn, Starts, MiningInv
      <4> QED BY <4>1, <4>2, <4>4
    <3> QED BY <1>3, <1>4, <3>1 DEF MiningInv
  <2>4. CASE miner' # miner
    <3> DEFINE block == miner.block
               txs == AddToData(block.txs, msg.tx)
               block2 == [block EXCEPT !.txs = txs]
    <3>1. /\ block # None /\ msg.round = miner.round
          /\ miner' = [miner EXCEPT !.block.txs = txs]
      BY <2>2, <2>4 DEF TakeTx
    <3>2. OwnBlock(block) /\ msg.tx \in Transaction /\ msg.tx.chain = block.symbol
      BY <2>1, <3>1 DEF MiningInv, Mined, Timely, TxMsgs
    <3>3. txs \in Seq(OwnTx(block.symbol)) /\ txs \in Block
      <4>1. msg.tx \in OwnTx(block.symbol)
        BY <3>2 DEF OwnTx
      <4>2. txs \in Seq(OwnTx(block.symbol))
        BY <3>2, <4>1, AddedToData DEF OwnBlock
      <4> HIDE DEF txs
      <4> QED BY <4>2 DEF OwnTx, Block
    <3>4. /\ DOMAIN miner' = {"block", "round"} /\ miner'.round = miner.round
          /\ miner'.block = block2
      BY <2>2, <3>1
    <3> HIDE DEF txs
    <3>5. OwnBlock(block2) /\ block2.symbol = block.symbol
      <4> HIDE DEF block
      <4>1. block2 \in [symbol : Chains, last : Seq(Block), txs : Block]
            /\ block2.symbol = block.symbol /\ block2.txs = txs
        BY <3>2, <3>3 DEF OwnBlock
      <4> QED BY <3>3, <4>1 DEF OwnBlock
    <3> HIDE DEF block2
    <3>6. Mined'
      BY <1>1, <3>4, <3>5 DEF Mined, OwnBlock, MiningInv
    <3>7. Stamped'
      BY <1>1, <1>2, <3>1, <3>4, <3>5 DEF Stamped, Starts, Timely, MiningInv
    <3>8. Turn'
      <4>1. applying = "select" /\ finished = {} /\ block.symbol = chosen
            /\ \A i \in DOMAIN minerCh : ~Starts(i)
        BY <3>1 DEF Turn, MiningInv
      <4>2. \A i \in DOMAIN minerCh' : minerCh'[i].type # "NEW_BLOCK"
        BY <1>2, <4>1 DEF Starts
      <4> QED BY <1>1, <3>4, <3>5, <4>1, <4>2 DEF Turn, Starts, MiningInv
    <3> QED BY <1>3, <1>4, <3>6, <3>7, <3>8 DEF MiningInv
  <2> QED BY <2>3, <2>4
<1> QED BY <1>5, <1>6

\* The miner finds its block.
LEMMA FindStep ==
  ASSUME MiningInv, FindBlock
  PROVE  MiningInv'
<1>1. /\ minerCh = <<>> /\ miner.block # None
      /\ finished' = finished \cup {[block |-> miner.block, round |-> miner.round]}
      /\ miner' = [miner EXCEPT !.block = None]
      /\ UNCHANGED <<bcs, chosen, mempools, sending, revalidating, minerCh, stopping, applying,
                     starting, peerSteps>>
  BY DEF FindBlock, vars
<1>2. DOMAIN miner' = {"block", "round"} /\ miner'.block = None /\ miner'.round = miner.round
      /\ miner.round \in Nat
  BY <1>1 DEF MiningInv, Mined
<1>3. finished = {} /\ applying = "select"
  BY <1>1 DEF MiningInv, Turn
<1>4. InMemory'
  BY <1>1 DEF InMemory, MiningInv
<1>5. UnderWay'
  BY <1>1 DEF UnderWay, MiningInv
<1>6. Mined'
  BY <1>1, <1>2, <1>3 DEF Mined, OwnBlock, MiningInv
<1>7. Stamped'
  BY <1>1, <1>2 DEF Stamped, Starts, Timely, MiningInv
<1>8. Turn'
  BY <1>1, <1>2, <1>3 DEF Turn, Starts, MiningInv
<1> QED BY <1>4, <1>5, <1>6, <1>7, <1>8 DEF MiningInv

\* ApplyLoop takes a block that was found, whatever it does with it.
LEMMA FinishedStep ==
  ASSUME MiningInv, NEW f \in finished, DropFinished(f) \/ RetryFinished(f) \/ AddFinished(f)
  PROVE  MiningInv'
<1>1. /\ finished' = finished \ {f} /\ applying' \in {"select", "restart", "choose"}
      /\ UNCHANGED <<chosen, sending, revalidating, miner, minerCh, stopping, starting, peerSteps>>
  BY DEF DropFinished, RetryFinished, AddFinished, vars
<1>2. \/ bcs' = bcs
      \/ bcs' = Settled(ForgetUncommitted(bcs, f.block.symbol))
      \/ bcs' = AddMinedBlock(bcs, f.block)
  BY DEF DropFinished, RetryFinished, AddFinished, vars
<1>3. f.block.symbol \in Chains /\ f.block.txs \in Seq(OwnTx(f.block.symbol))
  BY DEF MiningInv, Mined, OwnBlock
<1>4. Shaped(bcs')
  <2>1. Shaped(bcs)
    BY DEF MiningInv, InMemory
  <2>2. Shaped(Settled(ForgetUncommitted(bcs, f.block.symbol)))
    BY <1>3, <2>1, UncommittedForgottenShaped
  <2>3. Shaped(AddMinedBlock(bcs, f.block))
    BY <1>3, <2>1, MinedBlockShaped
  <2> QED BY <1>2, <2>1, <2>2, <2>3
<1>5. /\ mempools' \in [Chains -> SUBSET Transaction]
      /\ \A s \in Chains : mempools'[s] \subseteq OwnTx(s)
  <2> DEFINE s == f.block.symbol
             mined == ToSet(f.block.txs) \cap ToSet(bcs.mempoolUncommitted[s])
             pools == [mempools EXCEPT ![s] = @ \ mined]
  <2>1. mempools' \in {mempools, Surviving(mempools, bcs'), Surviving(pools, bcs')}
    BY DEF DropFinished, RetryFinished, AddFinished
  <2> HIDE DEF mined
  <2>2. /\ mempools \in [Chains -> SUBSET Transaction]
        /\ \A t \in Chains : mempools[t] \subseteq OwnTx(t)
    BY DEF MiningInv, InMemory
  <2>3. /\ pools \in [Chains -> SUBSET Transaction]
        /\ \A t \in Chains : pools[t] \subseteq OwnTx(t)
    BY <1>3, <2>2
  <2> HIDE DEF pools
  <2>4. /\ Surviving(mempools, bcs') \in [Chains -> SUBSET Transaction]
        /\ \A t \in Chains : Surviving(mempools, bcs')[t] \subseteq OwnTx(t)
    BY <2>2, SurvivingOwn
  <2>5. /\ Surviving(pools, bcs') \in [Chains -> SUBSET Transaction]
        /\ \A t \in Chains : Surviving(pools, bcs')[t] \subseteq OwnTx(t)
    BY <2>3, SurvivingOwn
  <2> QED BY <2>1, <2>2, <2>4, <2>5
<1>6. finished' = {} /\ miner.block = None /\ \A i \in DOMAIN minerCh : ~Starts(i)
  BY <1>1 DEF MiningInv, Turn
<1>7. InMemory'
  BY <1>1, <1>4, <1>5 DEF InMemory, MiningInv
<1>8. UnderWay'
  BY <1>1 DEF UnderWay, MiningInv
<1>9. Mined'
  BY <1>1 DEF Mined, MiningInv
<1>10. Stamped'
  BY <1>1 DEF Stamped, Starts, Timely, MiningInv
<1>11. Turn'
  BY <1>1, <1>6 DEF Turn, Starts, MiningInv
<1> QED BY <1>7, <1>8, <1>9, <1>10, <1>11 DEF MiningInv

\* ApplyLoop starts another block, of the same token or of another.
LEMMA StartStep ==
  ASSUME MiningInv, StartMining
  PROVE  MiningInv'
<1>1. /\ applying \in {"choose", "restart"} /\ applying' = "send"
      /\ chosen' \in Chains
      /\ bcs' \in {Settled(ForgetUncommitted(bcs, chosen')), Panic(bcs)}
      /\ mempools' = Surviving(mempools, bcs')
      /\ starting' = [last |-> bcs'.chains[chosen'], transactions |-> mempools[chosen']]
      /\ UNCHANGED <<sending, revalidating, miner, minerCh, finished, stopping, peerSteps>>
  BY DEF StartMining, MiningInv, InMemory
<1>2. Shaped(bcs) /\ mempools \in [Chains -> SUBSET Transaction]
      /\ \A s \in Chains : mempools[s] \subseteq OwnTx(s)
  BY DEF MiningInv, InMemory
<1>3. Shaped(bcs')
  <2>1. Shaped(Settled(ForgetUncommitted(bcs, chosen')))
    BY <1>1, <1>2, UncommittedForgottenShaped
  <2>2. Shaped(Panic(bcs))
    BY <1>2, PanicShaped DEF ShapedOn
  <2> QED BY <1>1, <2>1, <2>2
<1>4. InMemory'
  <2>1. /\ mempools' \in [Chains -> SUBSET Transaction]
        /\ \A s \in Chains : mempools'[s] \subseteq OwnTx(s)
    BY <1>1, <1>2, SurvivingOwn
  <2> QED BY <1>1, <1>3, <2>1 DEF InMemory
<1>5. UnderWay'
  <2>1. bcs'.chains[chosen'] \in Seq(Block)
    BY <1>1, <1>3 DEF Shaped
  <2>2. starting' \in [last : Seq(Block), transactions : SUBSET OwnTx(chosen')]
    BY <1>1, <1>2, <2>1
  <2> QED BY <1>1, <2>2 DEF UnderWay, MiningInv
<1>6. Mined'
  BY <1>1 DEF Mined, MiningInv
<1>7. Stamped'
  BY <1>1 DEF Stamped, Starts, Timely, MiningInv
<1>8. Turn'
  BY <1>1 DEF Turn, Starts, MiningInv
<1> QED BY <1>4, <1>5, <1>6, <1>7, <1>8 DEF MiningInv

\* ApplyLoop sends the message that starts the block, and leaves a goroutine to
\* offer the mempool.
LEMMA SendNewBlockStep ==
  ASSUME MiningInv, SendNewBlock
  PROVE  MiningInv'
<1> DEFINE n == Len(minerCh)
           msg == NewBlockMsg(chosen, starting.last)
           errand == [token |-> chosen, msg |-> None, transactions |-> starting.transactions]
<1>1. /\ applying = "send" /\ applying' = "select" /\ minerCh' = Append(minerCh, msg)
      /\ revalidating' \in {revalidating, Append(revalidating, errand)}
      /\ UNCHANGED <<bcs, chosen, mempools, sending, miner, finished, stopping, peerSteps>>
  BY DEF SendNewBlock, vars
<1>2. /\ starting \in [last : Seq(Block), transactions : SUBSET OwnTx(chosen)]
      /\ chosen \in Chains
  BY <1>1 DEF MiningInv, UnderWay, InMemory
<1>3. /\ msg \in NewBlockMsgs /\ msg.type = "NEW_BLOCK" /\ msg.symbol = chosen
      /\ errand \in Errands /\ errand.transactions \subseteq OwnTx(errand.token)
      /\ errand.msg = None
  BY <1>2 DEF NewBlockMsg, NewBlockMsgs, Errands, OwnTx
<1> HIDE DEF msg, errand
<1>4. /\ minerCh \in Seq(TxMsgs \cup NewBlockMsgs) /\ n \in Nat
      /\ minerCh' \in Seq(TxMsgs \cup NewBlockMsgs)
      /\ DOMAIN minerCh = 1 .. n /\ DOMAIN minerCh' = 1 .. n + 1
      /\ minerCh'[n + 1] = msg /\ \A i \in 1 .. n : minerCh'[i] = minerCh[i]
  BY <1>1, <1>3 DEF MiningInv, UnderWay
<1> HIDE DEF n
<1>5. \A i \in DOMAIN minerCh' :
        \/ i = n + 1 /\ minerCh'[i] = msg
        \/ i \in DOMAIN minerCh /\ minerCh'[i] = minerCh[i]
  BY <1>4
<1>6. /\ revalidating' \in Seq(Errands)
      /\ \A i \in DOMAIN revalidating' :
           \/ i \in DOMAIN revalidating /\ revalidating'[i] = revalidating[i]
           \/ revalidating'[i] = errand
  <2>1. revalidating \in Seq(Errands)
    BY DEF MiningInv, UnderWay
  <2>2. CASE revalidating' = revalidating
    BY <2>1, <2>2
  <2>3. CASE revalidating' = Append(revalidating, errand)
    BY <1>3, <2>1, <2>3
  <2> QED BY <1>1, <2>2, <2>3
<1>7. miner.block = None /\ finished = {} /\ \A i \in DOMAIN minerCh : ~Starts(i)
  BY <1>1 DEF MiningInv, Turn
<1>8. InMemory'
  BY <1>1 DEF InMemory, MiningInv
<1>9. UnderWay'
  BY <1>1, <1>3, <1>4, <1>6 DEF UnderWay, MiningInv
<1>10. Mined'
  BY <1>1 DEF Mined, MiningInv
<1>11. Stamped'
  BY <1>1, <1>3, <1>5, <1>6 DEF Stamped, Starts, Timely, MiningInv
<1>12. Turn'
  BY <1>1, <1>3, <1>5, <1>7 DEF Turn, Starts, MiningInv
<1> QED BY <1>8, <1>9, <1>10, <1>11, <1>12 DEF MiningInv

\* The goroutines that remain once one of them has done a step.
LEMMA WithoutDone ==
  ASSUME NEW next \in Seq(Errands), NEW i \in DOMAIN next
  PROVE  /\ Without(next, i) \in Seq(Errands)
         /\ \A j \in DOMAIN Without(next, i) : \E k \in DOMAIN next : Without(next, i)[j] = next[k]
<1>1. Without(next, i) = next \/ Without(next, i) = RemoveAt(next, i)
  BY DEF Without
<1> QED BY <1>1, RemovedAt

\* An errand with other transactions left and another message.
LEMMA ErrandShortened ==
  ASSUME NEW g \in Errands, NEW left, NEW msg
  PROVE  [[g EXCEPT !.transactions = left] EXCEPT !.msg = msg]
           = [token |-> g.token, msg |-> msg, transactions |-> left]
<1>1. [g EXCEPT !.transactions = left] = [token |-> g.token, msg |-> g.msg, transactions |-> left]
  BY DEF Errands
<1>2. [[token |-> g.token, msg |-> g.msg, transactions |-> left] EXCEPT !.msg = msg]
        = [token |-> g.token, msg |-> msg, transactions |-> left]
  OBVIOUS
<1> QED BY <1>1, <1>2

\* One of them does a step.
LEMMA RevalidateStep ==
  ASSUME MiningInv, NEW i \in DOMAIN revalidating,
         NEW tx \in revalidating[i].transactions, Revalidate(i, tx)
  PROVE  MiningInv'
<1> DEFINE accepted == HasChain(bcs, tx.chain) /\ Accepted(bcs.cs, tx)
           left == revalidating[i].transactions \ {tx}
           msg == IF accepted THEN TxMsg(tx, miner.round) ELSE None
           next == [revalidating EXCEPT ![i].transactions = @ \ {tx}, ![i].msg = msg]
<1>1. /\ revalidating \in Seq(Errands) /\ revalidating[i] \in Errands
      /\ tx \in Transaction /\ tx.chain = revalidating[i].token
      /\ revalidating[i].transactions \subseteq OwnTx(revalidating[i].token)
      /\ miner.round \in Nat /\ Shaped(bcs) /\ chosen \in Chains
  BY DEF MiningInv, UnderWay, Mined, InMemory, OwnTx
<1>2. UNCHANGED <<chosen, sending, miner, minerCh, finished, stopping, applying, starting,
                  peerSteps>>
  BY DEF Revalidate
<1>3. /\ bcs' \in {bcs, [AddTx(bcs, tx) EXCEPT !.mempoolUncommitted[chosen] = Append(@, tx)],
                   [bcs EXCEPT !.cs = AfterRejected(@, tx)]}
      /\ mempools' \in {mempools, [mempools EXCEPT ![chosen] = @ \ {tx}]}
      /\ \/ revalidating' = RemoveAt(revalidating, i)
         \/ revalidating[i].token = chosen /\ revalidating' = Without(next, i)
  BY DEF Revalidate
<1> HIDE DEF accepted
<1>4. msg \in TxMsgs \cup {None} /\ (msg # None => msg = TxMsg(tx, miner.round))
  BY <1>1 DEF TxMsg, TxMsgs
<1>5. revalidating[i].token = chosen /\ msg # None => Timely(msg)
  BY <1>1, <1>4 DEF TxMsg, Timely, MiningInv, Turn
<1> HIDE DEF msg
<1>6. /\ next \in Seq(Errands) /\ DOMAIN next = DOMAIN revalidating
      /\ next[i].token = revalidating[i].token /\ next[i].msg = msg
      /\ next[i].transactions = left
      /\ \A k \in DOMAIN revalidating : k # i => next[k] = revalidating[k]
  <2> DEFINE errand == [token |-> revalidating[i].token, msg |-> msg, transactions |-> left]
  <2>1. next = [revalidating EXCEPT ![i] = errand]
    <3> DEFINE g == revalidating[i]
               shorter == [g EXCEPT !.transactions = left]
               first == [revalidating EXCEPT ![i] = shorter]
    <3>1. [shorter EXCEPT !.msg = msg] = errand
      BY <1>1, ErrandShortened, Zenon
    <3>2. first[i] = shorter
      BY <1>1
    <3>3. next = [first EXCEPT ![i] = [first[i] EXCEPT !.msg = msg]]
      OBVIOUS
    <3> HIDE DEF errand, shorter, next
    <3>4. next = [first EXCEPT ![i] = errand]
      BY <3>1, <3>2, <3>3
    <3> QED BY <3>4
  <2>2. errand \in Errands
    BY <1>1, <1>4 DEF Errands
  <2> HIDE DEF next, errand
  <2>3. next \in Seq(Errands) /\ DOMAIN next = DOMAIN revalidating /\ next[i] = errand
        /\ \A k \in DOMAIN revalidating : k # i => next[k] = revalidating[k]
    BY <1>1, <2>1, <2>2
  <2> QED BY <2>3 DEF errand
<1> HIDE DEF next
<1>7. /\ revalidating' \in Seq(Errands)
      /\ \A j \in DOMAIN revalidating' :
           \/ \E k \in DOMAIN revalidating : revalidating'[j] = revalidating[k]
           \/ revalidating[i].token = chosen /\ revalidating'[j] = next[i]
  <2>1. CASE revalidating' = RemoveAt(revalidating, i)
    BY <1>1, <2>1, RemovedAt
  <2>2. CASE revalidating[i].token = chosen /\ revalidating' = Without(next, i)
    <3>1. i \in DOMAIN next
      BY <1>6
    <3>2. /\ revalidating' \in Seq(Errands)
          /\ \A j \in DOMAIN revalidating' : \E k \in DOMAIN next : revalidating'[j] = next[k]
      BY <1>6, <2>2, <3>1, WithoutDone
    <3> QED BY <1>6, <2>2, <3>2
  <2> QED BY <1>3, <2>1, <2>2
<1>8. InMemory'
  <2>1. Shaped([AddTx(bcs, tx) EXCEPT !.mempoolUncommitted[chosen] = Append(@, tx)])
    BY <1>1, TxListedShaped
  <2>2. Shaped([bcs EXCEPT !.cs = AfterRejected(@, tx)])
    BY <1>1, FieldReplaced DEF ShapedOn
  <2>3. Shaped(bcs')
    BY <1>1, <1>3, <2>1, <2>2
  <2>4. /\ mempools' \in [Chains -> SUBSET Transaction]
        /\ \A s \in Chains : mempools'[s] \subseteq OwnTx(s)
    BY <1>3 DEF MiningInv, InMemory
  <2> QED BY <1>1, <1>2, <2>3, <2>4 DEF InMemory
<1>9. UnderWay'
  <2>1. \A j \in DOMAIN revalidating' :
          revalidating'[j].transactions \subseteq OwnTx(revalidating'[j].token)
    BY <1>1, <1>6, <1>7 DEF MiningInv, UnderWay
  <2> QED BY <1>2, <1>7, <2>1 DEF UnderWay, MiningInv
<1>10. Mined'
  BY <1>2 DEF Mined, MiningInv
<1>11. Stamped'
  <2>1. \A other : Timely(other) <=> Timely(other)'
    BY <1>2 DEF Timely
  <2>2. ASSUME NEW j \in DOMAIN revalidating', revalidating'[j].msg # None
        PROVE  Timely(revalidating[j].msg)'
    <3>1. CASE \E k \in DOMAIN revalidating : revalidating'[j] = revalidating[k]
      BY <1>2, <2>2, <3>1 DEF Timely, MiningInv, Stamped
    <3>2. CASE revalidating[i].token = chosen /\ revalidating'[j] = next[i]
      BY <1>2, <1>5, <1>6, <2>2, <3>2 DEF Timely
    <3> QED BY <1>7, <3>1, <3>2
  <2> QED BY <1>2, <2>2 DEF Stamped, Starts, Timely, MiningInv
<1>12. Turn'
  BY <1>2 DEF Turn, Starts, MiningInv
<1> QED BY <1>8, <1>9, <1>10, <1>11, <1>12 DEF MiningInv

\* It sends its message.
LEMMA SendRevalidatedStep ==
  ASSUME MiningInv, NEW i \in DOMAIN revalidating, SendRevalidated(i)
  PROVE  MiningInv'
<1> DEFINE msg == revalidating[i].msg
           next == [revalidating EXCEPT ![i].msg = None]
<1>1. /\ msg # None /\ minerCh' = Append(minerCh, msg)
      /\ revalidating' = Without(next, i)
      /\ UNCHANGED <<bcs, chosen, mempools, sending, miner, finished, stopping, applying,
                     starting, peerSteps>>
  BY DEF SendRevalidated, vars
<1>2. /\ revalidating \in Seq(Errands) /\ revalidating[i] \in Errands
      /\ revalidating[i].transactions \subseteq OwnTx(revalidating[i].token)
  BY DEF MiningInv, UnderWay
<1>3. msg \in TxMsgs /\ Timely(msg)
  BY <1>1, <1>2 DEF Errands, MiningInv, Stamped
<1>4. /\ next \in Seq(Errands) /\ DOMAIN next = DOMAIN revalidating
      /\ next[i].token = revalidating[i].token /\ next[i].msg = None
      /\ next[i].transactions = revalidating[i].transactions
      /\ \A k \in DOMAIN revalidating : k # i => next[k] = revalidating[k]
  <2> DEFINE errand == [token |-> revalidating[i].token, msg |-> None,
                        transactions |-> revalidating[i].transactions]
  <2>1. next = [revalidating EXCEPT ![i] = errand]
    <3>1. [revalidating[i] EXCEPT !.msg = None] = errand
      BY ONLY <1>2 DEF Errands
    <3> HIDE DEF errand
    <3> QED BY <3>1
  <2>2. errand \in Errands
    BY <1>2 DEF Errands
  <2> HIDE DEF next, errand
  <2>3. next \in Seq(Errands) /\ DOMAIN next = DOMAIN revalidating /\ next[i] = errand
        /\ \A k \in DOMAIN revalidating : k # i => next[k] = revalidating[k]
    BY <1>2, <2>1, <2>2
  <2> QED BY <2>3 DEF errand
<1> HIDE DEF msg, next
<1>5. /\ revalidating' \in Seq(Errands)
      /\ \A j \in DOMAIN revalidating' : \E k \in DOMAIN next : revalidating'[j] = next[k]
  BY <1>1, <1>4, WithoutDone
<1>6. \A k \in DOMAIN next :
        /\ next[k].transactions \subseteq OwnTx(next[k].token)
        /\ next[k].msg # None => \E l \in DOMAIN revalidating : next[k].msg = revalidating[l].msg
  BY <1>2, <1>4 DEF MiningInv, UnderWay
<1>7. \A j \in DOMAIN revalidating' :
        /\ revalidating'[j].transactions \subseteq OwnTx(revalidating'[j].token)
        /\ revalidating'[j].msg # None =>
             \E l \in DOMAIN revalidating : revalidating'[j].msg = revalidating[l].msg
  BY <1>5, <1>6
<1> QED BY <1>1, <1>3, <1>5, <1>7, MessageSent

\* A step of anybody.
LEMMA MiningStep ==
  ASSUME NoPeers, MiningInv, [MiningNext]_allVars
  PROVE  MiningInv'
<1>1. CASE \E tx \in MempoolTxs : AddTransactionToMempool(tx)
  BY <1>1, OfferStep
<1>2. CASE \E msg \in sending : SendTx(msg)
  BY <1>2, SendStep
<1>3. CASE Receive \/ FindBlock
  BY <1>3, ReceiveStep, FindStep
<1>4. CASE \E f \in finished : DropFinished(f) \/ RetryFinished(f) \/ AddFinished(f)
  BY <1>4, FinishedStep
<1>5. CASE \E s \in Chains : ApplyStop(s)
  BY <1>5 DEF ApplyStop, MiningInv, Turn
<1>6. CASE StartMining \/ SendNewBlock
  BY <1>6, StartStep, SendNewBlockStep
<1>7. CASE \E i \in DOMAIN revalidating :
             \/ \E tx \in revalidating[i].transactions : Revalidate(i, tx)
             \/ SendRevalidated(i)
  BY <1>7, RevalidateStep, SendRevalidatedStep
<1>8. CASE \/ \E block \in PeerBlocks, fits \in BOOLEAN : PeerAddsBlock(block, fits)
           \/ \E s \in Chains, h \in 1 .. MaxHeight : PeerRollsBack(s, h)
  <2>1. peerSteps < MaxPeerSteps
    BY <1>8 DEF PeerAddsBlock, PeerRollsBack, PeerStep
  <2> QED BY <2>1 DEF NoPeers, MiningInv, Turn
<1>9. CASE UNCHANGED allVars
  <2>1. UNCHANGED <<bcs, chosen, mempools, sending, revalidating, miner, minerCh, finished,
                    stopping, applying, starting, peerSteps>>
    BY <1>9 DEF allVars, vars, miningVars
  <2>2. InMemory' /\ UnderWay' /\ Mined'
    BY <2>1 DEF InMemory, UnderWay, Mined, MiningInv
  <2>3. Stamped' /\ Turn'
    BY <2>1 DEF Stamped, Turn, Starts, Timely, MiningInv
  <2> QED BY <2>2, <2>3 DEF MiningInv
<1> QED BY <1>1, <1>2, <1>3, <1>4, <1>5, <1>6, <1>7, <1>8, <1>9 DEF MiningNext

\* The blocks of a chain are its own.
LEMMA ChainsOwn ==
  ASSUME MiningInv
  PROVE  ChainsHoldTheirOwn
<1> SUFFICES ASSUME NEW s \in Chains, NEW block \in ToSet(bcs.chains[s]), NEW tx \in ToSet(block)
             PROVE  tx.chain = s
  BY DEF ChainsHoldTheirOwn
<1>1. bcs.chains[s] \in Seq(Seq(OwnTx(s)))
  BY DEF MiningInv, InMemory, Shaped
<1>2. block \in Seq(OwnTx(s))
  BY <1>1 DEF ToSet
<1>3. tx \in OwnTx(s)
  BY <1>2 DEF ToSet
<1> QED BY <1>3 DEF OwnTx

-----------------------------------------------------------------------------
\* A node without peers never adds a block with a transaction of another chain,
\* although the miner looks at the type and the round of a message only (mineLoop):
\* whatever the order in which clients, the miner, ApplyLoop and the goroutines of
\* StartMining come to act, and however late their messages are.
THEOREM BlocksHoldTheirOwn ==
  ASSUME NoPeers
  PROVE  MiningSpec => []ChainsHoldTheirOwn
<1>1. MiningInit => MiningInv
  BY MiningInvInit
<1>2. MiningInv /\ [MiningNext]_allVars => MiningInv'
  BY MiningStep
<1>3. MiningInv => ChainsHoldTheirOwn
  BY ChainsOwn
<1> QED BY <1>1, <1>2, <1>3, PTL DEF MiningSpec

=============================================================================
