# nchainz in TLA+

nchainz is a decentralized exchange: every token has a blockchain of its own,
one more chain (`MATCH_CHAIN`) holds the matches of orders and the creation of
tokens, and every node keeps the ledger all of them amount to. These modules
model the parts of a node that decide what is in that ledger: the transactions
and their undo, the chains and their forks and recovery, the order books and
the matches they find, the protocol by which waiting transactions become blocks
of the node's own, the locks all of this is done under, and the protocol by
which nodes come to agree on a chain.

To check a run: `tlc -config <run>.cfg <module>.tla`, with the pairs of the
table under [Runs](#runs). To check the proofs: `tlapm <module>.tla` for each of
`Folding`, `ConsensusState_proofs`, `UncommittedTransactions_proofs`,
`Blockchains_proofs` (a quarter of an hour), `Matcher_proofs`, `Mining_proofs`,
`Locking_proofs` and `Reconcile_proofs`.

## The system

| Component | State | Operations | Hard about it |
|---|---|---|---|
| Ledger `ConsensusState` (consensus_state.go) | per token: open and deleted orders, update counters, balances, unclaimed funds, used IDs, frozen funds; used match IDs; created tokens | Add and Rollback of each kind of transaction, unfreezes of a height | exact inverses on uint64 and rounded prices; matches that reduce, delete and refund orders |
| `UncommittedTransactions` (blockchains.go) | a list of applied transactions that no block holds | addTransaction, undoTransactions, rollbackLast, drop | newest first, or what a later transaction left is lost |
| Chains: `Blockchains`, `Blockchain` (blockchains.go, blockchain.go) | a bucket of blocks per chain, tips and heights in memory, a list of uncommitted transactions per chain | AddBlocks, RollbackToHeight, AddTokenChain, RemoveTokenChain, AddTransactionToMempool, restoreFromDatabase | chains depend on each other: undoing an order rolls back matches, undoing a creation removes a chain; a crash between any two steps; panics half way |
| Mining: `Miner`, `StartMining`, `ApplyLoop` (miner.go, blockchains.go) | mempools, the miner's block and round, channels, the token chosen | offer a transaction, mine, add the mined block, start again | five kinds of goroutines, messages sent after the locks are released, a block added without validation |
| Matcher, order books and queues (matcher.go, orderbook.go, orderqueue.go) | per pair of tokens: two price-ordered queues, a dirty flag | AddOrder, AddMatch, cancel, FindAllMatches and the inverses | a probe that matches and then undoes; float64 prices |
| Node (node.go) | peers and their states, knownTokens, fetched blocks | RPC handlers, invalidation, reconcileChain | a fork is searched under one lock and applied under another; peers fail at any call |
| Locks (`chainsLock`, `mempoolsLock`, node's locks) | who holds what | every operation above | a panic that is recovered leaves a lock held |
| Proof of work, wallets, CLI, client, web server, configuration, logs | none that the others depend on | | |

How they interact. A client or a peer calls the node, which calls
`AddTransactionToMempool` or `AddBlocks`; both change the ledger under
`chainsLock`. `AddTransactionToMempool` sends the transaction to the miner's
channel *after* it released the lock. The miner sends a found block to
`finishedBlockCh`; `ApplyLoop` adds it, or is told by `stopMiningCh` that a
chain has changed; either way it calls `StartMining`, which undoes what was
applied for the chosen chain and leaves a goroutine behind that offers the
mempool again. `AddBlocks`, `RollbackToHeight` and `ApplyLoop` tell the matcher
of the orders and matches of blocks, and call `FindAllMatches` once they have
released the locks; it offers each match it finds to `AddTransactionToMempool`.
Every ten seconds a node sends the hashes of its chains to its peers (`INV`);
for a chain that is longer than its own the receiver starts `reconcileChain`,
which compares, rolls back and fetches block by block, each under the locks
again.

What makes each correct:

- Ledger and lists: undoing is exact; no token is created or lost; an order is
  never filled below its limit; the update counter of an order is the number of
  matches on it, since the rollback of an order waits for it to be 0.
- Chains: the ledger is what the blocks of the chains amount to, after any
  sequence of blocks, forks and restarts; blocks are not lost; recovery ends;
  no block or fork makes the node panic.
- Mining: a mined block contains what was validated, so the ledger is still what
  blocks and waiting transactions amount to; each block holds transactions of
  its own chain; mining goes on.
- Matcher: the books hold the open orders of blocks with what is left of them;
  a search leaves them as they were; what it finds, the ledger accepts; no match
  is forgotten.
- Node: a rollback keeps what both chains have in common; a reconciliation that
  ends well has the announced chain; the nodes' heights come to agree.
- Locks: whoever changes chains or lists is alone among those that take the lock; the
  two locks are taken in one order; every call returns.
- Peers: two nodes agree on whether they announce to each other, whichever calls failed.

## Modules

| Module | Models |
|---|---|
| `ConsensusState` | the ledger as a value, without variables; one operator for what each transaction needs (`...Accepted`), does (`Add...`) and undoes (`Rollback...`) |
| `UncommittedTransactions` | one ledger and one list of uncommitted transactions, one step per transaction added, refused or undone |
| `UndoLog` | what the list promises: a stack of ledgers |
| `Orderbook` | the books as a value: orders and matches added and taken back, the best orders, the match they make |
| `Blockchains` | extends ledger and books with chains, forks, cascades, mempool lists, stops and recovery; one action per critical section |
| `Mining` | extends `Blockchains` with the goroutines and channels between a mempool and a block |
| `Matcher` | extends `Blockchains` with the two callers of `FindAllMatches`, the matches on their way to the mempool, blocks of the node |
| `Locking` | the locks alone: where each goroutine is, what it holds, what it does with no lock, what a recovered panic leaves held |
| `Peers` | whom the nodes call: dialing, VERSION and ADDR, the states of peers, a peer that failed and is given up |
| `Reconcile` | extends `Peers` with several nodes and one chain: announcements, the search for the fork, rollback and fetch, blocks mined in between |
| `MCUncommittedTransactions`, `MCBlockchains`, `MCMining`, `MCMatcher`, `MCLocking`, `MCReconcile` | tokens, transactions, blocks, goroutines and chains of the small instances |
| `Folding` | lemmas for the proofs: induction over numbers, folds one element at a time |
| `ConsensusState_proofs`, `UncommittedTransactions_proofs`, `Blockchains_proofs`, `Matcher_proofs`, `Mining_proofs`, `Locking_proofs`, `Reconcile_proofs` | theorems and proofs |

The same code is looked at from several sides. `RollbackToHeight` in
`Blockchains` is what it does to ledger and books, in `Locking` the locks it
takes and leaves, in `Reconcile` the blocks it removes. The abstractions fit
together: a critical section may be one action because `Locking` has
`ChainsAreExclusive`; any rollback and block may be an input of `Blockchains`
because `Reconcile` only adds and removes blocks at the tip.

Correspondence and abstractions:

- Go maps are total functions: an absent amount is 0 and an absent order is
  `None`. `createdTokens` and `tokenStates` are one map, since both always
  change together. Amounts are modulo `Modulus`, which stands for 2^64;
  `Plus` and `Minus` wrap as Go does.
- The price of a partial fill, `uint64(math.Ceil(float64(n)/float64(d)*float64(t)))`,
  is a constant operator. TLC gets exact integer prices, which the float64
  computation returns for the amounts of the instances (the first difference
  is 15/11*11); the proofs only assume that the result is an amount or, for a
  value that is not one, `None`. `uint64(NaN)` for 0/0 depends on the
  platform and is the constant `NaNAsAmount` of one instance.
- `AddCancelOrder` changes the ledger, but its result is not assigned in
  `addGenericTransaction` (blockchains.go:642): the transaction is refused and
  its effect stays. `RejectTransaction` and `AfterRejected` model just that. A
  cancel is therefore in no list and no block, and `RollbackCancelOrder` is
  never reached.
- A block is the sequence of its transactions in the order they are applied;
  a tip hash stands for all blocks up to it, so two tips are equal when the chains are.
  Whether a peer's block extends the tip (`fits`) is a free input.
- `Blockchains` keeps in `bcs` the whole struct, so that nested calls are
  operators from a struct to a struct and an action is one critical section of
  `chainsLock`. Undo is a fold from the newest transaction back; it stops where
  the code panics (`panicked`). After a panic only the database, `chains`,
  is left, and `Restart` opens it. The loop of
  `RollbackUntilRollbackOrderSucceeds` that has no block left to remove is
  counted as such a stop too.
- `RecoverBlock(s)` takes the next block of any chain, in any order: the code's
  loop over a Go map fixes none.
- A `NewBlockMsg` empties what the miner collected without a block, so that
  array is not state of `Mining`. `AddToData` puts a transaction behind those of
  its kind and of the kinds that are applied before, as block data does.
- `minerRound` is read in the critical section (`AddTransactionToMempool`,
  `Revalidate`); the send of the message is an action of its own (`SendTx`,
  `SendRevalidated`), and so is the part of `StartMining` after the unlock
  (`SendNewBlock`). Channels keep what was sent in order; a send to
  `stopMiningCh` or `finishedBlockCh` waits for the loop and is a count and a
  set.
- A price queue is the set of its orders; `Peek` is any order with the best
  price, and prices are compared as fractions. `queue[s][t]` are the orders that
  sell `s` for `t`, whichever of the two is the base of the book. The matcher's
  `Dirty` flags are state, its `mu` is not: nothing waits for a lock inside.
- `FindAllMatches` of a book is one action (`Look`): it holds `Orderbook.mu`
  throughout. Where two best orders have one price, every choice is a `Search`.
  The matches it returns are offered one by one (`Offer`), with anything in
  between, and they stay in the mempool until a block or a refusal.
- A queue files an order under its own ID, as `IdToItem` does. A filled order
  comes back under the ID of its backup (`Untraded`); where a match names its
  tokens the other way round that is another order's, and a push that finds
  the ID in the queue is ignored.
- `Locking` has a place (`pc`) for every lock a goroutine may hold or wait for
  and nothing of what is done there: whether a chain exists, a cascade follows
  or a match is found is a free choice, up to `MaxSteps` times in a call. A
  write lock is taken in two steps, as Go does: a writer that waits keeps new
  readers out. `spoiled` holds the `Blockchains` that a panic in an undo, or a
  search under the locks, has made unusable.
- A hash in `Reconcile` is a number that no other block has; it stands for all
  blocks before it. The two reads of `getInvArgs` are two actions. A search
  ends where it ends in the code: on a match, on the last hash, or below the
  genesis block; each is `GoesOnFrom` or not. That the ledger refuses a block
  (`RefusesBlock`) or a call fails (`LoseInv`, `GetBlockFails`, `DialFails`,
  `VersionFails`) happens `MaxFailures` times; a failed call makes the peer INVALID
  (`CallFails`), and who is INVALID is neither announced to nor dialed until something is
  heard from it. A peer that is FOUND or ACTIVE but has no client yet makes the call
  panic (`NoClient`). An answer that a peer was not live is heard at once; what its
  handler starts is a goroutine of its own in `dialing`.
- A match of a token with itself, even of an order with itself, is refused by nobody:
  `AddMatch` works on two copies of one order and writes the seller's back before the
  buyer's, so that the second write is what stays. `ConsensusState` has it so.
  An order that sells 2 for 1 of its own token, matched with itself, leaves one token more
  than before, and its undo leaves the refund behind; mined, such a match finds no book and the node
  panics at every start. The instances offer none; the proofs say which theorems need that.
- In `Locking` a cancel to be signed (`CancelOrder`, node.go:370) and `GetBook`
  take no lock, and neither does `FindAllMatches` while it goes through the map of the books.
  `Race` is what Go does when one of them meets a writer of the same map: it may end the
  process.
- Signatures and proof of work are not checked here: a bad signature only refuses a
  transaction, which the model can do by not offering it, and a bad proof of
  work is logged and accepted.

## Runs

| Run (cfg) | Module | Shows |
|---|---|---|
| UncommittedTransactions | MCUncommittedTransactions | adding and undoing any of about 250 transactions: `UndoIsExact`, `ImplementsUndoLog`, `Conservation`, `LimitPriceRespected`, `UpdatesCountMatches`, `UndoNeverStops`, `OrderBookkeeping`, `TypeOK` |
| UncommittedTransactions_cancel_undo | same | **violated** `UndoNeverStops`: an order closed by a cancel cannot be undone |
| Blockchains_trades | MCBlockchains | blocks of three chains with orders, matches, transfers and a creation; forks anywhere; one crash: `LedgerIsReplay`, `OrdersKnowTheirMatches`, `MinedOrdersBooked`, `Conservation`, `TokenChainKept`, `NeverPanics`, `RecoveryFinishes`, `TypeOK` |
| Blockchains_mempool | same | the same with transactions that wait for a block, claims and a cancel: `OrdersKnowTheirMatches`, `Conservation`, `TokenChainKept` |
| Blockchains_freezes | same | frozen funds and forks around the height that ends them: `LedgerIsReplay`, `Conservation` |
| Blockchains_creation_crash | same | **violated** `TokenChainKept`: recovery deletes the chain of a token |
| Mining_alone | MCMining | all interleavings of the goroutines of a node without peers: `LedgerIsAsMined`, `ChainsHoldTheirOwn`, `MiningTypeOK` |
| Mining_peers | same | two tokens that have traded; a peer's refused block or a rollback, with its cascades, at any point: `MiningResumesOnLiveToken` |
| Mining_dependent | same | **violated** `LedgerIsAsMined`: the second of two dependent transfers is mined alone |
| Locking | MCLocking | two reconciliations (or one and a reader) with the miner's half of the node or a client: `ChainsAreExclusive`, `LockOrderUnlessSpoiled`, `EveryoneReturns` |
| Matcher | MCMatcher | two orders wait, peers add the orders they match, one match, and forks; the node mines, and crashes once: `NoMatchForgottenUnlessRefused`, `OnlyMinedOrdersBooked`, `SearchLeavesOrders`, `MatchesFoundAreValid` |
| Reconcile | MCReconcile | two nodes on a fork of two blocks against one, of which the second dials the first; one more block mined, two failures: `HashLinked`, `CommonBlocksKept`, `AdoptsTheAnnounced`, `PeersAgree`, `HeightsConverge` |

Bounds, and why they are enough. Two tokens and two addresses are what a match
relates; three chains are what a cascade crosses (an order's chain, the match
chain, the chain of a token whose creation goes). An order of 4 for 2 and
counter-orders of 1 and 2 are filled partly, exactly and with a surplus; two
matches on one order make its counter 2. Amounts wrap at 8, above every supply
(5), so that a wrap is a wrong subtraction and not a large sum. Lists of 3 or 4
hold a whole chain of dependent transactions. `MaxHeight` 5 leaves room for two
token blocks and two match blocks over the genesis blocks; 6 in the freezes
run, past both unfreeze heights. One crash in the middle is one recovery from
any database the blocks can leave. In the mining runs `MaxBlockSize` 1 makes
the second of two transactions the one too many, `MaxGoroutines` 2 lets a
goroutine of the previous start meet the next, and `MaxPeerSteps` 1 puts a
peer's step anywhere. Where the chain of matches starts at `MaxHeight` 2,
blocks are mined on the two tokens only; in `Mining_peers`, with no transaction
waiting, on the match chain too once a rollback has shortened it. Two blocks with the same transactions on the
same tip are equal in the model, though their hashes differ; the blocks the
mining instances start with hold transactions that are not mined, so that a
mined block is never taken for one of them.

In the matcher run one order of A is filled by two of B, in two matches of one
search, or by a match of a peer first; `MaxPeerSteps` 2 gives an order and a
fork or a second order, and seven match IDs are more than the run can use. The
tokens are created by the genesis block, so that no fork removes them. In the
locking run three goroutines are enough for a holder, one that waits and one
that keeps both away; `MaxSteps` 2 allows a cascade and an offered match in one
call, `MaxRestarts` 1 the old and the new locks side by side. In the reconcile
run the fork lies below both tips; a hash list of four has its match at the
end, in the middle or nowhere once the nodes have mined on; one announcement at
a time from each to the other (`MaxInvs`) may be overtaken by everything else.
Two failures (`MaxFailures`) are enough for each node to give the other up, or for one
to give the other up and a block to be refused besides.
With three nodes the instance is too large; the theorems are for any number.

`CHECK_DEADLOCK FALSE` is set where the instance may end: the mining and
matcher instances that reach `MaxHeight` or their peer steps, and the locking
instance, where a lock may be held for good.

### Fairness

`FairSpec` (trades): weak fairness of each chain's `RecoverBlock` and of
`EndRecovery`; `restoreFromDatabase` is a loop over all chains that ends when
every block is applied. `FairMiningSpec`: weak fairness of the miner's
receive, of `ApplyLoop`, of the revalidating goroutines, and of `FindBlock`
(`mineLoop` calls `Try` whenever no message waits, and a nonce is found at
last). Nothing is assumed of clients and peers. `FairSpec` (Locking): strong
fairness of the steps of each goroutine within a call, for Go's mutexes hand
themselves to the one that waits longest, a writer keeps new readers out, and
calls to peers are answered; nobody has to be started. `FairSpec` (Reconcile): weak
fairness of the ticker and of every step of a reconciliation, strong fairness of getting
`reconcileMu`, which may be taken again and again by goroutines for other
announcements; weak fairness of dialing and of the handlers. The ticker announces
to peers that are ACTIVE only, as the code does, so nothing is assumed of a peer that was
given up; nobody has to mine. `HeightsConverge` is therefore said of two nodes of which one
still counts the other as ACTIVE. Failures stop after `MaxFailures`, which the properties,
being of the form `<>[]`, need as they need that mining stops.

## Findings

1. `UncommittedTransactions_cancel_undo`: after a cancel, undoing its order
   finds an update counter of 1 and looks for a match that does not exist.
2. `Blockchains_creation_crash`: during recovery a refused block undoes a
   creation and deletes the blocks of the token.
3. `Mining_dependent`: the miner drops a message of an older round; what
   depends on that transaction is mined without it and added unchecked.

Variations of the instances that show more, by a change of a constant or an
input, and are not kept as runs of their own:

- `MaxCrashes = 1` in the freezes run: `LedgerIsReplay` fails, for recovery
  never calls `ApplyUnfreezesForBlock`.
- A freeze in the mining runs: `LedgerIsAsMined` fails at its height, for
  `ApplyLoop` does not call it either.
- A block with `AClaim(A, "v", 2)` among the blocks of the trades run:
  `NeverPanics` fails. A fork of the match chain undoes a match whose proceeds
  are claimed, and the code panics (consensus_state.go:390 and 407) before the rollback
  of the token chain that its comment announces. A claim of the refund of a
  filled order is not even noticed: the undo takes the refund back from a
  balance of 0, which wraps, and `Conservation` fails.
- A creation that waits in the mempool together with a match on its token: the
  rollback removes the token whose state it still holds, and panics.
- A peer's block that is refused, in `Mining_alone`: `AddBlocks` has undone the
  uncommitted list first and the tip stays, so a block mined from the list is
  added although its effects are gone. A late stop message does the same.
- `AddCancelOrder` and `OfferedWithCancels` in the uncommitted run:
  `Conservation` and `LimitPriceRespected` hold, undo is what fails.
- `ChainsHoldTheirOwn` with a refused block and a rollback of a peer and two
  blocks finished on one tip: after the rollback the second fits again, adding
  it changes the chosen token behind the miner's back, and the miner takes a
  transaction of the new token into its block of the old one (miner.go:72
  compares the type only).
- `MiningResumes`, where a rollback removes the token that is mined: it fails.
  The stop message names the match chain and is ignored, and the finished block
  of the token is dropped without `StartMining` (blockchains.go:424).
- `MinedOrdersBooked` in the mempool run: it fails, for `RemoveTokenChain`
  leaves the orders of the token in the books. `NeverPanics` there, without
  claims and cancels: it fails, for a peer's block matches an order that only waits in
  this node's list, which the books do not have (orderbook.go:75).
- `NoMatchForgotten` in the matcher run: it fails for a book of which the ledger
  refused a match whose order a fork had removed; removing an order does not
  make the book dirty.
- A price that is one too high for a full fill, as
  `math.Ceil(29.0/7.0*7.0)` is 30: `LimitPriceRespected` fails in the
  uncommitted run. The seller is credited one more than is left to buy, the
  amount to buy wraps, and the order stays open with nothing to sell.
- `LockOrder` in the locking run: it fails, by a panic in the undo of a list,
  which leaves `mempoolsLock` held, so that `Cleanup` waits for ever. `EveryoneReturns`
  without its exceptions fails by that too, and by a
  match found while a token is created, which is offered under the locks that
  it needs (a dirty book at that moment, as after a restart).
- `LedgerIsExclusive` in the locking run: it fails, although blockchains.go:19 calls
  `chainsLock` the "Lock on consensus state and chains". `Tx` of a cancel calls
  `GetCancelAddress` (node.go:370, consensus_state.go:474-488), which reads the maps of the
  ledger without it while another goroutine may change them.
- `AllHeightsConverge` in the reconcile run: it fails. With one failed call of each of two nodes
  both are INVALID for the other, neither announces any more (node.go:252,
  657-659), and nothing else makes them dial.
- A match of an order with itself in the uncommitted run (see above): `Conservation` and
  `UndoIsExact` fail.
- `FoundForkIsAFork` in the reconcile run: it fails. A block mined between the
  two reads of `getInvArgs` makes the height one more than there are hashes, no
  comparison fits, and the code takes a height for a fork that is none, rolling
  back blocks that both nodes have. A later announcement makes it good, as `HeightsConverge`
  shows.
- Two nodes that each hear of a longer chain of the other, one announcement
  being old, can both roll back to the fork before either serves its blocks;
  the blocks of both are lost.
- The surplus of a match, what the buyer paid above the seller's gain, goes to
  nobody, though block.go:99 calls it the miner's; `Conservation` counts it as a term of its own.

## Proofs

For all values of the constants (symbols, addresses, IDs, heights, moduli and prices;
blocks and transactions; goroutines; nodes and chains), TLAPS proves the following. Two
things the theorems on ledger, lists, chains and matcher leave out: cancels (`NoCancels`), and
matches of a token with itself, which break the accounts (`[][BetweenOnly]_vars`
in `UncommittedTransactions_proofs`: until one is accepted; `NoSelfMatches` elsewhere: there
is none).

| Module | Theorem | States |
|---|---|---|
| `ConsensusState_proofs` | `AcceptedStep` | in a ledger that is type-correct and whose orders are filed (`LedgerFiled`: open or deleted and never both, with a counter exactly when it is one of them), an accepted transaction that is no match of a token with itself leads to such a ledger, and its rollback gives back exactly the ledger before |
| `UncommittedTransactions_proofs`, of `Spec /\ [][BetweenOnly]_vars` | `TypeCorrect`, `OrdersStayFiled` | `[]TypeOK`, `[]OrderBookkeeping` |
| | `UndoRestores`, `RefinesUndoLog` | `UndoIsExact`, `ImplementsUndoLog` |
| | `CountersCountMatches` | `[]UpdatesCountMatches` |
| | `TokensConserved` | `[]Conservation`; so no uint64 addition wraps, though none is checked |
| | `UndoCanProceed` | `[]UndoNeverStops` |
| | `LimitsRespected` | `[]LimitPriceRespected`, until a match is rounded to the wrong side (`[][RoundedInside]_vars`) |
| `Blockchains_proofs` | `ChainsTypeCorrect` | `Spec => []TypeOK` |
| | `ChainsCountMatches` | `Spec => []OrdersKnowTheirMatches` |
| | `TokensKeepTheirBlocks` | `Spec => [][MatchBlockRefused \/ TokensKeepBlocks]_vars`, so that `TokenChainKept` holds while no recovery refuses a block of the match chain |
| `Matcher_proofs` | `SearchesLeaveOrders` | `MatcherSpec => SearchLeavesOrders` |
| | `MatcherCountsMatches` | `MatcherSpec => []OrdersKnowTheirMatches` |
| | `MatchesAreNotForgotten` | `MatcherSpec => []NoMatchForgottenUnlessRefused`, until rounding keeps the tops of a book apart (`[]NoneKeptApart(bcs.books)`) |
| `Mining_proofs` | `BlocksHoldTheirOwn` | `MiningSpec => []ChainsHoldTheirOwn`, with `NoPeers` |
| `Locking_proofs` | `TypeCorrect`, `Exclusive`, `Ordered` | `Spec => []TypeOK`, `[]ChainsAreExclusive`, `[]LockOrderUnlessSpoiled` |
| `Reconcile_proofs` | `ChainsLinked`, `CommonKept`, `Adopted` | `Spec => []HashLinked`, `CommonBlocksKept`, `AdoptsTheAnnounced` |

The argument for the lists. That the ledger after an undo is the one before the transaction
is not inductive: the next undo must find what *its* transaction left. The
inductive invariant `IInv == TypeOK /\ LedgerFiled(cs) /\ Traced /\ ListedBetween` keeps for every listed
transaction the ledger it was applied to, and says that it was
accepted there and led to the next. `AcceptedStep` then turns every undo into a
pop. `LedgerFiled` is needed because a fill finds its order again among the
deleted or the open ones: a filled order must not have been in both.

The argument for the accounts. Counters, supply and surplus say something of
the ledger and of the matches in force together, and an undo goes back to an
earlier ledger: `AccountsInv` therefore says it of the ledger, and of each
saved ledger with the matches that were in force then. A transaction of a
token's chain moves funds within the sum `TotalOf`; a match takes from the
token the buyer pays in what the buyer loses and gives back what the seller
gains, and the surplus grows by the difference. That the sum is below the
modulus is what makes `Plus` an addition, so conservation and the absence of
wrapping are proved together. `UndoNeverStops` follows: what a match credited is
still there, and the counter of the newest order is the number of matches on it,
which is 0. For the limits, an order that bought b for d and has S left to sell and B
to buy is within its limit when b * S >= d * B (`LimitIsPriceLeft`), and a
match that gives x for y with x * S >= y * B keeps that (`PriceStep`). Nothing is
assumed of the prices: float64 does not keep them on the side their name says
(`math.Ceil(29.0/7.0*7.0)` is 30, and the limit is then exceeded, see above). The
theorem says that only a match which is itself rounded so
(`RoundedInside` fails of the step that accepts it) takes an order below its limit, and that
matches which are not do not add up to that. TLC's instances have none.

The argument for the chains. The property speaks of all matches on the match
chain and in its list, and the operations take them away in several ways:
from the end of a list, from the end of a block that was refused half way, and by the
rollback that undoing an order of a token starts on the match chain, which may
undo the creation of other tokens. `ChainsInv` says of a running node that its
chains are `Fit`: everything on a chain is of that chain (`Stocked`), and with all blocks and
the list of the match chain applied the matches in force are exactly theirs
(`Sound`, with `Tallied` for one ledger); of a node that opens its
database, that it is `Restoring`: the same with the blocks applied so far, the lists empty, and
no block applied of a token that is not there. `Orderly` says that no match is
in a chain twice and no token is created after a match on it: without it, undoing
one transaction could take away what another still needs.
`Tallied` also says that a deleted order has a match in force, so that an order that
is undone is an open one. The proof goes
from one transaction (`TxAdded`, `MatchTxUndone`, `UndoneOnLedger`) to folds of
them (`DataAdded`, `MatchChainUndone`, `TokenTxsRetracted`), to the cascade
(`OrderFreed`: each block rolled back takes its matches off the counter, so
that it reaches 0 exactly when the matches on the order are gone), to the operations
(`PeerBlockAdded`, `RolledBackToHeight`, `TxOffered`, `RecoveredAccepted`,
`RecoveredRefused`) and the step `ChainsStep`. TLC checked `ChainsInv` on the runs of
`Blockchains` before it was proved.

That a token keeps its blocks needs to be known of the tokens what `Tallied` says of the matches:
`Peopled`, part of `Sound`, says that a token which the match chain or its list creates is in
the ledger, and that no two of them create it. So a block that creates a token finds
none there and adds the token's chain; an undo of a creation takes the chain of a token that
the match chain no longer creates, its block having left; and a refused block undoes only
what it has itself created. Only in a recovery does that leave the creation on the match chain, since the refused
block stays there to be tried again: `MatchBlockRefused` is that step, the theorem says it
is the only one, and the run `creation_crash` that it does lose the blocks (finding 2).

The argument for the matcher. Its spec is that of the chains with more actions, so
`OffersInv` is `ChainsInv` and that what waits is matches. That a search leaves the
queues alone goes over its matches (`OneMoreFound`): the
search with one more match, taken back by one, is the search before it, since the top
orders are in their queues under their own IDs, a match takes no more
than an order has, and a filled order is not in the queue it comes back to. That a
search goes on until nothing is left to match takes a count (`SearchFinds`):
each match fills one of its orders. `NoMatchForgottenUnlessRefused` is
inductive only with what is true of all other operations. `Loses` says it:
an operation makes a book dirty or only takes orders from it, and
`Blockchains_proofs` shows it of every one, cascades and recovery included. A book
that loses orders has no better prices at its tops, so what can be matched
there could be before (`TemptingBefore`). `MatcherInv` adds to `OffersInv` what the property says, of a
node that is recovering too (`Awaited`); TLC checked it on the matcher run first. A match that no longer waits was refused, or came
into a block and made its book dirty. Two best orders which cross can still be kept
apart by rounding (15/11*11 is 14 as a float64): the search leaves their book clean with
nothing found, and losing an order may then bring a pair to the top that can be
matched. So the theorem is about what happens until a book is in that state (`NoneKeptApart`, of
the books reached and their tops, not of all prices); the matcher run never reaches one. A seller with nothing to
sell is excepted in the property itself: its price is infinite, or NaN beside a buyer,
and at the top with any other.

The argument for mining. The miner looks at the type of a transaction and at the round of
its message, not at the token, and the chosen token may have changed since the
message was sent. `MiningInv == InMemory /\ UnderWay /\ Mined /\ Stamped /\ Turn` says why
that is enough. `Turn`: one of the miner, `ApplyLoop` and the channels between
them has the turn, since `StartMining` is only called when a block was found and the
miner then waits for the next message that starts one. So the token does not change
while a block is mined for it. `Stamped`: a message is of the miner's round or an earlier
one, and if it is of this round while a block is mined, it is of that block's
token; a message that was stamped under the token before is of an earlier round as soon as the
next block starts, and dropped. `InMemory`, `UnderWay` and `Mined` say what blocks,
mempools and messages hold. `AddMinedBlock` undoes and adds without looking at the result, so the
ledger may be anything here: the lemmas on `Shaped` say what every
operation does to chains and lists whatever the ledger is, cancels and undos that find nothing
included. `NoPeers` is needed: a peer's block makes `ApplyStop` start mining again while a
block of the old start is on its way, and the property is then false (variations above).

The argument for `Locking`. That two goroutines are not in the same critical
section does not follow from itself: it must be known what each place holds.
`IInv == TypeOK /\ Holds /\ ReconcilesCurrent /\ InOrder /\ ClosedIsPast`: `Holds` says for
every place which locks the goroutine has; `ReconcilesCurrent`, that a reconciliation
works on the current `Blockchains` and has `reconcileMu`, without which a restart could
close what another is reopening; `InOrder`, that while nothing is spoiled who holds `mempoolsLock` is changing the
lists, or has closed the `Blockchains`, and does not wait for `chainsLock`;
`ClosedIsPast`, that a closed `Blockchains` is an earlier one, or the current
one while its successor is opened by who keeps its locks.

The argument for `Reconcile`. Each step changes one chain while jobs and
announcements keep hashes of chains that are gone. `OneHistory` makes a hash
mean the same everywhere: any two lists of hashes, of chains, announcements and
jobs, that have a hash in common go on alike to their ends. `Numbers` keeps new hashes
new. `JobsFit` says where each reconciliation stands: before the rollback no
block above the height found is in the announcement; once a block is to be
added it is the one the list names. The last block added then brings the whole
list, since its hash stands for all before it; that is `Adopted`.

Sums and folds. `SumFunction`, `MapThenSumSet`, `FoldLeft` and `FoldRight` are
recursive definitions of the community modules. An induction theorem that takes
an operator as a parameter cannot be used; `Induct` and `InductUpTo`
(Folding), over a set of numbers, can. `Folding` proves with them that a fold goes one
step for each element, from either end; it takes the step as a CONSTANT, and each fold of
`Blockchains`, `Matcher` and `Mining` has an INSTANCE of it. `UncommittedTransactions_proofs` proves that the
function a sum stands for exists and what changing one summand does. A sequence
built with `SelectSeq` or `FlattenSeq` is beyond the provers, so `Mining` sweeps a list
by a fold, as the code's loop does, and `AddToData` inserts at a place.

Assumptions of the model:

- `OfferedAssumption` types the transactions; `BlocksAssumption`: a block holds
  transactions of its chain, as its encoding does.
- `PriceAssumption` only types the prices. `FiniteAssumption`: addresses, order IDs
  and heights are finite sets (keys of 64 bytes and uint64), so that sums exist;
  `MatcherAssumption` says it of order IDs again, where a search is bounded by the orders of
  its book.
- `PeersAssumption` types the seeds. `DiskAssumption`: the chains read from the disk are linked and share their past up to where
  they part, as chains of mined blocks do. `BoundsAssumption` and `LockingAssumption` type
  the bounds.

TLC evaluates them on the instances. `NoCancels` is a hypothesis of the theorems on
lists, chains and matcher: no cancel is offered, or in a block. One that takes effect changes the
ledger without being listed and adds to a counter: `Traced`,
`UpdatesCountMatches` and `OrdersKnowTheirMatches` are then false. The
instances `trades`, `freezes`, `creation_crash` and `matcher` are without cancels; the cancel of the
`mempool` run finds no open order and panics. `NoPeers` (`MaxPeerSteps = 0`) is a hypothesis of
`BlocksHoldTheirOwn` alone, which allows cancels and matches of a token with itself; the instance `Mining_alone` has no peers.

Two habits of the modules keep the checker and the prover on one reading of a
formula: the arms of a `CASE` are disjoint (TLC takes the first that is true, the
prover may take any), and a `UNION` with a `\cup` after it is in parentheses (the
two give the operators different precedence).

Only model-checked, and why:

- `Conservation` of `Blockchains`: with a token created again over a bucket that was
  there, or a freeze twice on a chain, the sums of the property count
  what the instances do not have. `LedgerIsReplay` compares with the blocks taken in an
  order that TLC chooses; for any constants another order may refuse a block.
- `NeverPanics`, `MinedOrdersBooked` and `OnlyMinedOrdersBooked` hold for the blocks and transactions of
  their instances; variations above make them fail.
- `TokenChainKept` in the step of a recovery that refuses a block of the match chain: false in
  `creation_crash`, and true in `trades` and `mempool` for their blocks only.
- `LedgerIsAsMined` and the ledger's type in `MiningTypeOK`: `AddMinedBlock` undoes and
  adds without looking at the result, so ledger and lists come apart (finding 3): what can
  be said of the ledger holds for instances whose transactions do not depend on each other.
- `MatchesFoundAreValid`: it compares a search with a replay of the blocks, and
  holds for the blocks of its instance only (a fork may have left orders in the books).
- Everything with cancels, the `violation` runs, and liveness, which is out of the prover's reach.

## Not modelled, and the plan

1. The gossip of transactions, and the list of seeds that a node writes and reads when it is
   started again. A TX or an ADDR that fails sets the peer INVALID as an INV that fails
   does; only the last is in `Peers`.
2. Several chains in `Reconcile`: a rollback of one chain shortens another, whose
   announcement may be on its way. The cascades are in `Blockchains`.
3. A peer that never answers keeps `reconcileMu`, and with it every
   reconciliation of the node (node.go:341 has no timeout): the fairness of
   `Locking` and `Reconcile` assumes that it answers.
4. Proofs: `TypeOK` with cancels; the type of a ledger after an undo that does not
   fit it, for `MiningTypeOK`; that a height is the number of blocks of a chain.

Left out for good: proof of work (a search without shared state), wallets
(cryptography), command line, client and web server (stateless translation),
logs and reports (output).
