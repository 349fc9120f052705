------------------------------- MODULE Mining -------------------------------
(***************************************************************************)
(* How the transactions that wait in a node's mempools become blocks of    *)
(* its own (miner.go and the mining half of blockchains.go).  Five kinds   *)
(* of goroutines meet here: callers of AddTransactionToMempool, the miner, *)
(* ApplyLoop, the goroutines that StartMining leaves behind to offer a     *)
(* mempool again, and peers that add and remove blocks.  They share the    *)
(* Blockchains under chainsLock, but messages to the miner are sent after  *)
(* the lock is released, and a block the miner has found is added without  *)
(* its transactions being checked again.                                   *)
(***************************************************************************)
EXTENDS Blockchains

CONSTANTS
  MaxBlockSize,   \* MAX_BLOCK_SIZE
  MaxPeerSteps,   \* bound: blocks and rollbacks that come from peers
  MaxGoroutines   \* bound: goroutines of StartMining at work at once

ASSUME MiningAssumption == {MaxBlockSize, MaxPeerSteps, MaxGoroutines} \subseteq Nat

VARIABLES
  mempools,      \* of each chain, the transactions waiting
  sending,       \* messages that AddTransactionToMempool is about to send
  revalidating,  \* the goroutines of StartMining
  miner,         \* the block the miner works on, or None, and minerRound
  minerCh,       \* its channel
  finished,      \* BlockMsgs on their way to ApplyLoop
  stopping,      \* of each chain, how many sends to stopMiningCh are under way
  applying,      \* where ApplyLoop is
  starting,      \* what StartMining read before it released the locks, or None
  peerSteps      \* steps of peers so far

miningVars == <<mempools, sending, revalidating, miner, minerCh, finished,
                stopping, applying, starting, peerSteps>>

allVars == <<vars, miningVars>>

NewBlockMsg(symbol, last) == [type |-> "NEW_BLOCK", symbol |-> symbol, last |-> last]
TxMsg(tx, round) == [type |-> "TX", tx |-> tx, round |-> round]

\* A tip hash is the whole chain up to it, here as in Blockchains.
IsWork(block) ==
  /\ block \in [symbol : Chains, last : Seq(Block), txs : Block]
  /\ Cardinality(ToSet(block.txs)) <= MaxBlockSize

MiningInit ==
  /\ Init
  /\ mempools = [s \in Chains |-> {}]
  /\ sending = {}
  /\ revalidating = <<>>
  /\ miner = [block |-> None, round |-> 0]
  /\ minerCh = <<>>
  /\ finished = {}
  /\ stopping = [s \in Chains |-> 0]
  /\ applying = "choose"
  /\ starting = None
  /\ peerSteps = 0

\* The mempool of a token goes with its chain.
Surviving(pools, b) == [s \in Chains |-> IF HasChain(b, s) THEN pools[s] ELSE {}]

-----------------------------------------------------------------------------
\* Clients, peers and the matcher: AddTransactionToMempool.

KnownTx(tx) ==
  \E other \in mempools[tx.chain] :
    \/ other = tx
    \/ /\ tx.type # "CLAIM_FUNDS"
       /\ other.type = tx.type
       /\ TxID(other) = TxID(tx)

\* minerRound is read under the locks of Blockchains, which the miner does not
\* take, and the message is sent once they are released.
AddTransactionToMempool(tx) ==
  LET accepted == Accepted(bcs.cs, tx)
  IN /\ Running
     /\ HasChain(bcs, tx.chain)
     /\ ~KnownTx(tx)
     /\ Len(bcs.mempoolUncommitted[tx.chain]) < MaxUncommitted
     /\ bcs' = Offered(bcs, tx)
     /\ mempools' = IF accepted
                    THEN Surviving([mempools EXCEPT ![tx.chain] = @ \cup {tx}], bcs')
                    ELSE mempools
     /\ sending' = IF accepted /\ tx.chain = chosen
                   THEN sending \cup {TxMsg(tx, miner.round)}
                   ELSE sending
     /\ UNCHANGED <<chosen, replayed, crashes, revalidating, miner, minerCh,
                    finished, stopping, applying, starting, peerSteps>>

SendTx(msg) ==
  /\ Running
  /\ minerCh' = Append(minerCh, msg)
  /\ sending' = sending \ {msg}
  /\ UNCHANGED <<vars, mempools, revalidating, miner, finished, stopping,
                 applying, starting, peerSteps>>

-----------------------------------------------------------------------------
\* The miner: mineLoop.

\* Block data keeps the transactions of a type together, in the order in which
\* addMatchData and addTokenData apply the types.
Rank(tx) ==
  LET types == <<"CREATE_TOKEN", "MATCH", "CANCEL_ORDER",
                 "CLAIM_FUNDS", "TRANSFER", "FREEZE", "ORDER">>
  IN CHOOSE k \in DOMAIN types : types[k] = tx.type

\* A transaction goes behind those of its type and of the types before.
AddToData(txs, tx) ==
  LET before == {k \in DOMAIN txs : Rank(txs[k]) <= Rank(tx)}
  IN InsertAt(txs, Cardinality(before) + 1, tx)

OnMatchChain(tx) == tx.type \in {"MATCH", "CANCEL_ORDER", "CREATE_TOKEN"}

HasRoom(block) == Cardinality(ToSet(block.txs)) < MaxBlockSize
OfKind(tx, block) == OnMatchChain(tx) <=> block.symbol = MatchChain

\* Mutants: the round is not compared; a block has no limit.
TakeTx_AnyRound(work, msg) ==
  IF work.block # None /\ HasRoom(work.block) /\ OfKind(msg.tx, work.block)
  THEN [work EXCEPT !.block.txs = AddToData(@, msg.tx)]
  ELSE work
TakeTx_NoLimit(work, msg) ==
  IF msg.round = work.round /\ work.block # None /\ OfKind(msg.tx, work.block)
  THEN [work EXCEPT !.block.txs = AddToData(@, msg.tx)]
  ELSE work

\* A transaction of this round, while there is a block of its kind with room.
\* Without a block it goes to an array that the next NewBlockMsg empties.
TakeTx(work, msg) ==
  IF /\ msg.round = work.round
     /\ work.block # None
     /\ HasRoom(work.block)
     /\ OfKind(msg.tx, work.block)
  THEN [work EXCEPT !.block.txs = AddToData(@, msg.tx)]
  ELSE work

Receive ==
  /\ Running
  /\ minerCh # <<>>
  /\ LET msg == Head(minerCh)
     IN miner' = IF msg.type = "NEW_BLOCK"
                 THEN [block |-> [symbol |-> msg.symbol, last |-> msg.last, txs |-> <<>>],
                       round |-> miner.round + 1]
                 ELSE TakeTx(miner, msg)
  /\ minerCh' = Tail(minerCh)
  /\ UNCHANGED <<vars, mempools, sending, revalidating, finished, stopping,
                 applying, starting, peerSteps>>

\* Try finds a nonce; it is only called when no message waits.
FindBlock ==
  /\ Running
  /\ minerCh = <<>>
  /\ miner.block # None
  /\ Len(miner.block.last) < MaxHeight
  /\ finished' = finished \cup {[block |-> miner.block, round |-> miner.round]}
  /\ miner' = [miner EXCEPT !.block = None]
  /\ UNCHANGED <<vars, mempools, sending, revalidating, minerCh, stopping,
                 applying, starting, peerSteps>>

-----------------------------------------------------------------------------
\* ApplyLoop.

\* Mutant: the transactions that are not in the block stay applied.
AddMinedBlock_KeepsRest(b, mined) ==
  LET s == mined.symbol
  IN [Appended(b, s, mined.txs) EXCEPT !.mempoolUncommitted[s] = <<>>]

\* A transaction of the list: one that is in the block leaves the mempool, and the
\* matcher is told of it.
Sweep(r, tx) ==
  IF tx \in r.inBlock THEN [r EXCEPT !.bcs = IntoBooks(@, tx)]
  ELSE [r EXCEPT !.still = Append(@, tx)]

\* The block goes on its chain as it is.  The transactions of the list that are
\* not in it are undone, the last first.
AddMinedBlock(b, mined) ==
  LET s == mined.symbol
      swept == FoldLeft(Sweep,
                        [bcs |-> Appended(b, s, mined.txs),
                         inBlock |-> ToSet(mined.txs), still |-> <<>>],
                        b.mempoolUncommitted[s])
  IN [Settled(UndoTransactions(swept.bcs, swept.still))
        EXCEPT !.mempoolUncommitted[s] = <<>>]

\* A block of a token that is gone.  Nothing starts again.
DropFinished(f) ==
  /\ Running
  /\ applying = "select"
  /\ ~HasChain(bcs, f.block.symbol)
  /\ finished' = finished \ {f}
  /\ UNCHANGED <<vars, mempools, sending, revalidating, miner, minerCh, stopping,
                 applying, starting, peerSteps>>

\* A block on a tip that is not the tip of its chain any more.
RetryFinished(f) ==
  /\ Running
  /\ applying = "select"
  /\ HasChain(bcs, f.block.symbol)
  /\ bcs.chains[f.block.symbol] # f.block.last
  /\ bcs' = Settled(ForgetUncommitted(bcs, f.block.symbol))
  /\ mempools' = Surviving(mempools, bcs')
  /\ finished' = finished \ {f}
  /\ applying' = "restart"
  /\ UNCHANGED <<chosen, replayed, crashes, sending, revalidating, miner, minerCh,
                 stopping, starting, peerSteps>>

\* Mutant: the loop goes on without mining again.
AddFinished_NoRestart(f) ==
  LET s == f.block.symbol
      mined == ToSet(f.block.txs) \cap ToSet(bcs.mempoolUncommitted[s])
  IN /\ Running
     /\ applying = "select"
     /\ HasChain(bcs, s)
     /\ bcs.chains[s] = f.block.last
     /\ bcs' = AddMinedBlock(bcs, f.block)
     /\ mempools' = Surviving([mempools EXCEPT ![s] = @ \ mined], bcs')
     /\ finished' = finished \ {f}
     /\ applying' = "select"
     /\ UNCHANGED <<chosen, replayed, crashes, sending, revalidating, miner,
                    minerCh, stopping, starting, peerSteps>>

\* A block that extends its chain.
AddFinished(f) ==
  LET s == f.block.symbol
      mined == ToSet(f.block.txs) \cap ToSet(bcs.mempoolUncommitted[s])
  IN /\ Running
     /\ applying = "select"
     /\ HasChain(bcs, s)
     /\ bcs.chains[s] = f.block.last
     /\ bcs' = AddMinedBlock(bcs, f.block)
     /\ mempools' = Surviving([mempools EXCEPT ![s] = @ \ mined], bcs')
     /\ finished' = finished \ {f}
     /\ applying' = "choose"
     /\ UNCHANGED <<chosen, replayed, crashes, sending, revalidating, miner,
                    minerCh, stopping, starting, peerSteps>>

\* A message on stopMiningCh.
ApplyStop(s) ==
  /\ Running
  /\ applying = "select"
  /\ stopping[s] > 0
  /\ stopping' = [stopping EXCEPT ![s] = @ - 1]
  /\ applying' = IF s = chosen THEN "restart" ELSE "select"
  /\ UNCHANGED <<vars, mempools, sending, revalidating, miner, minerCh, finished,
                 starting, peerSteps>>

\* StartMining up to where it releases the locks.  Whatever was applied for the
\* chain is undone; its mempool is offered to the miner again later.  The list
\* of a token that is gone is a nil pointer.
StartMining ==
  /\ Running
  /\ applying \in {"choose", "restart"}
  /\ Len(revalidating) < MaxGoroutines
  /\ chosen' \in IF applying = "choose" THEN {s \in Chains : HasChain(bcs, s)}
                 ELSE {chosen}
  /\ bcs' = IF HasChain(bcs, chosen') THEN Settled(ForgetUncommitted(bcs, chosen'))
            ELSE Panic(bcs)
  /\ mempools' = Surviving(mempools, bcs')
  /\ starting' = [last |-> bcs'.chains[chosen'], transactions |-> mempools[chosen']]
  /\ applying' = "send"
  /\ UNCHANGED <<replayed, crashes, sending, revalidating, miner, minerCh,
                 finished, stopping, peerSteps>>

\* The rest of StartMining.
SendNewBlock ==
  /\ Running
  /\ applying = "send"
  /\ minerCh' = Append(minerCh, NewBlockMsg(chosen, starting.last))
  /\ revalidating' =
       IF starting.transactions = {} THEN revalidating
       ELSE Append(revalidating, [token |-> chosen, msg |-> None,
                                  transactions |-> starting.transactions])
  /\ applying' = "select"
  /\ starting' = None
  /\ UNCHANGED <<vars, mempools, sending, miner, finished, stopping, peerSteps>>

-----------------------------------------------------------------------------
\* The goroutine of StartMining.  Its transactions come from a map, in any order.

Without(goroutines, i) ==
  IF goroutines[i].transactions = {} /\ goroutines[i].msg = None
  THEN RemoveAt(goroutines, i) ELSE goroutines

Revalidate(i, tx) ==
  LET accepted == HasChain(bcs, tx.chain) /\ Accepted(bcs.cs, tx)
      next == [revalidating EXCEPT
                 ![i].transactions = @ \ {tx},
                 ![i].msg = IF accepted THEN TxMsg(tx, miner.round) ELSE None]
  IN /\ Running
     /\ revalidating[i].msg = None
     /\ tx \in revalidating[i].transactions
     /\ IF revalidating[i].token # chosen
        THEN /\ revalidating' = RemoveAt(revalidating, i)
             /\ UNCHANGED <<bcs, mempools>>
        ELSE /\ revalidating' = Without(next, i)
             /\ bcs' = IF accepted
                       THEN [AddTx(bcs, tx) EXCEPT
                               !.mempoolUncommitted[chosen] = Append(@, tx)]
                       ELSE [bcs EXCEPT !.cs = AfterRejected(@, tx)]
             /\ mempools' = IF accepted THEN mempools
                            ELSE [mempools EXCEPT ![chosen] = @ \ {tx}]
     /\ UNCHANGED <<chosen, replayed, crashes, sending, miner, minerCh, finished,
                    stopping, applying, starting, peerSteps>>

SendRevalidated(i) ==
  /\ Running
  /\ revalidating[i].msg # None
  /\ minerCh' = Append(minerCh, revalidating[i].msg)
  /\ revalidating' = Without([revalidating EXCEPT ![i].msg = None], i)
  /\ UNCHANGED <<vars, mempools, sending, miner, finished, stopping, applying,
                 starting, peerSteps>>

-----------------------------------------------------------------------------
\* Peers.  Each of their steps sends the symbol to stopMiningCh; a rollback that
\* cascades sends MATCH_CHAIN too, once for each time it rolls that chain back.

PeerStep(s, cascades) ==
  /\ peerSteps < MaxPeerSteps
  /\ peerSteps' = peerSteps + 1
  /\ stopping' = [[stopping EXCEPT ![s] = @ + 1] EXCEPT ![MatchChain] = @ + cascades]
  /\ mempools' = Surviving(mempools, bcs')
  /\ UNCHANGED <<sending, revalidating, miner, minerCh, finished, applying, starting>>

PeerAddsBlock(block, fits) == AddBlock(block, fits) /\ PeerStep(block.symbol, 0)
PeerRollsBack(s, h) ==
  LET forgotten == Settled(ForgetUncommitted(bcs, s))
      rolledBack == RollbackBlocks(forgotten, s, bcs.height[s] - h)
  IN RollbackToHeight(s, h) /\ PeerStep(s, rolledBack.cascades)

MiningNext ==
  \/ \E tx \in MempoolTxs : AddTransactionToMempool(tx)
  \/ \E msg \in sending : SendTx(msg)
  \/ Receive
  \/ FindBlock
  \/ \E f \in finished : DropFinished(f) \/ RetryFinished(f) \/ AddFinished(f)
  \/ \E s \in Chains : ApplyStop(s)
  \/ StartMining
  \/ SendNewBlock
  \/ \E i \in DOMAIN revalidating :
       \/ \E tx \in revalidating[i].transactions : Revalidate(i, tx)
       \/ SendRevalidated(i)
  \/ \E block \in PeerBlocks, fits \in BOOLEAN : PeerAddsBlock(block, fits)
  \/ \E s \in Chains, h \in 1 .. MaxHeight : PeerRollsBack(s, h)

MiningSpec == MiningInit /\ [][MiningNext]_allVars

\* Goroutines are scheduled, a receive takes what was sent, and a miner that
\* goes on trying finds a nonce.
ApplyLoop == \/ \E f \in finished :
                   DropFinished(f) \/ RetryFinished(f) \/ AddFinished(f)
             \/ \E s \in Chains : ApplyStop(s)
             \/ StartMining
             \/ SendNewBlock
Goroutines == \E i \in DOMAIN revalidating :
                \/ \E tx \in revalidating[i].transactions : Revalidate(i, tx)
                \/ SendRevalidated(i)
FairMiningSpec ==
  /\ MiningSpec
  /\ WF_allVars(Receive)
  /\ WF_allVars(FindBlock)
  /\ WF_allVars(ApplyLoop)
  /\ WF_allVars(Goroutines)

-----------------------------------------------------------------------------
\* Type correctness: the miner works on a block of one chain that never has more
\* than MAX_BLOCK_SIZE transactions, mempools hold transactions of their chain.
MiningTypeOK ==
  /\ bcs \in Blockchains
  /\ \A s \in Chains : mempools[s] \subseteq {tx \in Transaction : tx.chain = s}
  /\ miner.round \in Nat
  /\ miner.block # None => IsWork(miner.block)
  /\ \A f \in finished : IsWork(f.block)
  /\ stopping \in [Chains -> Nat]
  /\ applying \in {"select", "choose", "restart", "send"}
  /\ applying = "send" <=> starting # None

\* The ledger is what the blocks of the chains and the transactions listed as
\* waiting amount to, and the blocks can be applied again in some order, by a
\* peer or by a restart: "state was applied during validation so just add to
\* chain" (ApplyLoop).
LedgerIsAsMined ==
  Running =>
    LET r == Replay(bcs.chains)
        AddWaiting(b, s) == FoldLeft(AddTx, b, bcs.mempoolUncommitted[s])
    IN /\ \A s \in Chains : r.next[s] = Len(bcs.chains[s]) + 1
       /\ FoldLeft(AddWaiting, r.bcs, SetToSeq(Chains)).cs = bcs.cs

\* No block with a transaction of another chain is ever added, although the
\* miner looks at the type of a transaction only.
ChainsHoldTheirOwn ==
  \A s \in Chains : \A block \in ToSet(bcs.chains[s]) :
    \A tx \in ToSet(block) : tx.chain = s

\* A miner without a block is given one again: "Restarting mining due to new block
\* being added or removed" (ApplyLoop).  It does not hold: nothing starts again when
\* the token that was mined is gone (DropFinished).
MiningResumes == miner.block = None ~> (miner.block # None \/ bcs.panicked)

\* The same as long as the token that the miner works for is not removed.
MiningResumesOnLiveToken ==
  miner.block = None
    ~> (miner.block # None \/ bcs.panicked \/ ~HasChain(bcs, chosen))

=============================================================================
