----------------------- MODULE UncommittedTransactions -----------------------
(***************************************************************************)
(* A ledger and the list of the transactions applied to it that no block   *)
(* holds yet (UncommittedTransactions, blockchains.go).  A transaction is  *)
(* validated by applying it; it stays in the list until a block with it is *)
(* added, which drops the list and keeps the ledger, or until it is        *)
(* undone, newest first.  The node keeps such a list for each chain, and   *)
(* AddBlocks one for the block it is adding.  This module is about one     *)
(* list, used by one chain at a time, while no other changes the ledger    *)
(* under it; Blockchains puts the lists and the chains together.           *)
(***************************************************************************)
EXTENDS ConsensusState, Sequences, FiniteSets, Functions

CONSTANTS
  Offered,        \* the transactions that clients, peers and the matcher offer
  MaxUncommitted  \* bound: transactions in the list

ASSUME OfferedAssumption == Offered \subseteq Transaction

\* Addresses are keys of 64 bytes, IDs and heights are uint64.
ASSUME FiniteAssumption ==
  IsFiniteSet(Addresses) /\ IsFiniteSet(OrderIDs) /\ IsFiniteSet(Heights)

VARIABLES
  cs,           \* the consensusState
  uncommitted,  \* the list
  phase,        \* "adding", or "undoing" inside undoTransactions
  saved,        \* history: saved[i] is the ledger uncommitted[i] was applied to
  matches       \* history: the matches applied and not undone

vars == <<cs, uncommitted, phase, saved, matches>>

Init ==
  /\ cs = NewConsensusState
  /\ uncommitted = <<>>
  /\ phase = "adding"
  /\ saved = <<>>
  /\ matches = {}

LastTx == uncommitted[Len(uncommitted)]

\* Mutant: the transaction is applied and not listed.
AddTransaction_NotListed(tx) ==
  /\ phase = "adding"
  /\ Len(uncommitted) < MaxUncommitted
  /\ uncommitted # <<>> => tx.chain = LastTx.chain
  /\ Accepted(cs, tx)
  /\ cs' = Applied(cs, tx)
  /\ saved' = Append(saved, cs)
  /\ matches' = IF tx.type = "MATCH" THEN matches \cup {tx} ELSE matches
  /\ UNCHANGED <<uncommitted, phase>>

\* addGenericTransaction of an accepted transaction, and addTransaction.
AddTransaction(tx) ==
  /\ phase = "adding"
  /\ Len(uncommitted) < MaxUncommitted
  /\ uncommitted # <<>> => tx.chain = LastTx.chain
  /\ Accepted(cs, tx)
  /\ cs' = Applied(cs, tx)
  /\ uncommitted' = Append(uncommitted, tx)
  /\ saved' = Append(saved, cs)
  /\ matches' = IF tx.type = "MATCH" THEN matches \cup {tx} ELSE matches
  /\ UNCHANGED phase

\* addGenericTransaction of a rejected transaction.
RejectTransaction(tx) ==
  /\ phase = "adding"
  /\ ~Accepted(cs, tx)
  /\ cs' = AfterRejected(cs, tx)
  /\ UNCHANGED <<uncommitted, phase, saved, matches>>

\* Mutant: the oldest transaction is undone first.
UndoLast_OldestFirst ==
  /\ uncommitted # <<>>
  /\ Undoable(cs, Head(uncommitted))
  /\ cs' = Undone(cs, Head(uncommitted))
  /\ uncommitted' = Tail(uncommitted)
  /\ saved' = SubSeq(saved, 1, Len(saved) - 1)
  /\ matches' = matches \ {Head(uncommitted)}

\* rollbackGenericTransaction of the newest transaction.
UndoLast ==
  /\ uncommitted # <<>>
  /\ Undoable(cs, LastTx)
  /\ cs' = Undone(cs, LastTx)
  /\ uncommitted' = SubSeq(uncommitted, 1, Len(uncommitted) - 1)
  /\ saved' = SubSeq(saved, 1, Len(saved) - 1)
  /\ matches' = matches \ {LastTx}

\* rollbackLast: the transaction belongs to a chain that is not being mined.
RollbackLast ==
  /\ phase = "adding"
  /\ UndoLast
  /\ UNCHANGED phase

\* undoTransactions, one step for each transaction of the list.
StartUndo ==
  /\ phase = "adding"
  /\ uncommitted # <<>>
  /\ phase' = "undoing"
  /\ UNCHANGED <<cs, uncommitted, saved, matches>>

UndoNext ==
  /\ phase = "undoing"
  /\ UndoLast
  /\ UNCHANGED phase

EndUndo ==
  /\ phase = "undoing"
  /\ uncommitted = <<>>
  /\ phase' = "adding"
  /\ UNCHANGED <<cs, uncommitted, saved, matches>>

\* A block holds all the transactions: AddBlocks succeeded, or ApplyLoop added
\* the mined block.  Their effects stay.
DropList ==
  /\ phase = "adding"
  /\ uncommitted # <<>>
  /\ uncommitted' = <<>>
  /\ saved' = <<>>
  /\ UNCHANGED <<cs, phase, matches>>

Next ==
  \/ \E tx \in Offered : AddTransaction(tx) \/ RejectTransaction(tx)
  \/ RollbackLast
  \/ StartUndo
  \/ UndoNext
  \/ EndUndo
  \/ DropList

Spec == Init /\ [][Next]_vars

-----------------------------------------------------------------------------
\* Type correctness: every amount is a uint64, every order is filed in a map
\* of its token, and the history has a ledger for each listed transaction.
TypeOK ==
  /\ cs \in State
  /\ uncommitted \in Seq(Offered)
  /\ phase \in {"adding", "undoing"}
  /\ saved \in Seq(State)
  /\ Len(saved) = Len(uncommitted)
  /\ matches \subseteq Offered \cap MatchTx

-----------------------------------------------------------------------------
\* Safety.

\* The orders of every token are filed consistently in openOrders,
\* deletedOrders and orderUpdatesCount, whatever was added, rejected or undone:
\* AddOrder relies on it to refuse a reused ID, rollbacks to find the order.
OrderBookkeeping == LedgerFiled(cs)

\* The counter of an order is the number of matches in force on it, which is
\* what RollbackUntilRollbackOrderSucceeds takes it for, and the used match IDs
\* are those of the matches in force.
UpdatesCountMatches == CountedIn(cs, matches)

\* All there is of a token: held or claimable, frozen, or offered in open orders.
Held(ts) ==
  SumFunction([a \in Addresses |-> ts.balances[a] + ts.unclaimedFunds[a]])
Frozen(ts) ==
  SumFunction([p \in Heights \X Addresses |-> ts.frozenTokenStore[p[1]][p[2]]])
OnOffer(ts) ==
  SumFunction([id \in OrderIDs |-> IF ts.openOrders[id] = None THEN 0
                                   ELSE ts.openOrders[id].AmountToSell])
TotalOf(ts) == Held(ts) + Frozen(ts) + OnOffer(ts)

\* What the buyers of matches paid in token s and no seller was credited.
Surplus(ms, s) ==
  SumFunction([m \in {m \in ms : m.BuySymbol = s} |-> m.BuyerLoss - m.SellerGain])

ConservedIn(ledger, ms) ==
  \A s \in Symbols : Exists(ledger, s) =>
    TotalOf(ledger.tokenStates[s]) + Surplus(ms, s) = ledger.tokenStates[s].totalSupply

\* No transaction and no undo creates or destroys a token: the supply is what
\* the addresses hold in some form plus the surplus of the matches in force.
Conservation == ConservedIn(cs, matches)

\* What order id of token s bought so far, and what it sold for it.
Bought(ms, s, id) ==
  SumFunction([m \in MatchesBuying(ms, s, id) |-> m.TransferAmt])
    + SumFunction([m \in MatchesSelling(ms, s, id) |-> m.SellerGain])
Sold(ms, s, id) ==
  SumFunction([m \in MatchesBuying(ms, s, id) |-> m.BuyerLoss])
    + SumFunction([m \in MatchesSelling(ms, s, id) |-> m.TransferAmt])

\* The price of what an order traded is no worse than it asked when placed.
InLimit(o, bought, sold) ==
  bought * (o.AmountToSell + sold) >= sold * (o.AmountToBuy + bought)

PricesKeptIn(ledger, ms) ==
  \A s \in Symbols, id \in OrderIDs :
    LET o == OrderForMatch(ledger.tokenStates[s], id)
    IN Exists(ledger, s) /\ o # None => InLimit(o, Bought(ms, s, id), Sold(ms, s, id))

\* An order never trades at a price worse than its limit, whatever sequence of
\* partial matches fills it and however each is rounded: what it bought so far,
\* over what it sold for it, is at least what it asked when it was placed.
LimitPriceRespected == PricesKeptIn(cs, matches)

\* Undoing a list newest first never needs to panic nor to roll back the match
\* chain: what a listed transaction left is still there when its turn comes.
UndoNeverStops == phase = "undoing" /\ uncommitted # <<>> => Undoable(cs, LastTx)

\* The ledger after the i-th listed transaction.
After(i) == IF i < Len(saved) THEN saved[i + 1] ELSE cs

\* The saved ledgers are a run of the listed transactions: each was accepted in
\* a ledger with its orders filed, and led to the next.  This is what makes the
\* exactness of an undo inductive: the next undo finds what its transaction left.
Traced ==
  \A i \in 1 .. Len(saved) :
    /\ LedgerFiled(saved[i])
    /\ Accepted(saved[i], uncommitted[i])
    /\ After(i) = Applied(saved[i], uncommitted[i])

-----------------------------------------------------------------------------
\* Every undo restores exactly the ledger the transaction was applied to:
\* balances, orders, counters and used IDs.
UndoIsExact ==
  [][RollbackLast \/ UndoNext => cs' = saved[Len(saved)]]_vars

\* The list is a stack of ledgers.
Log == INSTANCE UndoLog WITH Ledgers <- State, stack <- Append(saved, cs)
ImplementsUndoLog == Log!Spec

=============================================================================
