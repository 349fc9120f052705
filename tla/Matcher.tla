-------------------------------- MODULE Matcher --------------------------------
(***************************************************************************)
(* How orders become matches (matcher.go, orderbook.go and their callers): *)
(* reconcileChain and ApplyLoop search the books after they have changed   *)
(* the chains and released the locks, each match found is offered to the   *)
(* mempool by itself, and it comes back into the books in a block.  The    *)
(* timing of the miner is in Mining; here its block takes all that waits   *)
(* for it, or nothing.                                                     *)
(***************************************************************************)
EXTENDS Blockchains

CONSTANTS
  MaxGoroutines,  \* bound: goroutines of StartMining at work at once
  MaxPeerSteps    \* bound: blocks and rollbacks that come from peers

\* The IDs of orders are uint64.
ASSUME MatcherAssumption ==
  {MaxGoroutines, MaxPeerSteps} \subseteq Nat /\ IsFiniteSet(OrderIDs)

VARIABLES
  looking,       \* the books that each caller of FindAllMatches has still to look at
  found,         \* the matches that it has found and not offered yet
  mempool,       \* the matches in mempools[MATCH_CHAIN]
  revalidating,  \* of each goroutine of StartMining, what it has still to offer again
  mining,        \* there is a block the miner works on
  peerSteps,     \* steps of peers so far
  refused        \* history: the books of which a match was refused since their last search

matcherVars == <<looking, found, mempool, revalidating, mining, peerSteps,
                 refused>>
allVars == <<vars, matcherVars>>

\* reconcileMu keeps callers of reconcileChain apart, so that there is one at a time.
Callers == {"reconcileChain", "ApplyLoop"}

Pairs == {{s, t} : s, t \in Symbols} \ {{s} : s \in Symbols}

Idle(g) == looking[g] = {} /\ found[g] = <<>>

MatcherInit ==
  /\ Init
  /\ looking = [g \in Callers |-> {}]
  /\ found = [g \in Callers |-> <<>>]
  /\ mempool = {}
  /\ revalidating = <<>>
  /\ mining = TRUE
  /\ peerSteps = 0
  /\ refused = {}

-----------------------------------------------------------------------------
\* Orderbook.FindAllMatches: matches are found and applied one by one, and then taken
\* back, the last first.

\* What applyMatchUnlocked leaves of both orders, which stay with the discovery.
OrdersAfter(book, m) ==
  [buyers  |-> Reduced(book.buyers[m.BuyOrderID], m.TransferAmt, m.BuyerLoss),
   sellers |-> Reduced(book.sellers[m.SellOrderID], m.SellerGain, m.TransferAmt)]

\* The searches that a search may become with one more match: ties go either way.
\* look says which book is searched, and with which IDs for its matches: with none left
\* (bound) an instance has no such search.
Searched(search, look) ==
  LET free == look.ids \ {trade.match.MatchID : trade \in ToSet(search.trades)}
  IN IF ~Matchable(search.book) THEN {search}
     ELSE IF free = {} THEN {}
     ELSE {[book   |-> ApplyMatch(search.book, m),
            trades |-> Append(search.trades,
                              [match |-> m, orders |-> OrdersAfter(search.book, m)])] :
             m \in FindMatch(search.book, look.base, look.quote, CHOOSE id \in free : TRUE)}

SearchOn(searches, look) == UNION {Searched(search, look) : search \in searches}

\* A match fills one of its orders at least.
Searches(book, look) ==
  LET orders == Cardinality(Orders(book.buyers)) + Cardinality(Orders(book.sellers))
  IN FoldLeft(SearchOn, {[book |-> book, trades |-> <<>>]}, [i \in 1 .. orders |-> look])

Untrade(trade, book) == UnapplyMatch(book, trade.match, trade.orders)

\* Mutant: the matches are taken back the first first.
TakenBack_FirstFirst(search) ==
  LET Oldest(book, trade) == Untrade(trade, book)
  IN FoldLeft(Oldest, search.book, search.trades)

TakenBack(search) == FoldRight(Untrade, search.trades, search.book)

\* rand.Uint64 gives an ID that no match has, here or at a peer.
KnownMatches ==
  Matches \cup mempool \cup (UNION {ToSet(found[g]) : g \in Callers})
    \cup {tx \in UNION {ToSet(block.txs) : block \in PeerBlocks} : tx.type = "MATCH"}
FreshIDs == MatchIDs \ {m.MatchID : m \in KnownMatches}

\* The books after a search of one of them.
WithBookSearched(books, base, quote, book) ==
  [queue |-> [books.queue EXCEPT ![base][quote] = book.buyers, ![quote][base] = book.sellers],
   dirty |-> books.dirty \ {{base, quote}}]

\* One book of Matcher.FindAllMatches.
Look(g, base, quote) ==
  LET book == BookOf(bcs.books, base, quote)
  IN /\ Running
     /\ found[g] = <<>>
     /\ {base, quote} \in looking[g]
     /\ IsBase(base, quote)
     /\ looking' = [looking EXCEPT ![g] = @ \ {{base, quote}}]
     /\ IF {base, quote} \in bcs.books.dirty
        THEN \E search \in Searches(book, [base |-> base, quote |-> quote, ids |-> FreshIDs]) :
               /\ bcs' = [bcs EXCEPT
                    !.books = WithBookSearched(@, base, quote, TakenBack(search))]
               /\ found' = [found EXCEPT ![g] =
                    [i \in DOMAIN search.trades |-> search.trades[i].match]]
        ELSE UNCHANGED <<bcs, found>>
     /\ refused' = IF {base, quote} \in bcs.books.dirty THEN refused \ {{base, quote}}
                   ELSE refused
     /\ UNCHANGED <<chosen, replayed, crashes, mempool, revalidating, mining,
                    peerSteps>>

BookOfTx(m) == {m.BuySymbol, m.SellSymbol}

\* returnMatch: AddTransactionToMempool.  What it says of the match is not looked at.
Offer(g) ==
  LET m == Head(found[g])
      accepted == Accepted(bcs.cs, m)
  IN /\ Running
     /\ found[g] # <<>>
     /\ bcs' = Settled(Offered(bcs, m))
     /\ mempool' = IF accepted THEN mempool \cup {m} ELSE mempool
     /\ refused' = IF accepted THEN refused ELSE refused \cup {BookOfTx(m)}
     /\ found' = [found EXCEPT ![g] = Tail(@)]
     /\ UNCHANGED <<chosen, replayed, crashes, looking, revalidating, mining, peerSteps>>

-----------------------------------------------------------------------------
\* reconcileChain.

LookEverywhere(g) ==
  /\ Idle(g)
  /\ looking' = [looking EXCEPT ![g] = Pairs]
  /\ UNCHANGED found

PeerStep ==
  /\ peerSteps < MaxPeerSteps
  /\ peerSteps' = peerSteps + 1
  /\ LookEverywhere("reconcileChain")

PeerAddsBlock(block) ==
  /\ AddBlock(block, TRUE)
  /\ PeerStep
  /\ UNCHANGED <<mempool, revalidating, mining, refused>>

PeerRollsBack(s, h) ==
  /\ RollbackToHeight(s, h)
  /\ PeerStep
  /\ UNCHANGED <<mempool, revalidating, mining, refused>>

-----------------------------------------------------------------------------
\* ApplyLoop and the goroutines of StartMining.

\* A block of the node with all that waits for it.
AddMinedBlock ==
  LET txs == bcs.mempoolUncommitted[chosen]
  IN /\ Running
     /\ mining
     /\ HasChain(bcs, chosen)
     /\ Len(bcs.chains[chosen]) < MaxHeight
     /\ bcs' = [FoldLeft(IntoBooks, Appended(bcs, chosen, txs), txs)
                  EXCEPT !.mempoolUncommitted[chosen] = <<>>]
     /\ mempool' = mempool \ ToSet(txs)
     /\ mining' = FALSE
     /\ LookEverywhere("ApplyLoop")
     /\ UNCHANGED <<chosen, replayed, crashes, revalidating, peerSteps, refused>>

\* After a block of the node, or for the same token after a message on stopMiningCh.
StartMining ==
  /\ Running
  /\ Idle("ApplyLoop")
  /\ Len(revalidating) < MaxGoroutines
  /\ chosen' \in IF mining THEN {chosen} ELSE {s \in Chains : HasChain(bcs, s)}
  /\ HasChain(bcs, chosen')
  /\ bcs' = Settled(ForgetUncommitted(bcs, chosen'))
  /\ revalidating' = IF chosen' = MatchChain /\ mempool # {}
                     THEN Append(revalidating, mempool) ELSE revalidating
  /\ mining' = TRUE
  /\ UNCHANGED <<replayed, crashes, looking, found, mempool, peerSteps, refused>>

Revalidate(i, m) ==
  LET rest == IF chosen # MatchChain \/ revalidating[i] = {m}
              THEN RemoveAt(revalidating, i)
              ELSE [revalidating EXCEPT ![i] = @ \ {m}]
      accepted == Accepted(bcs.cs, m)
  IN /\ Running
     /\ m \in revalidating[i]
     /\ revalidating' = rest
     /\ IF chosen # MatchChain THEN UNCHANGED <<bcs, mempool, refused>>
        ELSE /\ bcs' = IF accepted THEN [AddTx(bcs, m) EXCEPT
                                           !.mempoolUncommitted[chosen] = Append(@, m)]
                       ELSE [bcs EXCEPT !.cs = AfterRejected(@, m)]
             /\ mempool' = IF accepted THEN mempool ELSE mempool \ {m}
             /\ refused' = IF accepted THEN refused ELSE refused \cup {BookOfTx(m)}
     /\ UNCHANGED <<chosen, replayed, crashes, looking, found, mining, peerSteps>>

-----------------------------------------------------------------------------
\* A restart: nothing but the database is left.  The books are those of its blocks, and
\* dirty; nobody looks at them until blocks are added or removed again.
MatcherRestart ==
  /\ Restart
  /\ looking' = [g \in Callers |-> {}]
  /\ found' = [g \in Callers |-> <<>>]
  /\ mempool' = {}
  /\ revalidating' = <<>>
  /\ mining' = FALSE
  /\ refused' = {}
  /\ UNCHANGED peerSteps

Recovery ==
  /\ EndRecovery \/ \E s \in Chains : RecoverBlock(s)
  /\ UNCHANGED matcherVars

MatcherNext ==
  \/ \E g \in Callers :
       \/ \E base, quote \in Symbols : Look(g, base, quote)
       \/ Offer(g)
  \/ \E block \in PeerBlocks : PeerAddsBlock(block)
  \/ \E s \in Chains, h \in 1 .. MaxHeight : PeerRollsBack(s, h)
  \/ AddMinedBlock
  \/ StartMining
  \/ \E i \in DOMAIN revalidating : \E m \in revalidating[i] : Revalidate(i, m)
  \/ MatcherRestart
  \/ Recovery

MatcherSpec == MatcherInit /\ [][MatcherNext]_allVars

-----------------------------------------------------------------------------
\* A search leaves every order as it was, however many matches it tries: what
\* FindAllMatches applies it takes back.
SearchLeavesOrders ==
  [][(\E g \in Callers, base, quote \in Symbols : Look(g, base, quote))
       => UNCHANGED bcs.books.queue]_allVars

\* The ledger of the blocks accepts all the matches that a search of its books finds, in
\* the order they are found: amounts, prices and roundings of the matcher and of
\* the ledger agree, also for orders that are filled in several matches.
MatchesFoundAreValid ==
  [][\A g \in Callers :
       found[g] = <<>> /\ found'[g] # <<>>
         => LET r == AddData(Replay(bcs.chains).bcs, found'[g])
            IN r.ok /\ ~r.bcs.panicked]_allVars

\* A book with two orders at its tops that could be matched is dirty, to be searched
\* after the next change, or a match of it waits.  A seller with nothing to sell is not
\* meant: its price is infinite, or 0 / 0, which is at the top beside any other.
MatchAwaited(s, t) ==
  LET book == BookOf(bcs.books, s, t)
      waiting == mempool \cup (UNION {ToSet(found[g]) : g \in Callers})
  IN (\E b \in TopBuyers(book), o \in TopSellers(book) :
        o.AmountToSell # 0 /\ Proposable(b, o))
       => {s, t} \in bcs.books.dirty \/ \E m \in waiting : BookOfTx(m) = {s, t}

\* No match is forgotten, over any order of searches, offers, blocks and forks ...
NoMatchForgotten ==
  Running => \A s, t \in Symbols : IsBase(s, t) => MatchAwaited(s, t)

\* ... but for books of which the ledger refused a match that was found: an order of a
\* fork that is gone leaves its book without making it dirty (Cancel).
NoMatchForgottenUnlessRefused ==
  Running => \A s, t \in Symbols :
               IsBase(s, t) => MatchAwaited(s, t) \/ {s, t} \in refused

=============================================================================
