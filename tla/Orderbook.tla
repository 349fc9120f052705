------------------------------- MODULE Orderbook -------------------------------
(***************************************************************************)
(* The order books of the matcher (matcher.go, orderbook.go,               *)
(* orderqueue.go).  Like the ledger they are a value here: Blockchains     *)
(* keeps them beside the ledger and tells them of every transaction that   *)
(* is in a block.                                                          *)
(*                                                                         *)
(* Two tokens share a book.  The queue of the orders that sell s to buy t  *)
(* is queue[s][t]: the QuoteQueue of the book if s is its base, the        *)
(* BaseQueue otherwise.  A heap is the set of its orders here, and its top *)
(* is any order with the best price.                                       *)
(***************************************************************************)
EXTENDS ConsensusState

CONSTANT SymbolRank   \* how names of tokens compare as strings

ASSUME SymbolRankAssumption ==
  /\ SymbolRank \in [Symbols -> Int]
  /\ \A s, t \in Symbols : SymbolRank[s] = SymbolRank[t] => s = t

\* IdToItem: an order is found by its own ID.
Queue == {queue \in [OrderIDs -> Order \cup {None}] :
            \A id \in OrderIDs : queue[id] # None => queue[id].ID = id}
Book == [buyers : Queue, sellers : Queue]
Books == [queue : [Symbols -> [Symbols -> Queue]],
          dirty : SUBSET SUBSET Symbols]   \* the books whose Dirty is set

EmptyQueue == [id \in OrderIDs |-> None]
NoBooks == [queue |-> [s \in Symbols |-> [t \in Symbols |-> EmptyQueue]], dirty |-> {}]

\* getOrderbook: symbols come into being as they are named, and no symbol has a
\* book with itself.
HasBook(s, t) == s # t

IsBase(s, t) == SymbolRank[s] > SymbolRank[t]

\* The book of base and quote.
BookOf(books, base, quote) ==
  [buyers |-> books.queue[base][quote], sellers |-> books.queue[quote][base]]

\* The book of a match.  Its buyer's order is looked for among those that sell
\* the base, whichever token the match says is bought with.
MatchBase(m) ==
  IF IsBase(m.BuySymbol, m.SellSymbol) THEN m.BuySymbol ELSE m.SellSymbol
MatchQuote(m) ==
  IF IsBase(m.BuySymbol, m.SellSymbol) THEN m.SellSymbol ELSE m.BuySymbol

BookOfMatch(books, m) == BookOf(books, MatchBase(m), MatchQuote(m))

\* Mutant: a match does not make the book dirty.
WithBookOfMatch_Clean(books, m, book) ==
  [books EXCEPT !.queue[MatchBase(m)][MatchQuote(m)] = book.buyers,
                !.queue[MatchQuote(m)][MatchBase(m)] = book.sellers]

\* The books with a new one for a match, which is then dirty.
WithBookOfMatch(books, m, book) ==
  [queue |-> [books.queue EXCEPT ![MatchBase(m)][MatchQuote(m)] = book.buyers,
                                 ![MatchQuote(m)][MatchBase(m)] = book.sellers],
   dirty |-> books.dirty \cup {{m.BuySymbol, m.SellSymbol}}]

-----------------------------------------------------------------------------
\* Orders and matches that are in a block.

\* Add.  An ID that the queue has is logged and ignored.
BookOrder(books, o, s) ==
  [queue |-> [books.queue EXCEPT ![s][o.BuySymbol][o.ID] = IF @ = None THEN o ELSE @],
   dirty |-> books.dirty \cup {{s, o.BuySymbol}}]

\* Cancel, which does not set Dirty.
UnbookOrder(books, o, s) == [books EXCEPT !.queue[s][o.BuySymbol][o.ID] = None]

\* Of applyMatchUnlocked and unapplyMatchUnlocked, one side each: order id has
\* bought and sold some.  An order with nothing left to buy leaves the queue;
\* it comes back as the backup, reduced as it was when it left, under the ID of the
\* backup, which is another's when the match names its tokens the other way round.
\* Push ignores an ID that the queue has: the amounts then go to an order that
\* is in no queue.
Traded(queue, id, bought, sold) ==
  LET o == Reduced(queue[id], bought, sold)
  IN [queue EXCEPT ![id] = IF o.AmountToBuy = 0 THEN None ELSE o]

Untraded(queue, id, backup, bought, sold) ==
  IF queue[id] # None THEN [queue EXCEPT ![id] = Restored(@, bought, sold)]
  ELSE IF queue[backup.ID] = None
  THEN [queue EXCEPT ![backup.ID] = Restored(backup, bought, sold)]
  ELSE queue

ApplyMatch(book, m) ==
  [buyers  |-> Traded(book.buyers, m.BuyOrderID, m.TransferAmt, m.BuyerLoss),
   sellers |-> Traded(book.sellers, m.SellOrderID, m.SellerGain, m.TransferAmt)]

UnapplyMatch(book, m, backup) ==
  [buyers  |-> Untraded(book.buyers, m.BuyOrderID, backup.buyers,
                        m.TransferAmt, m.BuyerLoss),
   sellers |-> Untraded(book.sellers, m.SellOrderID, backup.sellers,
                        m.SellerGain, m.TransferAmt)]

\* applyMatchUnlocked panics unless both orders are in the book.
InBook(book, m) ==
  /\ book.buyers[m.BuyOrderID] # None
  /\ book.sellers[m.SellOrderID] # None

-----------------------------------------------------------------------------
\* Prices are fractions.  One with denominator 0 is above the others, and of
\* two such neither is below, as with Go's infinities and NaN.

Bid(o) == [n |-> o.AmountToSell, d |-> o.AmountToBuy]
Ask(o) == [n |-> o.AmountToBuy, d |-> o.AmountToSell]
Below(p, q) == p.n * q.d < q.n * p.d

Orders(queue) == {queue[id] : id \in {i \in OrderIDs : queue[i] # None}}

\* Peek.
TopBuyers(book) ==
  {o \in Orders(book.buyers) : \A p \in Orders(book.buyers) : ~Below(Bid(o), Bid(p))}
TopSellers(book) ==
  {o \in Orders(book.sellers) : \A p \in Orders(book.sellers) : ~Below(Ask(p), Ask(o))}

\* Mutant: the buyer pays what the seller asks.
BookAmounts_AtAsk(buy, sell) ==
  LET transferAmt == IF buy.AmountToBuy > sell.AmountToSell THEN sell.AmountToSell
                     ELSE buy.AmountToBuy
      gain == CeilPriceTimes(sell.AmountToBuy, sell.AmountToSell, transferAmt)
  IN [transferAmt |-> transferAmt, sellerGain |-> gain, buyerLoss |-> gain]

\* What a match of two orders moves, as findMatchUnlocked computes it.  Where
\* Go converts a float64 that is no uint64 there is no match here; the ledger
\* would refuse whatever amount comes of it.
BookAmounts(buy, sell) ==
  IF buy.AmountToBuy > sell.AmountToSell
  THEN [transferAmt |-> sell.AmountToSell,
        sellerGain  |-> sell.AmountToBuy,
        buyerLoss   |-> FloorPriceTimes(buy.AmountToSell, buy.AmountToBuy,
                                        sell.AmountToSell)]
  ELSE [transferAmt |-> buy.AmountToBuy,
        sellerGain  |-> CeilPriceTimes(sell.AmountToBuy, sell.AmountToSell,
                                       buy.AmountToBuy),
        buyerLoss   |-> buy.AmountToSell]

Crossed(buy, sell) == ~Below(Bid(buy), Ask(sell))

Proposable(buy, sell) ==
  LET amounts == BookAmounts(buy, sell)
  IN /\ Crossed(buy, sell)
     /\ amounts.sellerGain # None
     /\ amounts.buyerLoss # None
     /\ amounts.sellerGain <= amounts.buyerLoss

\* There is a match to be found in the book.
Matchable(book) ==
  \E b \in TopBuyers(book), o \in TopSellers(book) : Proposable(b, o)

\* findMatchUnlocked: a match of the best buyer and the best seller, if they are
\* of one mind.  Its MatchID is random.
FindMatch(book, base, quote, matchID) ==
  {[type |-> "MATCH", chain |-> MatchChain, MatchID |-> matchID,
    SellSymbol |-> quote, SellOrderID |-> pair[2].ID,
    SellerGain |-> BookAmounts(pair[1], pair[2]).sellerGain,
    BuySymbol |-> base, BuyOrderID |-> pair[1].ID,
    BuyerLoss |-> BookAmounts(pair[1], pair[2]).buyerLoss,
    TransferAmt |-> BookAmounts(pair[1], pair[2]).transferAmt] :
     pair \in {p \in TopBuyers(book) \X TopSellers(book) : Proposable(p[1], p[2])}}

=============================================================================
