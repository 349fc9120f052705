----------------------------- MODULE Matcher_proofs -----------------------------
(***************************************************************************)
(* The matcher, for every value of the constants in which no order is      *)
(* cancelled and no match is of a token with itself: a search leaves the   *)
(* books as they were, and no match is forgotten, over any order of        *)
(* searches, offers, blocks, forks, stops and recoveries, but for books of *)
(* which the ledger refused a match that was found, as long as rounding    *)
(* keeps the tops of no book apart.                                        *)
(*                                                                         *)
(* The argument has two halves.  A search: each match that it applies it   *)
(* can take back, so that the books it takes the matches back from are     *)
(* those it began with (OneMoreFound), and it finds a match if there is    *)
(* one (SearchFinds).  And everything else: an operation of the chains     *)
(* makes a book dirty or only takes orders from it (Loses), and a book     *)
(* that loses orders has no better price at its tops than before           *)
(* (TemptingBefore).  So a book that has something to match and is not     *)
(* dirty had something to match before, and what waits for it waits on or  *)
(* makes the book dirty as it comes back in a block (MatcherStep).         *)
(***************************************************************************)
EXTENDS Matcher, Blockchains_proofs

-----------------------------------------------------------------------------
\* Matches of a book.

\* The matches there can be.
BookMatch == {tx \in TxOn(MatchChain) : tx.type = "MATCH"}

\* What they are made of.
LEMMA BookMatchFields ==
  ASSUME NEW m \in BookMatch
  PROVE  m \in MatchTx /\ m.BuySymbol # m.SellSymbol /\ m.type = "MATCH" /\ m.chain = MatchChain
BY TxOnMatchChain DEF BookMatch

\* The orders of a queue are orders.
LEMMA OrdersAreOrders ==
  ASSUME NEW queue \in Queue, NEW o \in Orders(queue)
  PROVE  o \in Order /\ o.ID \in OrderIDs /\ queue[o.ID] = o /\ o # None
<1>1. PICK id \in OrderIDs : queue[id] # None /\ o = queue[id]
  BY DEF Orders
<1>2. queue[id] \in Order \cup {None} /\ queue[id].ID = id
  BY <1>1 DEF Queue
<1> QED BY <1>1, <1>2

\* The amounts of an order are.
LEMMA OrderAmounts ==
  ASSUME NEW o \in Order
  PROVE  /\ o.AmountToBuy \in Amount /\ o.AmountToSell \in Amount
         /\ o.AmountToBuy \in Nat /\ o.AmountToSell \in Nat
<1>1. o.AmountToBuy \in Amount /\ o.AmountToSell \in Amount
  BY DEF Order
<1> QED BY <1>1, AmountIsNat

\* What two orders could exchange is amounts, once it is no None.
LEMMA BookAmountsType ==
  ASSUME NEW b \in Order, NEW o \in Order, Proposable(b, o)
  PROVE  /\ BookAmounts(b, o).transferAmt \in Amount
         /\ BookAmounts(b, o).sellerGain \in Amount
         /\ BookAmounts(b, o).buyerLoss \in Amount
<1> DEFINE amounts == BookAmounts(b, o)
<1>1. /\ b.AmountToBuy \in Amount /\ b.AmountToSell \in Amount
      /\ o.AmountToBuy \in Amount /\ o.AmountToSell \in Amount
  BY OrderAmounts
<1>2. /\ FloorPriceTimes(b.AmountToSell, b.AmountToBuy, o.AmountToSell) \in Amount \cup {None}
      /\ CeilPriceTimes(o.AmountToBuy, o.AmountToSell, b.AmountToBuy) \in Amount \cup {None}
  BY <1>1, PriceAssumption
<1>3. amounts.sellerGain # None /\ amounts.buyerLoss # None
  BY DEF Proposable
<1>4. CASE b.AmountToBuy > o.AmountToSell
  <2>1. /\ amounts.transferAmt = o.AmountToSell /\ amounts.sellerGain = o.AmountToBuy
        /\ amounts.buyerLoss
             = FloorPriceTimes(b.AmountToSell, b.AmountToBuy, o.AmountToSell)
    BY <1>4 DEF BookAmounts
  <2> QED BY <1>1, <1>2, <1>3, <2>1
<1>5. CASE ~(b.AmountToBuy > o.AmountToSell)
  <2>1. /\ amounts.transferAmt = b.AmountToBuy /\ amounts.buyerLoss = b.AmountToSell
        /\ amounts.sellerGain
             = CeilPriceTimes(o.AmountToBuy, o.AmountToSell, b.AmountToBuy)
    BY <1>5 DEF BookAmounts
  <2> QED BY <1>1, <1>2, <1>3, <2>1
<1> QED BY <1>4, <1>5

\* A match that is found in a book is a match of it.
LEMMA FoundInBook ==
  ASSUME NEW base \in Symbols, NEW quote \in Symbols, IsBase(base, quote),
         NEW matchID \in MatchIDs, NEW book \in Book,
         NEW m \in FindMatch(book, base, quote, matchID)
  PROVE  /\ m \in BookMatch /\ BookOfTx(m) = {base, quote} /\ InBook(book, m)
<1>1. PICK b \in TopBuyers(book), o \in TopSellers(book) :
        /\ Proposable(b, o)
        /\ m = [type |-> "MATCH", chain |-> MatchChain, MatchID |-> matchID,
                SellSymbol |-> quote, SellOrderID |-> o.ID,
                SellerGain |-> BookAmounts(b, o).sellerGain,
                BuySymbol |-> base, BuyOrderID |-> b.ID,
                BuyerLoss |-> BookAmounts(b, o).buyerLoss,
                TransferAmt |-> BookAmounts(b, o).transferAmt]
  BY DEF FindMatch
<1>2. book.buyers \in Queue /\ book.sellers \in Queue
  BY DEF Book
<1>3. b \in Order /\ b.ID \in OrderIDs /\ book.buyers[b.ID] = b /\ b # None
  BY <1>2, OrdersAreOrders DEF TopBuyers
<1>4. o \in Order /\ o.ID \in OrderIDs /\ book.sellers[o.ID] = o /\ o # None
  BY <1>2, OrdersAreOrders DEF TopSellers
<1>5. /\ BookAmounts(b, o).transferAmt \in Amount
      /\ BookAmounts(b, o).sellerGain \in Amount
      /\ BookAmounts(b, o).buyerLoss \in Amount
  BY <1>1, <1>3, <1>4, BookAmountsType
<1>6. base # quote
  <2>1. SymbolRank[base] \in Int
    BY SymbolRankAssumption
  <2> QED BY <2>1 DEF IsBase
<1>7. m \in MatchTx
  BY <1>1, <1>3, <1>4, <1>5 DEF MatchTx
<1>8. m \in TxOn(MatchChain)
  BY <1>1, <1>6, <1>7 DEF TxOn, Transaction, BetweenTokens
<1>9. m.type = "MATCH" /\ m.BuySymbol = base /\ m.SellSymbol = quote
      /\ m.BuyOrderID = b.ID /\ m.SellOrderID = o.ID
  BY <1>1
<1> QED BY <1>3, <1>4, <1>8, <1>9 DEF BookMatch, BookOfTx, InBook

-----------------------------------------------------------------------------
\* A match taken back.

\* One side of it: the order that is left, or that left, is what the discovery kept.
LEMMA TradedBack ==
  ASSUME NEW queue \in Queue, NEW id \in OrderIDs, queue[id] # None,
         NEW bought \in Amount, NEW sold \in Amount
  PROVE  Untraded(Traded(queue, id, bought, sold), id,
                  Reduced(queue[id], bought, sold), bought, sold) = queue
<1> DEFINE o == queue[id]
           r == Reduced(o, bought, sold)
           q == Traded(queue, id, bought, sold)
<1>1. o \in Order /\ o.ID = id /\ queue \in [OrderIDs -> Order \cup {None}]
  BY DEF Queue
<1>2. r \in Order /\ r.ID = id /\ Restored(r, bought, sold) = o /\ r # None
  BY <1>1, OrderFilledType, NoneAssumption
<1>3. q = [queue EXCEPT ![id] = IF r.AmountToBuy = 0 THEN None ELSE r]
  BY DEF Traded
<1> HIDE DEF r, q
<1>4. CASE r.AmountToBuy = 0
  <2>1. q = [queue EXCEPT ![id] = None] /\ q[id] = None
    BY <1>1, <1>3, <1>4
  <2>2. Untraded(q, id, r, bought, sold) = [q EXCEPT ![id] = Restored(r, bought, sold)]
    BY <1>2, <2>1 DEF Untraded
  <2>3. [[queue EXCEPT ![id] = None] EXCEPT ![id] = o] = queue
    BY <1>1
  <2> QED BY <1>2, <2>1, <2>2, <2>3 DEF r, q
<1>5. CASE r.AmountToBuy # 0
  <2>1. q = [queue EXCEPT ![id] = r] /\ q[id] = r
    BY <1>1, <1>3, <1>5
  <2>2. Untraded(q, id, r, bought, sold) = [q EXCEPT ![id] = Restored(r, bought, sold)]
    BY <1>2, <2>1 DEF Untraded
  <2>3. [[queue EXCEPT ![id] = r] EXCEPT ![id] = o] = queue
    BY <1>1
  <2> QED BY <1>2, <2>1, <2>2, <2>3 DEF r, q
<1> QED BY <1>4, <1>5

\* Both sides.
LEMMA MatchTakenBack ==
  ASSUME NEW book \in Book, NEW m \in MatchTx, InBook(book, m)
  PROVE  UnapplyMatch(ApplyMatch(book, m), m, OrdersAfter(book, m)) = book
<1> DEFINE a == ApplyMatch(book, m)
           after == OrdersAfter(book, m)
<1>1. /\ m.BuyOrderID \in OrderIDs /\ m.SellOrderID \in OrderIDs
      /\ m.TransferAmt \in Amount /\ m.BuyerLoss \in Amount /\ m.SellerGain \in Amount
  BY MatchFields
<1>2. /\ book.buyers \in Queue /\ book.sellers \in Queue
      /\ book = [buyers |-> book.buyers, sellers |-> book.sellers]
  BY DEF Book
<1>3. Untraded(a.buyers, m.BuyOrderID, after.buyers, m.TransferAmt, m.BuyerLoss) = book.buyers
  BY <1>1, <1>2, TradedBack DEF InBook, ApplyMatch, OrdersAfter
<1>4. Untraded(a.sellers, m.SellOrderID, after.sellers, m.SellerGain, m.TransferAmt)
        = book.sellers
  BY <1>1, <1>2, TradedBack DEF InBook, ApplyMatch, OrdersAfter
<1> HIDE DEF a, after
<1>5. UnapplyMatch(a, m, after) = [buyers |-> book.buyers, sellers |-> book.sellers]
  BY <1>3, <1>4 DEF UnapplyMatch
<1> QED BY <1>2, <1>5 DEF a, after

-----------------------------------------------------------------------------
\* A search.

\* Taking back, one match at a time.
Untrading == INSTANCE Folding WITH Step <- Untrade

\* The last match is the first to be taken back.
LEMMA LastTakenBack ==
  ASSUME NEW S, NEW trades \in Seq(S), NEW trade \in S, NEW book
  PROVE  FoldRight(Untrade, Append(trades, trade), book)
           = FoldRight(Untrade, trades, Untrade(trade, book))
<1>1. \A seq, base : Untrading!FoldRight(Untrade, seq, base) = FoldRight(Untrade, seq, base)
  BY DEF Untrading!FoldRight, FoldRight, Untrading!MapThenFoldSet, MapThenFoldSet,
         Untrading!Min, Min
<1>2. Untrading!FoldRight(Untrade, Append(trades, trade), book)
        = Untrading!FoldRight(Untrade, trades, Untrade(trade, book))
  BY ONLY Untrading!FoldRightAppend, trades \in Seq(S), trade \in S
<1> QED BY <1>1, <1>2

\* With none to take back nothing happens.
LEMMA NoneTakenBack ==
  ASSUME NEW book
  PROVE  FoldRight(Untrade, <<>>, book) = book
<1> DEFINE trades == <<>>
<1>1. trades \in Seq({}) /\ Len(trades) = 0
  OBVIOUS
<1> HIDE DEF trades
<1>2. Untrading!FoldRight(Untrade, trades, book) = FoldRight(Untrade, trades, book)
  BY DEF Untrading!FoldRight, FoldRight, Untrading!MapThenFoldSet, MapThenFoldSet,
         Untrading!Min, Min
<1>3. PICK g : Untrading!RightSteps(trades, book, g)
               /\ Untrading!FoldRight(Untrade, trades, book) = g[0]
  BY ONLY <1>1, Untrading!FoldRightSteps
<1>4. g[0] = book
  BY <1>1, <1>3 DEF Untrading!RightSteps
<1> QED BY <1>2, <1>3, <1>4 DEF trades

\* A match that was found, with what is left of its orders.
TradeOf(base, quote) ==
  [match : {m \in BookMatch : BookOfTx(m) = {base, quote}},
   orders : [buyers : Order, sellers : Order]]

\* A search of a book for two tokens, which can take back what it has applied.
SearchOf(book, base, quote, search) ==
  /\ search.book \in Book /\ search.trades \in Seq(TradeOf(base, quote))
  /\ TakenBack(search) = book
  /\ search.trades = <<>> => search.book = book

\* It still is one with one more match, and it finds one if there is one.
LEMMA OneMoreFound ==
  ASSUME NEW base \in Symbols, NEW quote \in Symbols, IsBase(base, quote),
         NEW look, look.base = base, look.quote = quote, look.ids \subseteq MatchIDs,
         NEW book, NEW search, SearchOf(book, base, quote, search),
         NEW search2 \in Searched(search, look)
  PROVE  /\ SearchOf(book, base, quote, search2)
         /\ search.trades # <<>> \/ Matchable(search.book) => search2.trades # <<>>
<1>1. CASE ~Matchable(search.book)
  <2>1. search2 = search
    BY <1>1 DEF Searched
  <2> QED BY <1>1, <2>1
<1>2. CASE Matchable(search.book)
  <2> DEFINE free == look.ids \ {trade.match.MatchID : trade \in ToSet(search.trades)}
             id == CHOOSE i \in free : TRUE
  <2>1. free # {} /\ id \in MatchIDs
    <3>1. free # {}
      BY <1>2 DEF Searched
    <3> QED BY <3>1
  <2> HIDE DEF id
  <2>2. PICK m \in FindMatch(search.book, base, quote, id) :
          search2 = [book   |-> ApplyMatch(search.book, m),
                     trades |-> Append(search.trades,
                                  [match |-> m, orders |-> OrdersAfter(search.book, m)])]
    BY <1>2, <2>1 DEF Searched, id
  <2> HIDE DEF free
  <2> DEFINE c == search.book
             trade == [match |-> m, orders |-> OrdersAfter(c, m)]
  <2>3. c \in Book /\ search.trades \in Seq(TradeOf(base, quote))
    BY DEF SearchOf
  <2>4. m \in BookMatch /\ BookOfTx(m) = {base, quote} /\ InBook(c, m)
    BY <2>1, <2>3, FoundInBook
  <2>5. m \in MatchTx
    BY <2>4, BookMatchFields
  <2>6. /\ m.BuyOrderID \in OrderIDs /\ m.SellOrderID \in OrderIDs
        /\ m.TransferAmt \in Amount /\ m.BuyerLoss \in Amount /\ m.SellerGain \in Amount
    BY <2>5, MatchFields
  <2>7. ApplyMatch(c, m) \in Book
    BY <2>3, <2>4, <2>5, MatchedBookType
  <2>8. OrdersAfter(c, m) \in [buyers : Order, sellers : Order]
    <3>1. c.buyers[m.BuyOrderID] \in Order /\ c.sellers[m.SellOrderID] \in Order
      BY <2>3, <2>4, <2>6 DEF InBook, Book, Queue
    <3> QED BY <2>6, <3>1, OrderFilledType DEF OrdersAfter
  <2>9. Untrade(trade, ApplyMatch(c, m)) = c
    BY <2>3, <2>4, <2>5, MatchTakenBack DEF Untrade
  <2>10. trade \in TradeOf(base, quote)
    BY <2>4, <2>8 DEF TradeOf
  <2>11. search2.book = ApplyMatch(c, m) /\ search2.trades = Append(search.trades, trade)
    BY <2>2
  <2> HIDE DEF c, trade
  <2>12. search2.trades \in Seq(TradeOf(base, quote)) /\ search2.trades # <<>>
    BY <2>3, <2>10, <2>11
  <2>13. TakenBack(search2) = TakenBack(search)
    <3> DEFINE S == TradeOf(base, quote)
               trades == search.trades
               d == ApplyMatch(c, m)
    <3>1. trade \in S /\ trades \in Seq(S)
      BY <2>3, <2>10
    <3> HIDE DEF S, trades, d
    <3>2. FoldRight(Untrade, Append(trades, trade), d)
            = FoldRight(Untrade, trades, Untrade(trade, d))
      BY ONLY <3>1, LastTakenBack
    <3> QED BY <2>9, <2>11, <3>2 DEF TakenBack, c, d, trades
  <2> QED BY <2>7, <2>11, <2>12, <2>13 DEF SearchOf
<1> QED BY <1>1, <1>2

\* The searches of a book, one more match at a time.
Searching == INSTANCE Folding WITH Step <- SearchOn

\* The fold over the matches there may be goes one step for each of them.
LEMMA SearchSteps ==
  ASSUME NEW S, NEW seq \in Seq(S), NEW base
  PROVE  \E g : Searching!LeftSteps(seq, base, g) /\ FoldLeft(SearchOn, base, seq) = g[Len(seq)]
<1>1. Searching!FoldLeft(SearchOn, base, seq) = FoldLeft(SearchOn, base, seq)
  BY DEF Searching!FoldLeft, FoldLeft, Searching!MapThenFoldSet, MapThenFoldSet,
         Searching!Max, Max
<1>2. \E g : Searching!LeftSteps(seq, base, g)
               /\ Searching!FoldLeft(SearchOn, base, seq) = g[Len(seq)]
  BY ONLY Searching!FoldLeftSteps, seq \in Seq(S)
<1> QED BY <1>1, <1>2

\* The orders of a queue are as many as a number says; one if there is an order.
LEMMA OrdersCounted ==
  ASSUME NEW queue
  PROVE  /\ IsFiniteSet(Orders(queue)) /\ Cardinality(Orders(queue)) \in Nat
         /\ Orders(queue) # {} => Cardinality(Orders(queue)) # 0
<1> DEFINE ids == {i \in OrderIDs : queue[i] # None}
<1>1. IsFiniteSet(ids)
  BY MatcherAssumption, FS_Subset
<1> DEFINE f == [id \in ids |-> queue[id]]
<1>2. f \in Surjection(ids, Orders(queue))
  BY DEF Orders, Surjection
<1> HIDE DEF ids, f
<1>3. IsFiniteSet(Orders(queue))
  BY <1>1, <1>2, FS_Surjection
<1> QED BY <1>3, FS_CardinalityType, FS_EmptySet

\* What a search of a book comes to: taken back, its matches leave the book as it was,
\* and a book that is Matchable has at least one.
LEMMA SearchFinds ==
  ASSUME NEW base \in Symbols, NEW quote \in Symbols, IsBase(base, quote),
         NEW look, look.base = base, look.quote = quote, look.ids \subseteq MatchIDs,
         NEW book \in Book, NEW search \in Searches(book, look)
  PROVE  /\ SearchOf(book, base, quote, search)
         /\ Matchable(book) => search.trades # <<>>
<1> DEFINE n == Cardinality(Orders(book.buyers)) + Cardinality(Orders(book.sellers))
           seq == [i \in 1 .. n |-> look]
           start == {[book |-> book, trades |-> <<>>]}
           Good(k, s) == /\ SearchOf(book, base, quote, s)
                         /\ k # 0 /\ Matchable(book) => s.trades # <<>>
<1>1. n \in Nat /\ (Matchable(book) => n # 0)
  <2>1. Matchable(book) => Orders(book.buyers) # {}
    BY DEF Matchable, TopBuyers
  <2>2. /\ Cardinality(Orders(book.buyers)) \in Nat /\ Cardinality(Orders(book.sellers)) \in Nat
        /\ Orders(book.buyers) # {} => Cardinality(Orders(book.buyers)) # 0
    BY OrdersCounted
  <2> QED BY <2>1, <2>2
<1>2. search \in FoldLeft(SearchOn, start, seq)
  BY DEF Searches
<1> HIDE DEF n
<1>3. seq \in Seq({look}) /\ Len(seq) = n /\ \A k \in 1 .. n : seq[k] = look
  BY <1>1
<1>4. \A s \in start : Good(0, s)
  <2>1. TakenBack([book |-> book, trades |-> <<>>]) = book
    <3>1. FoldRight(Untrade, <<>>, book) = book
      BY ONLY NoneTakenBack
    <3> QED BY <3>1 DEF TakenBack
  <2> SUFFICES ASSUME NEW s \in start
               PROVE  Good(0, s)
    OBVIOUS
  <2>2. s = [book |-> book, trades |-> <<>>]
    OBVIOUS
  <2>3. s.book = book /\ s.trades = <<>> /\ TakenBack(s) = book
    BY <2>1, <2>2
  <2>4. s.trades \in Seq(TradeOf(base, quote))
    BY <2>3
  <2> QED BY <2>3, <2>4 DEF SearchOf
<1> HIDE DEF seq, start
<1>5. PICK g : Searching!LeftSteps(seq, start, g) /\ FoldLeft(SearchOn, start, seq) = g[n]
  BY <1>3, SearchSteps
<1>6. g[0] = start /\ \A k \in 1 .. n : g[k] = SearchOn(g[k - 1], look)
  BY <1>3, <1>5 DEF Searching!LeftSteps
<1> DEFINE N == {k \in 0 .. n : \A s \in g[k] : Good(k, s)}
<1>7. 0 \in N
  <2> HIDE DEF Good
  <2> QED BY <1>1, <1>4, <1>6
<1>8. ASSUME NEW k \in 1 .. n, k - 1 \in N
      PROVE  k \in N
  <2> SUFFICES ASSUME NEW s2 \in g[k]
               PROVE  Good(k, s2)
    BY <1>1
  <2>1. PICK s \in g[k - 1] : s2 \in Searched(s, look)
    BY <1>6 DEF SearchOn
  <2>2. Good(k - 1, s)
    <3> HIDE DEF Good
    <3> QED BY <1>8
  <2>3. /\ SearchOf(book, base, quote, s2)
        /\ s.trades # <<>> \/ Matchable(s.book) => s2.trades # <<>>
    BY <2>1, <2>2, OneMoreFound
  <2>4. s.trades = <<>> => s.book = book
    BY <2>2 DEF SearchOf
  <2> QED BY <2>3, <2>4
<1>9. n \in N
  <2> HIDE DEF N
  <2> QED BY <1>1, <1>7, <1>8, Adding!InductUpTo
<1>10. Good(n, search)
  <2> HIDE DEF Good
  <2> QED BY <1>2, <1>5, <1>9
<1> QED BY <1>1, <1>10

-----------------------------------------------------------------------------
\* The tops of a book that loses orders.

StrictOrder(R, S) ==
  /\ \A y \in S : <<y, y>> \notin R
  /\ \A y1, y2, y3 \in S : <<y1, y2>> \in R /\ <<y2, y3>> \in R => <<y1, y3>> \in R

\* In a finite set with a strict order there is a greatest above every element.
LEMMA GreatestAbove ==
  ASSUME NEW S, IsFiniteSet(S), NEW R, StrictOrder(R, S), NEW x \in S
  PROVE  \E y \in S : (y = x \/ <<x, y>> \in R) /\ \A z \in S : <<y, z>> \notin R
<1> DEFINE T == {y \in S : y = x \/ <<x, y>> \in R}
           Above(y) == {z \in S : <<y, z>> \in R}
           N == {Cardinality(Above(y)) : y \in T}
<1>1. \A y : IsFiniteSet(Above(y)) /\ Cardinality(Above(y)) \in Nat
  <2> SUFFICES ASSUME NEW y
               PROVE  IsFiniteSet(Above(y)) /\ Cardinality(Above(y)) \in Nat
    OBVIOUS
  <2>1. Above(y) \subseteq S
    OBVIOUS
  <2> HIDE DEF Above
  <2> QED BY <2>1, FS_Subset, FS_CardinalityType
<1>2. N \subseteq Nat /\ N # {}
  <2>1. x \in T
    OBVIOUS
  <2> HIDE DEF Above, T
  <2> QED BY <1>1, <2>1
<1>3. PICK n \in N : \A k \in N : n <= k
  <2> HIDE DEF N
  <2> QED BY <1>2, Adding!LeastElement
<1>4. PICK y \in T : n = Cardinality(Above(y))
  <2> HIDE DEF Above
  <2> QED BY <1>3
<1>5. ASSUME NEW z \in S, <<y, z>> \in R
      PROVE  FALSE
  <2>1. z \in T
    BY <1>4, <1>5 DEF StrictOrder
  <2>2. Above(z) \subseteq Above(y) \ {z}
    BY <1>4, <1>5 DEF StrictOrder
  <2>3. z \in Above(y)
    BY <1>5
  <2>4. Cardinality(Above(y)) <= Cardinality(Above(z))
    <3> HIDE DEF Above
    <3> QED BY <1>3, <1>4, <2>1
  <2> HIDE DEF Above, T, N
  <2>5. /\ IsFiniteSet(Above(y) \ {z})
        /\ Cardinality(Above(y) \ {z}) = Cardinality(Above(y)) - 1
    BY <1>1, <2>3, FS_RemoveElement
  <2>6. Cardinality(Above(z)) <= Cardinality(Above(y) \ {z})
    BY <2>2, <2>5, FS_Subset
  <2> QED BY <1>1, <2>4, <2>5, <2>6
<1> QED BY <1>4, <1>5

\* The prices of orders are fractions of numbers.
Fraction == [n : Nat, d : Nat]

\* What Bid and Ask compare.
LEMMA PricesAreFractions ==
  ASSUME NEW o \in Order
  PROVE  Bid(o) \in Fraction /\ Ask(o) \in Fraction
BY OrderAmounts DEF Bid, Ask, Fraction

\* A product grows with what it is of.
LEMMA ProductGrows ==
  ASSUME NEW a \in Nat, NEW b \in Nat, NEW c \in Nat
  PROVE  /\ a <= b => a * c <= b * c
         /\ a < b /\ c # 0 => a * c < b * c
         /\ a * c < b * c => a < b
OBVIOUS

\* They are strictly ordered, also where a denominator is 0: it is below nothing.
LEMMA BelowIsStrict ==
  ASSUME NEW p \in Fraction, NEW q \in Fraction, NEW r \in Fraction
  PROVE  /\ ~Below(p, p)
         /\ Below(p, q) => p.d # 0
         /\ Below(p, q) /\ Below(q, r) => Below(p, r)
<1>1. /\ p.n \in Nat /\ p.d \in Nat /\ q.n \in Nat /\ q.d \in Nat
      /\ r.n \in Nat /\ r.d \in Nat
  BY DEF Fraction
<1>2. ~Below(p, p)
  BY <1>1 DEF Below
<1>3. Below(p, q) => p.d # 0
  BY <1>1 DEF Below
<1>4. ASSUME Below(p, q), Below(q, r)
      PROVE  Below(p, r)
  <2>1. p.n * q.d < q.n * p.d /\ q.n * r.d < r.n * q.d
    BY <1>4 DEF Below
  <2>2. p.d # 0
    BY <1>3, <1>4
  <2>3. (p.n * q.d) * r.d <= (q.n * p.d) * r.d
    <3> DEFINE u == p.n * q.d  v == q.n * p.d
    <3>1. u \in Nat /\ v \in Nat /\ u <= v
      BY <1>1, <2>1
    <3> HIDE DEF u, v
    <3>2. u * r.d <= v * r.d
      BY <1>1, <3>1, ProductGrows
    <3> QED BY <3>2 DEF u, v
  <2>4. (q.n * r.d) * p.d < (r.n * q.d) * p.d
    <3> DEFINE u == q.n * r.d  v == r.n * q.d
    <3>1. u \in Nat /\ v \in Nat /\ u < v
      BY <1>1, <2>1
    <3> HIDE DEF u, v
    <3>2. u * p.d < v * p.d
      BY <1>1, <2>2, <3>1, ProductGrows
    <3> QED BY <3>2 DEF u, v
  <2>5. /\ (p.n * q.d) * r.d = (p.n * r.d) * q.d
        /\ (q.n * p.d) * r.d = (q.n * r.d) * p.d
        /\ (r.n * q.d) * p.d = (r.n * p.d) * q.d
    BY <1>1
  <2> DEFINE u == p.n * r.d  v == r.n * p.d
  <2>6. u \in Nat /\ v \in Nat
    BY <1>1
  <2>7. u * q.d < v * q.d
    <3>1. (q.n * p.d) * r.d \in Nat /\ (p.n * q.d) * r.d \in Nat /\ (r.n * q.d) * p.d \in Nat
      BY <1>1
    <3> QED BY <2>3, <2>4, <2>5, <3>1
  <2> HIDE DEF u, v
  <2>8. u < v
    BY <1>1, <2>6, <2>7, ProductGrows
  <2> QED BY <2>8 DEF Below, u, v
<1> QED BY <1>2, <1>3, <1>4

\* A buyer at the top of its queue bids what another bids, or more.
LEMMA BuyerAtTop ==
  ASSUME NEW book \in Book, NEW b \in Orders(book.buyers)
  PROVE  \E b0 \in TopBuyers(book) : b0 = b \/ Below(Bid(b), Bid(b0))
<1> DEFINE S == Orders(book.buyers)
           R == {pair \in S \X S : Below(Bid(pair[1]), Bid(pair[2]))}
<1>1. IsFiniteSet(S) /\ \A o \in S : Bid(o) \in Fraction
  BY OrdersCounted, OrdersAreOrders, PricesAreFractions DEF Book
<1>2. \A y \in S : <<y, y>> \notin R
  BY <1>1, BelowIsStrict
<1>3. \A y, z \in S : <<y, z>> \in R <=> Below(Bid(y), Bid(z))
  OBVIOUS
<1>4. \A y1, y2, y3 \in S : <<y1, y2>> \in R /\ <<y2, y3>> \in R => <<y1, y3>> \in R
  <2> HIDE DEF R
  <2> QED BY <1>1, <1>3, BelowIsStrict
<1>5. \E y \in S : (y = b \/ <<b, y>> \in R) /\ \A z \in S : <<y, z>> \notin R
  <2>1. b \in S /\ IsFiniteSet(S)
    BY <1>1
  <2> HIDE DEF S, R
  <2>2. StrictOrder(R, S)
    BY <1>2, <1>4 DEF StrictOrder
  <2> QED BY ONLY <2>1, <2>2, GreatestAbove
<1> HIDE DEF R
<1> QED BY <1>3, <1>5 DEF TopBuyers

\* A seller at the top of its queue asks what another asks, or less.
LEMMA SellerAtTop ==
  ASSUME NEW book \in Book, NEW o \in Orders(book.sellers)
  PROVE  \E o0 \in TopSellers(book) : o0 = o \/ Below(Ask(o0), Ask(o))
<1> DEFINE S == Orders(book.sellers)
           R == {pair \in S \X S : Below(Ask(pair[2]), Ask(pair[1]))}
<1>1. IsFiniteSet(S) /\ \A p \in S : Ask(p) \in Fraction
  BY OrdersCounted, OrdersAreOrders, PricesAreFractions DEF Book
<1>2. \A y \in S : <<y, y>> \notin R
  BY <1>1, BelowIsStrict
<1>3. \A y, z \in S : <<y, z>> \in R <=> Below(Ask(z), Ask(y))
  OBVIOUS
<1>4. \A y1, y2, y3 \in S : <<y1, y2>> \in R /\ <<y2, y3>> \in R => <<y1, y3>> \in R
  <2> HIDE DEF R
  <2> QED BY <1>1, <1>3, BelowIsStrict
<1>5. \E y \in S : (y = o \/ <<o, y>> \in R) /\ \A z \in S : <<y, z>> \notin R
  <2>1. o \in S /\ IsFiniteSet(S)
    BY <1>1
  <2> HIDE DEF S, R
  <2>2. StrictOrder(R, S)
    BY <1>2, <1>4 DEF StrictOrder
  <2> QED BY ONLY <2>1, <2>2, GreatestAbove
<1> HIDE DEF R
<1> QED BY <1>3, <1>5 DEF TopSellers

\* A book with something to match, as MatchAwaited means it.
Tempting(book) ==
  \E b \in TopBuyers(book), o \in TopSellers(book) : o.AmountToSell # 0 /\ Proposable(b, o)

\* The best buyer and the best seller can be matched once their prices cross.  The product
\* of a price and an amount, a float64 rounded to an integer, can keep them apart: 15/11
\* times 11 is 14 rounded down, less than the 15 that a seller of 11 asks for.
NotKeptApart(book) ==
  \A b \in TopBuyers(book), o \in TopSellers(book) :
    o.AmountToSell # 0 /\ Crossed(b, o) => Proposable(b, o)

\* So it is in every book.
NoneKeptApart(books) ==
  \A s, t \in Symbols : IsBase(s, t) => NotKeptApart(BookOf(books, s, t))

\* What can be matched in a book that lost orders could be matched before: the tops that
\* were there are no worse.
LEMMA TemptingBefore ==
  ASSUME NEW book \in Book, NEW book2 \in Book,
         Orders(book2.buyers) \subseteq Orders(book.buyers),
         Orders(book2.sellers) \subseteq Orders(book.sellers), Tempting(book2),
         NotKeptApart(book)
  PROVE  Tempting(book)
<1>1. PICK b \in TopBuyers(book2), o \in TopSellers(book2) :
        o.AmountToSell # 0 /\ Proposable(b, o)
  BY DEF Tempting
<1>2. b \in Orders(book.buyers) /\ o \in Orders(book.sellers)
  BY DEF TopBuyers, TopSellers
<1>3. PICK b0 \in TopBuyers(book) : b0 = b \/ Below(Bid(b), Bid(b0))
  BY <1>2, BuyerAtTop
<1>4. PICK o0 \in TopSellers(book) : o0 = o \/ Below(Ask(o0), Ask(o))
  BY <1>2, SellerAtTop
<1>5. /\ book.buyers \in Queue /\ book.sellers \in Queue
      /\ b0 \in Orders(book.buyers) /\ o0 \in Orders(book.sellers)
  BY DEF Book, TopBuyers, TopSellers
<1>6. b \in Order /\ o \in Order /\ b0 \in Order /\ o0 \in Order
  BY <1>2, <1>5, OrdersAreOrders
<1>7. /\ Bid(b) \in Fraction /\ Bid(b0) \in Fraction
      /\ Ask(o) \in Fraction /\ Ask(o0) \in Fraction
  BY <1>6, PricesAreFractions
<1>8. o0.AmountToSell # 0
  <2>1. Below(Ask(o0), Ask(o)) => Ask(o0).d # 0
    BY <1>7, BelowIsStrict
  <2> QED BY <1>1, <1>4, <2>1 DEF Ask
<1>9. ~Below(Bid(b), Ask(o))
  BY <1>1 DEF Proposable, Crossed
<1>10. ~Below(Bid(b0), Ask(o0))
  <2> SUFFICES ASSUME Below(Bid(b0), Ask(o0))
               PROVE  FALSE
    OBVIOUS
  <2>1. Below(Bid(b), Ask(o0))
    BY <1>3, <1>7, BelowIsStrict
  <2>2. Below(Bid(b), Ask(o))
    BY <1>4, <1>7, <2>1, BelowIsStrict
  <2> QED BY <1>9, <2>2
<1>11. Proposable(b0, o0)
  BY <1>3, <1>4, <1>8, <1>10 DEF NotKeptApart, Crossed
<1> QED BY <1>3, <1>4, <1>8, <1>11 DEF Tempting

-----------------------------------------------------------------------------
\* No match is forgotten.

\* A book that has something to match is dirty, or waits for a match of it, or is one of
\* those that are gone.
Awaited(books, waiting, gone) ==
  \A s, t \in Symbols :
    IsBase(s, t) /\ Tempting(BookOf(books, s, t)) =>
      \/ {s, t} \in books.dirty
      \/ \E m \in waiting : BookOfTx(m) = {s, t}
      \/ {s, t} \in gone

\* The book of two tokens is one.
LEMMA BookOfType ==
  ASSUME NEW books \in Books, NEW s \in Symbols, NEW t \in Symbols
  PROVE  /\ BookOf(books, s, t) \in Book
         /\ BookOf(books, s, t).buyers = books.queue[s][t]
         /\ BookOf(books, s, t).sellers = books.queue[t][s]
<1>1. books.queue[s][t] \in Queue /\ books.queue[t][s] \in Queue
  BY DEF Books
<1> QED BY <1>1 DEF BookOf, Book

\* A queue that loses orders has no others.
LEMMA QueueLoses ==
  ASSUME NEW queue, NEW queue2, \A id \in OrderIDs : queue2[id] \in {None, queue[id]}
  PROVE  Orders(queue2) \subseteq Orders(queue)
BY DEF Orders

\* It stays so while books lose orders, or become dirty, and what no longer waits leaves
\* its book dirty or gone.
LEMMA AwaitedKept ==
  ASSUME NEW books \in Books, NEW books2 \in Books, Loses(books, books2),
         NoneKeptApart(books),
         NEW waiting, NEW gone, Awaited(books, waiting, gone),
         NEW waiting2, NEW gone2, gone \subseteq gone2,
         \A m \in waiting : m \in waiting2 \/ BookOfTx(m) \in gone2 \cup books2.dirty
  PROVE  Awaited(books2, waiting2, gone2)
<1> SUFFICES ASSUME NEW s \in Symbols, NEW t \in Symbols, IsBase(s, t),
                    Tempting(BookOf(books2, s, t)), {s, t} \notin books2.dirty
             PROVE  (\E m \in waiting2 : BookOfTx(m) = {s, t}) \/ {s, t} \in gone2
  BY DEF Awaited
<1> DEFINE book == BookOf(books, s, t)  book2 == BookOf(books2, s, t)
<1>1. /\ \A id \in OrderIDs : books2.queue[s][t][id] \in {None, books.queue[s][t][id]}
      /\ \A id \in OrderIDs : books2.queue[t][s][id] \in {None, books.queue[t][s][id]}
      /\ {s, t} \notin books.dirty
  <2>1. {s, t} = {t, s}
    OBVIOUS
  <2> QED BY <2>1 DEF Loses
<1>2. /\ book \in Book /\ book2 \in Book
      /\ book.buyers = books.queue[s][t] /\ book.sellers = books.queue[t][s]
      /\ book2.buyers = books2.queue[s][t] /\ book2.sellers = books2.queue[t][s]
  BY BookOfType
<1>3. Tempting(book2)
  OBVIOUS
<1> HIDE DEF book, book2
<1>4. /\ Orders(book2.buyers) \subseteq Orders(book.buyers)
      /\ Orders(book2.sellers) \subseteq Orders(book.sellers)
  BY <1>1, <1>2, QueueLoses
<1>5. Tempting(book)
  <2>1. NotKeptApart(book)
    BY DEF NoneKeptApart, book
  <2> QED BY <1>2, <1>3, <1>4, <2>1, TemptingBefore
<1>6. (\E m \in waiting : BookOfTx(m) = {s, t}) \/ {s, t} \in gone
  BY <1>1, <1>5 DEF Awaited, book
<1> QED BY <1>6

\* In books without orders there is nothing to match.
LEMMA NothingAwaited ==
  ASSUME NEW waiting, NEW gone
  PROVE  NoBooks \in Books /\ NoneKeptApart(NoBooks) /\ Awaited(NoBooks, waiting, gone)
<1>1. EmptyQueue \in Queue /\ Orders(EmptyQueue) = {}
  BY DEF EmptyQueue, Queue, Orders
<1>2. NoBooks \in Books
  BY <1>1 DEF NoBooks, Books
<1>3. \A s, t \in Symbols : BookOf(NoBooks, s, t).buyers = EmptyQueue
  BY DEF NoBooks, BookOf
<1>4. \A s, t \in Symbols : TopBuyers(BookOf(NoBooks, s, t)) = {}
  BY <1>1, <1>3 DEF TopBuyers
<1> QED BY <1>2, <1>4 DEF Awaited, Tempting, NoneKeptApart, NotKeptApart

-----------------------------------------------------------------------------
\* A block of the node.

\* The transactions of the block go into the books one after the other.
Booking == INSTANCE Folding WITH Step <- IntoBooks

\* The fold over a block goes one step for each of them.
LEMMA BookingSteps ==
  ASSUME NEW S, NEW seq \in Seq(S), NEW base
  PROVE  \E g : Booking!LeftSteps(seq, base, g) /\ FoldLeft(IntoBooks, base, seq) = g[Len(seq)]
<1>1. Booking!FoldLeft(IntoBooks, base, seq) = FoldLeft(IntoBooks, base, seq)
  BY DEF Booking!FoldLeft, FoldLeft, Booking!MapThenFoldSet, MapThenFoldSet,
         Booking!Max, Max
<1>2. \E g : Booking!LeftSteps(seq, base, g)
               /\ Booking!FoldLeft(IntoBooks, base, seq) = g[Len(seq)]
  BY ONLY Booking!FoldLeftSteps, seq \in Seq(S)
<1> QED BY <1>1, <1>2

\* Nothing but the books changes, and the book of each match is dirty then.
LEMMA BlockBooked ==
  ASSUME NEW b, Stocked(b), NEW s \in Chains, NEW txs \in Seq(TxOn(s))
  PROVE  LET b2 == FoldLeft(IntoBooks, b, txs)
         IN /\ Stocked(b2) /\ SameButBooks(b, b2)
            /\ b.panicked => b2.panicked
            /\ ~b2.panicked => \A m \in ToSet(txs) :
                 m.type = "MATCH" => BookOfTx(m) \in b2.books.dirty
<1> DEFINE n == Len(txs)
           Good(k, c) == /\ Stocked(c) /\ SameButBooks(b, c)
                         /\ b.panicked => c.panicked
                         /\ ~c.panicked => \A i \in 1 .. k :
                              txs[i].type = "MATCH" => BookOfTx(txs[i]) \in c.books.dirty
<1>1. n \in Nat /\ \A k \in 1 .. n : txs[k] \in TxOn(s)
  OBVIOUS
<1>2. PICK g : Booking!LeftSteps(txs, b, g) /\ FoldLeft(IntoBooks, b, txs) = g[n]
  BY BookingSteps
<1> HIDE DEF n
<1>3. g[0] = b /\ \A k \in 1 .. n : g[k] = IntoBooks(g[k - 1], txs[k])
  BY <1>2 DEF Booking!LeftSteps, n
<1> DEFINE N == {k \in 0 .. n : Good(k, g[k])}
<1>4. 0 \in N
  <2>1. Good(0, b)
    BY LosesNothing DEF SameButBooks
  <2> HIDE DEF Good
  <2> QED BY <1>1, <1>3, <2>1
<1>5. ASSUME NEW k \in 1 .. n, k - 1 \in N
      PROVE  k \in N
  <2> DEFINE c == g[k - 1]  d == g[k]  tx == txs[k]
  <2>1. Good(k - 1, c) /\ d = IntoBooks(c, tx) /\ tx \in TxOn(s) /\ k \in 0 .. n
    <3> HIDE DEF Good
    <3>1. Good(k - 1, c)
      BY <1>5
    <3> QED BY <1>1, <1>3, <3>1
  <2>2. /\ Stocked(d) /\ SameButBooks(c, d) /\ (c.panicked => d.panicked)
        /\ tx.type = "MATCH" /\ ~d.panicked =>
             {tx.BuySymbol, tx.SellSymbol} \in d.books.dirty
    <3> HIDE DEF c, d, tx
    <3>1. Stocked(c)
      BY <2>1
    <3> HIDE DEF Good
    <3>2. LET b2 == IntoBooks(c, tx)
          IN /\ Stocked(b2) /\ SameButBooks(c, b2) /\ (c.panicked => b2.panicked)
             /\ tx.type = "MATCH" /\ ~b2.panicked =>
                  {tx.BuySymbol, tx.SellSymbol} \in b2.books.dirty
      BY ONLY <2>1, <3>1, s \in Chains, TxBooked
    <3> QED BY ONLY <2>1, <3>2
  <2>3. SameButBooks(b, d)
    <3> HIDE DEF c, d
    <3> QED BY <2>1, <2>2, LosesMore DEF SameButBooks
  <2>4. c.books.dirty \subseteq d.books.dirty
    <3> HIDE DEF c, d
    <3> QED BY <2>2 DEF SameButBooks, Loses
  <2>5. ASSUME ~d.panicked, NEW i \in 1 .. k, txs[i].type = "MATCH"
        PROVE  BookOfTx(txs[i]) \in d.books.dirty
    <3>1. CASE i = k
      BY <2>2, <2>5, <3>1 DEF BookOfTx
    <3>2. CASE i \in 1 .. (k - 1)
      BY <2>1, <2>2, <2>4, <2>5, <3>2
    <3> QED BY <1>1, <3>1, <3>2
  <2>6. Good(k, d)
    BY <2>1, <2>2, <2>3, <2>5
  <2> HIDE DEF Good
  <2> QED BY <2>1, <2>6 DEF d
<1>6. n \in N
  <2> HIDE DEF N
  <2> QED BY <1>1, <1>4, <1>5, Adding!InductUpTo
<1>7. Good(n, g[n])
  <2> HIDE DEF Good
  <2> QED BY <1>6
<1>8. \A m \in ToSet(txs) : \E i \in 1 .. n : m = txs[i]
  BY DEF ToSet, n
<1> QED BY <1>2, <1>7, <1>8

\* Everything that waits for a block of the node is in one: the matches in force are
\* the same, and the ledger does not change.
LEMMA BlockMined ==
  ASSUME NEW b, Fit(b), ~b.panicked, NEW s \in Chains,
         NEW txs, txs = b.mempoolUncommitted[s],
         NEW c, c = FoldLeft(IntoBooks, Appended(b, s, txs), txs)
  PROVE  LET b2 == [c EXCEPT !.mempoolUncommitted[s] = <<>>]
         IN /\ Fit(b2) /\ Loses(b.books, b2.books)
            /\ ~b2.panicked => \A m \in ToSet(txs) :
                 m.type = "MATCH" => BookOfTx(m) \in b2.books.dirty
<1> DEFINE a == Appended(b, s, txs)
           b2 == [c EXCEPT !.mempoolUncommitted[s] = <<>>]
<1>1. Stocked(b) /\ ~b.recovering /\ Sound(b, Len(b.chains[MatchChain]))
      /\ txs \in Seq(TxOn(s))
  BY DEF Fit, Stocked
<1>2. /\ Stocked(a) /\ a.cs = b.cs /\ a.books = b.books
      /\ a.mempoolUncommitted = b.mempoolUncommitted
      /\ a.recovering = b.recovering /\ a.panicked = b.panicked
      /\ a.chains[s] = Append(b.chains[s], txs)
      /\ \A t \in Chains : t # s => a.chains[t] = b.chains[t]
  BY ONLY <1>1, s \in Chains, BlockAppended
<1> HIDE DEF a
<1>3. /\ Stocked(c) /\ SameButBooks(a, c)
      /\ ~c.panicked => \A m \in ToSet(txs) :
           m.type = "MATCH" => BookOfTx(m) \in c.books.dirty
  <2>1. LET d == FoldLeft(IntoBooks, a, txs)
        IN /\ Stocked(d) /\ SameButBooks(a, d)
           /\ ~d.panicked => \A m \in ToSet(txs) :
                m.type = "MATCH" => BookOfTx(m) \in d.books.dirty
    BY ONLY <1>1, <1>2, s \in Chains, BlockBooked
  <2>2. c = FoldLeft(IntoBooks, a, txs)
    BY DEF a
  <2> QED BY ONLY <2>1, <2>2
<1>4. /\ b2 \in Blockchains /\ b2.cs = c.cs /\ b2.chains = c.chains /\ b2.height = c.height
      /\ b2.books = c.books /\ b2.recovering = c.recovering /\ b2.panicked = c.panicked
      /\ b2.mempoolUncommitted = [c.mempoolUncommitted EXCEPT ![s] = <<>>]
      /\ c.mempoolUncommitted \in [Chains -> Seq(Transaction)]
  <2>1. c \in Blockchains
    BY <1>3 DEF Stocked
  <2> DEFINE lists == [c.mempoolUncommitted EXCEPT ![s] = <<>>]
  <2>2. lists \in [Chains -> Seq(Transaction)]
    <3>1. <<>> \in Seq(Transaction) /\ c.mempoolUncommitted \in [Chains -> Seq(Transaction)]
      BY <2>1 DEF Blockchains
    <3> QED BY <3>1
  <2>3. b2 = [c EXCEPT !.mempoolUncommitted = lists]
    OBVIOUS
  <2> HIDE DEF b2, lists
  <2>4. /\ b2 \in Blockchains /\ b2.cs = c.cs /\ b2.chains = c.chains /\ b2.height = c.height
        /\ b2.books = c.books /\ b2.recovering = c.recovering /\ b2.panicked = c.panicked
        /\ b2.mempoolUncommitted = lists
        /\ c.mempoolUncommitted \in [Chains -> Seq(Transaction)]
    BY ONLY <2>1, <2>2, <2>3 DEF Blockchains
  <2> QED BY <2>4 DEF lists
<1> HIDE DEF b2
<1>5. /\ b2.mempoolUncommitted[s] = <<>>
      /\ \A t \in Chains : t # s => b2.mempoolUncommitted[t] = b.mempoolUncommitted[t]
  BY <1>2, <1>3, <1>4 DEF SameButBooks
<1>6. Stocked(b2)
  <2>1. \A t \in Chains : b2.mempoolUncommitted[t] \in Seq(TxOn(t))
    <3>1. \A t \in Chains : b.mempoolUncommitted[t] \in Seq(TxOn(t))
      BY <1>1 DEF Stocked
    <3>2. <<>> \in Seq(TxOn(s))
      OBVIOUS
    <3> QED BY ONLY <1>5, <3>1, <3>2
  <2> QED BY <1>3, <1>4, <2>1 DEF Stocked
<1>7. /\ b2.cs = b.cs /\ b2.chains[s] = Append(b.chains[s], txs)
      /\ \A t \in Chains : t # s => b2.chains[t] = b.chains[t]
      /\ ~b2.recovering
  BY <1>1, <1>2, <1>3, <1>4 DEF SameButBooks
<1>8. Sound(b2, Len(b2.chains[MatchChain]))
  <2> DEFINE blocks == b.chains[MatchChain]
             list == b.mempoolUncommitted[MatchChain]
             ms == MatchesUpTo(blocks, Len(blocks))
  <2>1. OrderlyBlocks(blocks, Len(blocks)) /\ Orderly(ms, list)
        /\ Tallied(b.cs, ms \cup MatchesOf(list))
        /\ Peopled(b.cs, blocks, list, Len(blocks))
    BY <1>1 DEF Sound
  <2>2. CASE s = MatchChain
    <3> DEFINE more == Append(blocks, txs)
    <3>1. OrderlyBlocks(more, Len(more)) /\ MatchesUpTo(more, Len(more)) = ms \cup MatchesOf(txs)
      <4>1. blocks \in Seq(Seq(TxOn(s)))
        BY <1>1, <2>2 DEF Stocked
      <4>2. Orderly(ms, txs)
        BY <2>1, <2>2
      <4> HIDE DEF blocks
      <4> QED BY <1>1, <2>1, <4>1, <4>2, MatchBlockAppended
    <3>2. txs = list /\ b2.chains[MatchChain] = more
          /\ b2.mempoolUncommitted[MatchChain] = <<>>
      BY <1>5, <1>7, <2>2
    <3>3. MatchesOf(<<>>) = {} /\ Orderly(ms \cup MatchesOf(txs), <<>>)
      BY DEF MatchesOf, MatchesIn, Orderly
    <3>5. Peopled(b2.cs, more, <<>>, Len(more))
      <4> DEFINE n == Len(blocks)
      <4>1. blocks \in Seq(Seq(TxOn(s)))
        BY <1>1, <2>2 DEF Stocked
      <4> HIDE DEF blocks
      <4>2. /\ n \in Nat /\ Len(more) = n + 1 /\ more[n + 1] = txs
            /\ \A i \in 1 .. n : more[i] = blocks[i]
        BY <1>1, <4>1
      <4> HIDE DEF n, more, list
      <4>3. Peopled(b.cs, blocks, txs, n)
        BY <2>1, <3>2 DEF n
      <4>4. \A t \in Symbols : Founds(txs, t) =>
              Exists(b.cs, t) /\ \A i \in 1 .. n : ~Founds(blocks[i], t)
        BY <4>3 DEF Peopled
      <4>5. Peopled(b.cs, more, <<>>, n + 1)
        BY <4>2, <4>3, <4>4, PeopledBlock
      <4> QED BY <1>7, <4>2, <4>5
    <3> HIDE DEF more, ms, blocks, list
    <3>4. Tallied(b2.cs, MatchesUpTo(more, Len(more)) \cup MatchesOf(<<>>))
      BY <1>7, <2>1, <3>1, <3>2, <3>3
    <3> QED BY <3>1, <3>2, <3>3, <3>4, <3>5 DEF Sound
  <2>3. CASE s # MatchChain
    <3>1. b2.chains[MatchChain] = blocks /\ b2.mempoolUncommitted[MatchChain] = list
      BY <1>5, <1>7, <2>3, ChainKinds
    <3> HIDE DEF ms, blocks, list
    <3>2. ms = MatchesUpTo(blocks, Len(blocks))
      BY DEF ms
    <3> QED BY <1>7, <2>1, <3>1, <3>2 DEF Sound
  <2> QED BY <2>2, <2>3
<1>9. Fit(b2)
  BY <1>6, <1>7, <1>8 DEF Fit
<1>10. Loses(b.books, b2.books)
  BY <1>2, <1>3, <1>4 DEF SameButBooks
<1> QED BY <1>3, <1>4, <1>9, <1>10 DEF b2

-----------------------------------------------------------------------------
\* The invariant.

\* The chains are as they are for any node, and what waits is matches.
OffersInv ==
  /\ ChainsInv
  /\ found \in [Callers -> Seq(BookMatch)]
  /\ mempool \subseteq BookMatch
  /\ revalidating \in Seq(SUBSET BookMatch)

\* The matches that wait for their block, or to be offered to the mempool.
Waiting == mempool \cup UNION {ToSet(found[g]) : g \in Callers}

\* ... and of each book that has something to match one waits, or it is dirty.
MatcherInv ==
  /\ OffersInv
  /\ ~bcs.panicked => Awaited(bcs.books, Waiting, refused)

\* What a step does that neither searches a book nor is a stop: books lose orders or
\* become dirty, and a match that no longer waits leaves its book dirty, or was refused.
ForgetsNone ==
  /\ Loses(bcs.books, bcs'.books)
  /\ refused \subseteq refused'
  /\ ~bcs'.panicked =>
       /\ ~bcs.panicked
       /\ \A m \in Waiting : m \in Waiting' \/ BookOfTx(m) \in refused' \cup bcs'.books.dirty

\* The books of a node are books.
LEMMA BooksType ==
  ASSUME ChainsInv
  PROVE  /\ bcs \in Blockchains /\ bcs.books \in Books
         /\ bcs.cs \in State /\ Stocked(bcs)
<1>1. Stocked(bcs)
  BY DEF ChainsInv, Fit, Restoring
<1> QED BY <1>1 DEF Stocked, Blockchains

\* Chains that fit after a step, as a formula of the next state.
LEMMA FitAfter ==
  ASSUME Fit(bcs')
  PROVE  Fit(bcs)'
BY DEF Fit, Sound, Stocked

\* A step of the chains that leaves what waits alone.
LEMMA WorksForgetsNone ==
  ASSUME NoCancels, NoSelfMatches, OffersInv, Works, ~bcs.panicked,
         UNCHANGED <<found, mempool, revalidating, refused>>
  PROVE  OffersInv' /\ ForgetsNone
<1>1. ChainsInv' /\ Loses(bcs.books, bcs'.books)
  BY WorksStep DEF OffersInv
<1>2. OffersInv'
  BY <1>1 DEF OffersInv
<1>3. Waiting' = Waiting
  BY DEF Waiting
<1> QED BY <1>1, <1>2, <1>3 DEF ForgetsNone

\* A block of a peer, a rollback to a fork, a step of the recovery.
LEMMA PeerOrRecoveryStep ==
  ASSUME NoCancels, NoSelfMatches, OffersInv,
         \/ \E block \in PeerBlocks : PeerAddsBlock(block)
         \/ \E s \in Chains, h \in 1 .. MaxHeight : PeerRollsBack(s, h)
         \/ Recovery
  PROVE  OffersInv' /\ ForgetsNone
<1>1. ASSUME NEW block \in PeerBlocks, PeerAddsBlock(block)
      PROVE  OffersInv' /\ ForgetsNone
  <2>1. AddBlock(block, TRUE) /\ UNCHANGED <<found, mempool, revalidating, refused>>
    BY <1>1 DEF PeerAddsBlock, PeerStep, LookEverywhere
  <2>2. Works
    BY <2>1 DEF Works
  <2>3. ~bcs.panicked
    BY <2>1 DEF AddBlock, Running
  <2> QED BY <2>1, <2>2, <2>3, WorksForgetsNone
<1>2. ASSUME NEW s \in Chains, NEW h \in 1 .. MaxHeight, PeerRollsBack(s, h)
      PROVE  OffersInv' /\ ForgetsNone
  <2>1. RollbackToHeight(s, h) /\ UNCHANGED <<found, mempool, revalidating, refused>>
    BY <1>2 DEF PeerRollsBack, PeerStep, LookEverywhere
  <2>2. Works
    BY <2>1 DEF Works
  <2>3. ~bcs.panicked
    BY <2>1 DEF RollbackToHeight, Running
  <2> QED BY <2>1, <2>2, <2>3, WorksForgetsNone
<1>3. CASE Recovery
  <2>1. (EndRecovery \/ \E s \in Chains : RecoverBlock(s))
        /\ UNCHANGED <<found, mempool, revalidating, refused>>
    BY <1>3 DEF Recovery, matcherVars
  <2>2. Works
    BY <2>1 DEF Works
  <2>3. ~bcs.panicked
    BY <2>1 DEF EndRecovery, RecoverBlock
  <2> QED BY <2>1, <2>2, <2>3, WorksForgetsNone
<1> QED BY <1>1, <1>2, <1>3

\* A match that a search found is offered: it is in the mempool then, or was refused.
LEMMA OfferStep ==
  ASSUME NoCancels, NoSelfMatches, OffersInv, NEW g \in Callers, Offer(g)
  PROVE  OffersInv' /\ ForgetsNone
<1> DEFINE m == Head(found[g])
           accepted == Accepted(bcs.cs, m)
<1>1. /\ Running /\ found[g] # <<>> /\ bcs' = Settled(Offered(bcs, m))
      /\ mempool' = (IF accepted THEN mempool \cup {m} ELSE mempool)
      /\ refused' = (IF accepted THEN refused ELSE refused \cup {BookOfTx(m)})
      /\ found' = [found EXCEPT ![g] = Tail(@)]
      /\ UNCHANGED <<chosen, replayed, crashes, revalidating>>
  BY DEF Offer
<1>2. /\ found[g] \in Seq(BookMatch) /\ found \in [Callers -> Seq(BookMatch)]
      /\ mempool \subseteq BookMatch
  BY DEF OffersInv
<1>3. m \in BookMatch /\ Tail(found[g]) \in Seq(BookMatch)
      /\ ToSet(found[g]) = {m} \cup ToSet(Tail(found[g]))
  <2> DEFINE f == found[g]
  <2>1. f \in Seq(BookMatch) /\ f # <<>>
    BY <1>1, <1>2
  <2> HIDE DEF f
  <2>2. Head(f) = f[1] /\ f[1] \in BookMatch /\ Len(f) \in Nat /\ Len(f) # 0
        /\ Tail(f) \in Seq(BookMatch)
        /\ Len(Tail(f)) = Len(f) - 1 /\ \A i \in 1 .. Len(f) - 1 : Tail(f)[i] = f[i + 1]
    BY <2>1
  <2>3. \A i \in 1 .. Len(f) : \/ i = 1
                               \/ f[i] = Tail(f)[i - 1] /\ i - 1 \in 1 .. Len(Tail(f))
    <3> SUFFICES ASSUME NEW i \in 1 .. Len(f), i # 1
                 PROVE  f[i] = Tail(f)[i - 1] /\ i - 1 \in 1 .. Len(Tail(f))
      OBVIOUS
    <3>1. i - 1 \in 1 .. Len(f) - 1 /\ (i - 1) + 1 = i
      BY <2>2
    <3> QED BY <2>2, <3>1
  <2>4. ToSet(f) = {f[1]} \cup ToSet(Tail(f))
    <3>1. ToSet(f) = {f[i] : i \in 1 .. Len(f)}
          /\ ToSet(Tail(f)) = {Tail(f)[i] : i \in 1 .. Len(Tail(f))}
      <4>1. \A r \in Seq(BookMatch) : ToSet(r) = {r[i] : i \in 1 .. Len(r)}
        BY DEF ToSet
      <4> QED BY <2>1, <2>2, <4>1
    <3>2. \A i \in 1 .. Len(Tail(f)) : i + 1 \in 1 .. Len(f) /\ f[i + 1] = Tail(f)[i]
      BY <2>2
    <3>3. 1 \in 1 .. Len(f)
      BY <2>2
    <3>4. ASSUME NEW x \in ToSet(f)
          PROVE  x \in {f[1]} \cup ToSet(Tail(f))
      <4>1. PICK i \in 1 .. Len(f) : x = f[i]
        BY <3>1
      <4> QED BY <2>3, <3>1, <4>1
    <3>5. ASSUME NEW x \in ToSet(Tail(f))
          PROVE  x \in ToSet(f)
      <4>1. PICK i \in 1 .. Len(Tail(f)) : x = Tail(f)[i]
        BY <3>1
      <4>2. i + 1 \in 1 .. Len(f) /\ x = f[i + 1]
        BY <3>2, <4>1
      <4> QED BY <3>1, <4>2
    <3>6. f[1] \in ToSet(f)
      BY <3>1, <3>3
    <3> QED BY <3>4, <3>5, <3>6
  <2> QED BY <2>2, <2>4 DEF f
<1> HIDE DEF m, accepted
<1>4. m.chain \in Chains /\ m \in TxOn(m.chain)
  BY <1>3, ChainKinds, BookMatchFields DEF BookMatch
<1>5. Fit(bcs') /\ Loses(bcs.books, bcs'.books)
  <2>1. Fit(bcs) /\ ~bcs.panicked
    BY <1>1 DEF OffersInv, ChainsInv, Running
  <2>2. LET b2 == Settled(Offered(bcs, m))
        IN Fit(b2) /\ Loses(bcs.books, b2.books)
    BY ONLY <1>4, <2>1, TxOffered
  <2> QED BY ONLY <1>1, <2>2
<1>6. ChainsInv'
  BY <1>1, <1>5, RunningStep DEF OffersInv
<1>7. OffersInv'
  <2>1. found' \in [Callers -> Seq(BookMatch)] /\ mempool' \subseteq BookMatch
    BY <1>1, <1>2, <1>3
  <2> QED BY <1>1, <1>6, <2>1 DEF OffersInv
<1>8. \A w \in Waiting : w \in Waiting' \/ BookOfTx(w) \in refused'
  <2>1. \A h \in Callers : ToSet(found[h]) \subseteq {m} \cup ToSet(found'[h])
    BY <1>1, <1>2, <1>3
  <2>2. m \in mempool' \/ BookOfTx(m) \in refused'
    BY <1>1
  <2>3. mempool \subseteq mempool'
    BY <1>1
  <2>4. Waiting' = mempool' \cup UNION {ToSet(found'[h]) : h \in Callers}
    BY DEF Waiting
  <2> QED BY <2>1, <2>2, <2>3, <2>4 DEF Waiting
<1> QED BY <1>1, <1>5, <1>7, <1>8 DEF ForgetsNone, Running

\* A block of the node: the matches in it wait no longer, and their books are dirty.
LEMMA MinedBlockStep ==
  ASSUME OffersInv, AddMinedBlock
  PROVE  OffersInv' /\ ForgetsNone
<1> DEFINE txs == bcs.mempoolUncommitted[chosen]
           c == FoldLeft(IntoBooks, Appended(bcs, chosen, txs), txs)
           b2 == [c EXCEPT !.mempoolUncommitted[chosen] = <<>>]
<1>1. /\ Running /\ bcs' = b2 /\ mempool' = mempool \ ToSet(txs)
      /\ UNCHANGED <<chosen, replayed, crashes, revalidating, refused, found>>
  BY DEF AddMinedBlock, LookEverywhere
<1>2. Fit(bcs) /\ ~bcs.panicked /\ chosen \in Chains /\ mempool \subseteq BookMatch
  BY <1>1 DEF OffersInv, ChainsInv, Running
<1>3. /\ Fit(b2) /\ Loses(bcs.books, b2.books)
      /\ ~b2.panicked => \A m \in ToSet(txs) :
           m.type = "MATCH" => BookOfTx(m) \in b2.books.dirty
  <2>1. txs = bcs.mempoolUncommitted[chosen]
        /\ c = FoldLeft(IntoBooks, Appended(bcs, chosen, txs), txs)
    OBVIOUS
  <2> HIDE DEF txs, c
  <2> QED BY ONLY <1>2, <2>1, BlockMined DEF b2
<1> HIDE DEF txs, c, b2
<1>4. ChainsInv'
  BY <1>1, <1>3, RunningStep DEF OffersInv
<1>5. OffersInv'
  BY <1>1, <1>2, <1>4 DEF OffersInv
<1>6. ASSUME NEW m \in Waiting, ~bcs'.panicked
      PROVE  m \in Waiting' \/ BookOfTx(m) \in refused' \cup bcs'.books.dirty
  <2>1. Waiting' = mempool' \cup UNION {ToSet(found'[h]) : h \in Callers}
    BY DEF Waiting
  <2>2. CASE m \in mempool /\ m \in ToSet(txs)
    <3>1. m.type = "MATCH"
      BY <1>2, <2>2 DEF BookMatch
    <3> QED BY <1>1, <1>3, <1>6, <2>2, <3>1
  <2>3. CASE m \in mempool /\ m \notin ToSet(txs)
    BY <1>1, <2>1, <2>3
  <2>4. CASE m \notin mempool
    BY <1>1, <1>6, <2>1, <2>4 DEF Waiting
  <2> QED BY <2>2, <2>3, <2>4
<1> QED BY <1>1, <1>2, <1>3, <1>5, <1>6 DEF ForgetsNone

\* The miner begins again, on the same chain or another.
LEMMA StartMiningStep ==
  ASSUME OffersInv, StartMining
  PROVE  OffersInv' /\ ForgetsNone
<1>1. /\ Running /\ HasChain(bcs, chosen') /\ chosen' \in Chains
      /\ bcs' = Settled(ForgetUncommitted(bcs, chosen'))
      /\ revalidating' \in {revalidating, Append(revalidating, mempool)}
      /\ UNCHANGED <<replayed, crashes, found, mempool, refused>>
  BY DEF StartMining, OffersInv, ChainsInv
<1>2. Fit(bcs) /\ ~bcs.panicked
  BY <1>1 DEF OffersInv, ChainsInv, Running
<1>3. Fit(bcs') /\ Loses(bcs.books, bcs'.books)
  <2> DEFINE s == chosen'
  <2>1. s \in Chains /\ HasChain(bcs, s) /\ bcs' = Settled(ForgetUncommitted(bcs, s))
    BY <1>1
  <2> HIDE DEF s
  <2>2. LET b2 == Settled(ForgetUncommitted(bcs, s))
        IN Fit(b2) /\ Loses(bcs.books, b2.books)
    BY ONLY <1>2, <2>1, MiningRestarted
  <2> QED BY ONLY <2>1, <2>2
<1>4. ChainsInv'
  <2>1. Fit(bcs)' /\ ~bcs'.recovering
    BY <1>3, FitAfter DEF Fit
  <2> QED BY <1>1, <2>1 DEF OffersInv, ChainsInv, Running
<1>5. revalidating' \in Seq(SUBSET BookMatch)
  BY <1>1 DEF OffersInv
<1>6. OffersInv'
  BY <1>1, <1>4, <1>5 DEF OffersInv
<1>7. Waiting' = Waiting
  BY <1>1 DEF Waiting
<1> QED BY <1>1, <1>2, <1>3, <1>6, <1>7 DEF ForgetsNone

\* One of those that are to be offered again is taken from a sequence of sets, or the
\* whole set is.
LEMMA RevalidatingType ==
  ASSUME NEW S, NEW sets \in Seq(SUBSET S), NEW i \in DOMAIN sets
  PROVE  /\ RemoveAt(sets, i) \in Seq(SUBSET S)
         /\ \A m : [sets EXCEPT ![i] = @ \ {m}] \in Seq(SUBSET S)
<1>1. i \in 1 .. Len(sets) /\ Len(sets) \in Nat
  OBVIOUS
<1>2. \A m : [sets EXCEPT ![i] = @ \ {m}] \in Seq(SUBSET S)
  BY <1>1
<1>3. RemoveAt(sets, i) \in Seq(SUBSET S)
  <2>1. SubSeq(sets, 1, i - 1) \in Seq(SUBSET S)
    BY <1>1
  <2>2. SubSeq(sets, i + 1, Len(sets)) \in Seq(SUBSET S)
    BY <1>1
  <2> QED BY <2>1, <2>2 DEF RemoveAt
<1> QED BY <1>2, <1>3

\* A match that waits is offered again: it waits on, or was refused.
LEMMA RevalidateStep ==
  ASSUME OffersInv, NEW i \in DOMAIN revalidating, NEW m \in revalidating[i],
         Revalidate(i, m)
  PROVE  OffersInv' /\ ForgetsNone
<1>1. /\ Running
      /\ UNCHANGED <<chosen, replayed, crashes, found>>
      /\ revalidating' \in {RemoveAt(revalidating, i), [revalidating EXCEPT ![i] = @ \ {m}]}
  BY DEF Revalidate
<1>2. /\ Fit(bcs) /\ ~bcs.panicked /\ chosen \in Chains /\ bcs \in Blockchains
      /\ revalidating \in Seq(SUBSET BookMatch)
  BY <1>1, BooksType DEF OffersInv, ChainsInv, Running
<1>3. revalidating' \in Seq(SUBSET BookMatch)
  <2>1. /\ RemoveAt(revalidating, i) \in Seq(SUBSET BookMatch)
        /\ [revalidating EXCEPT ![i] = @ \ {m}] \in Seq(SUBSET BookMatch)
    BY ONLY <1>2, i \in DOMAIN revalidating, RevalidatingType
  <2> QED BY ONLY <1>1, <2>1
<1>4. m \in BookMatch
  BY <1>2
<1>5. m \in TxOn(MatchChain) /\ MatchChain \in Chains /\ m.type = "MATCH"
  BY <1>4, ChainKinds DEF BookMatch
<1>6. CASE chosen # MatchChain \/ ~Accepted(bcs.cs, m)
  <2>1. bcs' = bcs
    <3>1. CASE chosen # MatchChain
      BY <3>1 DEF Revalidate
    <3>2. CASE chosen = MatchChain
      <4>1. bcs' = [bcs EXCEPT !.cs = AfterRejected(@, m)]
        BY <1>6, <3>2 DEF Revalidate
      <4>2. AfterRejected(bcs.cs, m) = bcs.cs
        BY <1>5 DEF AfterRejected
      <4> QED BY <1>2, <4>1, <4>2 DEF Blockchains
    <3> QED BY <3>1, <3>2
  <2>2. /\ mempool' \subseteq mempool /\ refused \subseteq refused'
        /\ \A w \in mempool : w \in mempool' \/ BookOfTx(w) \in refused'
    BY <1>6 DEF Revalidate
  <2>3. ChainsInv'
    BY <1>1, <1>2, <2>1, RunningStep DEF OffersInv
  <2>4. OffersInv'
    BY <1>1, <1>3, <2>2, <2>3 DEF OffersInv
  <2>5. Waiting' = mempool' \cup UNION {ToSet(found'[h]) : h \in Callers}
    BY DEF Waiting
  <2>6. \A w \in Waiting : w \in Waiting' \/ BookOfTx(w) \in refused'
    BY <1>1, <2>2, <2>5 DEF Waiting
  <2> QED BY <1>2, <2>1, <2>2, <2>4, <2>6, LosesNothing DEF ForgetsNone
<1>7. CASE chosen = MatchChain /\ Accepted(bcs.cs, m)
  <2>1. /\ bcs' = [AddTx(bcs, m) EXCEPT !.mempoolUncommitted[MatchChain] = Append(@, m)]
        /\ UNCHANGED <<mempool, refused>>
    BY <1>7 DEF Revalidate
  <2>2. Fit(bcs') /\ Loses(bcs.books, bcs'.books)
    BY ONLY <1>2, <1>5, <1>7, <2>1, TxKept
  <2>3. ChainsInv'
    BY <1>1, <2>2, RunningStep DEF OffersInv
  <2>4. OffersInv'
    BY <1>1, <1>3, <2>1, <2>3 DEF OffersInv
  <2>5. Waiting' = Waiting
    BY <1>1, <2>1 DEF Waiting
  <2> QED BY <1>2, <2>1, <2>2, <2>4, <2>5 DEF ForgetsNone
<1> QED BY <1>6, <1>7

-----------------------------------------------------------------------------
\* A search of a book.

\* Chains that fit do so whatever the books are.
LEMMA FitButBooks ==
  ASSUME NEW b, Fit(b), NEW b2 \in Blockchains,
         b2.cs = b.cs, b2.chains = b.chains, b2.height = b.height,
         b2.mempoolUncommitted = b.mempoolUncommitted,
         b2.recovering = b.recovering, b2.panicked = b.panicked
  PROVE  Fit(b2)
<1>1. Stocked(b2) /\ ~b2.recovering
  BY DEF Fit, Stocked
<1>2. ~b2.panicked => Sound(b2, Len(b2.chains[MatchChain]))
  BY DEF Fit, Sound
<1> QED BY <1>1, <1>2 DEF Fit

\* The matches that a search hands on.
LEMMA MatchesHandedOn ==
  ASSUME NEW base, NEW quote, NEW trades \in Seq(TradeOf(base, quote))
  PROVE  LET matches == [i \in DOMAIN trades |-> trades[i].match]
         IN /\ matches \in Seq(BookMatch)
            /\ trades # <<>> => \E m \in ToSet(matches) : BookOfTx(m) = {base, quote}
<1> DEFINE matches == [i \in DOMAIN trades |-> trades[i].match]
<1>1. DOMAIN trades = 1 .. Len(trades) /\ Len(trades) \in Nat
  OBVIOUS
<1>2. \A i \in 1 .. Len(trades) : trades[i].match \in BookMatch
                                  /\ BookOfTx(trades[i].match) = {base, quote}
  <2>1. \A i \in 1 .. Len(trades) : trades[i] \in TradeOf(base, quote)
    OBVIOUS
  <2>2. \A trade \in TradeOf(base, quote) : trade.match \in BookMatch
                                             /\ BookOfTx(trade.match) = {base, quote}
    BY DEF TradeOf
  <2> QED BY <2>1, <2>2
<1>3. matches \in Seq(BookMatch)
  BY <1>1, <1>2
<1>4. trades # <<>> => 1 \in 1 .. Len(trades)
  BY <1>1
<1>5. trades # <<>> => matches[1] \in ToSet(matches) /\ BookOfTx(matches[1]) = {base, quote}
  BY <1>1, <1>2, <1>4 DEF ToSet
<1> QED BY <1>3, <1>5

\* What a search of a book that is dirty does: the queues stay as they were, the book is
\* not dirty any more, and a match waits if there was one to find.
LEMMA DirtyLook ==
  ASSUME OffersInv, NEW g \in Callers, NEW base \in Symbols, NEW quote \in Symbols,
         Look(g, base, quote), {base, quote} \in bcs.books.dirty
  PROVE  /\ Fit(bcs') /\ ~bcs.panicked
         /\ bcs'.books.queue = bcs.books.queue
         /\ bcs'.books.dirty = bcs.books.dirty \ {{base, quote}}
         /\ found' \in [Callers -> Seq(BookMatch)]
         /\ \A h \in Callers : ToSet(found[h]) \subseteq ToSet(found'[h])
         /\ Matchable(BookOf(bcs.books, base, quote)) =>
              \E m \in ToSet(found'[g]) : BookOfTx(m) = {base, quote}
<1> DEFINE book == BookOf(bcs.books, base, quote)
           look == [base |-> base, quote |-> quote, ids |-> FreshIDs]
<1>1. Running /\ found[g] = <<>> /\ IsBase(base, quote)
  BY DEF Look
<1>2. PICK search \in Searches(book, look) :
        /\ bcs' = [bcs EXCEPT !.books = WithBookSearched(@, base, quote, TakenBack(search))]
        /\ found' = [found EXCEPT ![g] =
                       [i \in DOMAIN search.trades |-> search.trades[i].match]]
  BY DEF Look
<1>3. /\ bcs \in Blockchains /\ bcs.books \in Books /\ Fit(bcs) /\ ~bcs.panicked
      /\ found \in [Callers -> Seq(BookMatch)]
  BY <1>1, BooksType DEF OffersInv, ChainsInv, Running
<1>4. /\ book \in Book /\ book.buyers = bcs.books.queue[base][quote]
      /\ book.sellers = bcs.books.queue[quote][base]
  BY <1>3, BookOfType
<1>5. look.base = base /\ look.quote = quote /\ look.ids \subseteq MatchIDs
  BY DEF FreshIDs
<1> HIDE DEF book, look
<1>6. SearchOf(book, base, quote, search) /\ (Matchable(book) => search.trades # <<>>)
  BY ONLY <1>1, <1>2, <1>4, <1>5, base \in Symbols, quote \in Symbols, SearchFinds
<1>7. TakenBack(search) = book /\ search.trades \in Seq(TradeOf(base, quote))
  BY <1>6 DEF SearchOf
<1> DEFINE queue == bcs.books.queue  dirty == bcs.books.dirty \ {{base, quote}}
           matches == [i \in DOMAIN search.trades |-> search.trades[i].match]
<1>8. bcs' = [bcs EXCEPT !.books = WithBookSearched(@, base, quote, book)]
  BY <1>2, <1>7
<1>9. /\ bcs' \in Blockchains /\ bcs'.books.queue = queue /\ bcs'.books.dirty = dirty
      /\ bcs'.cs = bcs.cs /\ bcs'.chains = bcs.chains /\ bcs'.height = bcs.height
      /\ bcs'.mempoolUncommitted = bcs.mempoolUncommitted
      /\ bcs'.recovering = bcs.recovering /\ bcs'.panicked = bcs.panicked
  <2> DEFINE books2 == [queue |-> queue, dirty |-> dirty]
  <2>1. queue \in [Symbols -> [Symbols -> Queue]] /\ books2 \in Books
    BY <1>3 DEF Books
  <2>2. bcs' = [bcs EXCEPT !.books = books2]
    <3> DEFINE buyers == book.buyers  sellers == book.sellers
               q2 == [queue EXCEPT ![base][quote] = buyers, ![quote][base] = sellers]
    <3>1. WithBookSearched(bcs.books, base, quote, book) = [queue |-> q2, dirty |-> dirty]
      BY DEF WithBookSearched
    <3>2. buyers = queue[base][quote] /\ sellers = queue[quote][base]
      BY <1>4
    <3> HIDE DEF queue, dirty, buyers, sellers
    <3>3. q2 = queue
      BY <2>1, <3>2
    <3> HIDE DEF q2
    <3> QED BY <1>8, <3>1, <3>3
  <2>3. books2.queue = queue /\ books2.dirty = dirty
    OBVIOUS
  <2> HIDE DEF books2, queue, dirty
  <2> QED BY ONLY <1>3, <2>1, <2>2, <2>3 DEF Blockchains
<1>10. Fit(bcs')
  BY ONLY <1>3, <1>9, FitButBooks
<1>11. found' = [found EXCEPT ![g] = matches]
  BY <1>2
<1>12. /\ matches \in Seq(BookMatch)
       /\ search.trades # <<>> => \E m \in ToSet(matches) : BookOfTx(m) = {base, quote}
  BY ONLY <1>7, MatchesHandedOn
<1> HIDE DEF matches
<1>13. found' \in [Callers -> Seq(BookMatch)] /\ found'[g] = matches
       /\ \A h \in Callers : ToSet(found[h]) \subseteq ToSet(found'[h])
  <2>1. ToSet(<<>>) = {}
    BY DEF ToSet
  <2> QED BY <1>1, <1>3, <1>11, <1>12, <2>1
<1>14. Matchable(book) => \E m \in ToSet(found'[g]) : BookOfTx(m) = {base, quote}
  BY <1>6, <1>12, <1>13
<1> QED BY <1>3, <1>9, <1>10, <1>13, <1>14 DEF book, queue, dirty

\* A search keeps what waits, and leaves every order as it was.
LEMMA LookStep ==
  ASSUME OffersInv, NEW g \in Callers, NEW base \in Symbols, NEW quote \in Symbols,
         Look(g, base, quote)
  PROVE  OffersInv' /\ bcs'.books.queue = bcs.books.queue
<1>1. Running /\ UNCHANGED <<chosen, replayed, crashes, mempool, revalidating>>
  BY DEF Look
<1>2. CASE {base, quote} \in bcs.books.dirty
  <2>1. Fit(bcs') /\ bcs'.books.queue = bcs.books.queue /\ found' \in [Callers -> Seq(BookMatch)]
    BY <1>2, DirtyLook
  <2>2. ChainsInv'
    BY <1>1, <2>1, RunningStep DEF OffersInv
  <2> QED BY <1>1, <2>1, <2>2 DEF OffersInv
<1>3. CASE {base, quote} \notin bcs.books.dirty
  <2>1. UNCHANGED <<bcs, found>>
    BY <1>3 DEF Look
  <2>2. ChainsInv'
    BY <1>1, <2>1, RunningStep DEF OffersInv, ChainsInv, Running
  <2> QED BY <1>1, <2>1, <2>2 DEF OffersInv
<1> QED BY <1>2, <1>3

\* Of two tokens one is the base.
LEMMA OneBase ==
  ASSUME NEW s \in Symbols, NEW t \in Symbols, NEW base \in Symbols, NEW quote \in Symbols,
         IsBase(s, t), IsBase(base, quote), {s, t} = {base, quote}
  PROVE  s = base /\ t = quote
<1>1. SymbolRank[s] \in Int /\ SymbolRank[t] \in Int
      /\ SymbolRank[base] \in Int /\ SymbolRank[quote] \in Int
  BY SymbolRankAssumption
<1>2. SymbolRank[s] > SymbolRank[t] /\ SymbolRank[base] > SymbolRank[quote]
  BY DEF IsBase
<1>3. s # t
  BY <1>1, <1>2
<1>4. CASE s = quote /\ t = base
  BY <1>1, <1>2, <1>4
<1> QED BY <1>3, <1>4

\* A book that was searched has nothing to match, or a match of it waits.
LEMMA LookAwaited ==
  ASSUME OffersInv, NEW g \in Callers, NEW base \in Symbols, NEW quote \in Symbols,
         Look(g, base, quote), Awaited(bcs.books, Waiting, refused)
  PROVE  Awaited(bcs'.books, Waiting', refused')
<1>1. bcs'.books.queue = bcs.books.queue /\ mempool' = mempool /\ IsBase(base, quote)
  BY LookStep DEF Look
<1>2. Waiting' = mempool' \cup UNION {ToSet(found'[h]) : h \in Callers}
  BY DEF Waiting
<1>3. CASE {base, quote} \notin bcs.books.dirty
  <2>1. bcs' = bcs /\ found' = found /\ refused' = refused
    BY <1>3 DEF Look
  <2>2. Waiting' = Waiting
    BY <1>1, <1>2, <2>1 DEF Waiting
  <2> QED BY <2>1, <2>2
<1>4. CASE {base, quote} \in bcs.books.dirty
  <2>1. /\ bcs'.books.dirty = bcs.books.dirty \ {{base, quote}}
        /\ \A h \in Callers : ToSet(found[h]) \subseteq ToSet(found'[h])
        /\ Matchable(BookOf(bcs.books, base, quote)) =>
             \E m \in ToSet(found'[g]) : BookOfTx(m) = {base, quote}
    BY <1>4, DirtyLook
  <2>2. refused' = refused \ {{base, quote}}
    BY <1>4 DEF Look
  <2>3. Waiting \subseteq Waiting' /\ ToSet(found'[g]) \subseteq Waiting'
    BY <1>1, <1>2, <2>1 DEF Waiting
  <2> SUFFICES ASSUME NEW s \in Symbols, NEW t \in Symbols, IsBase(s, t),
                      Tempting(BookOf(bcs'.books, s, t))
               PROVE  \/ {s, t} \in bcs'.books.dirty
                      \/ \E m \in Waiting' : BookOfTx(m) = {s, t}
                      \/ {s, t} \in refused'
    BY DEF Awaited
  <2>4. BookOf(bcs'.books, s, t) = BookOf(bcs.books, s, t)
    BY <1>1 DEF BookOf
  <2>5. Tempting(BookOf(bcs.books, s, t))
    BY <2>4
  <2>6. CASE {s, t} = {base, quote}
    <3>1. s = base /\ t = quote
      BY <1>1, <2>6, OneBase
    <3>2. Matchable(BookOf(bcs.books, base, quote))
      BY <2>5, <3>1 DEF Tempting, Matchable
    <3>3. PICK m \in ToSet(found'[g]) : BookOfTx(m) = {base, quote}
      BY <2>1, <3>2
    <3> QED BY <2>3, <3>1, <3>3
  <2>7. CASE {s, t} # {base, quote}
    <3>1. \/ {s, t} \in bcs.books.dirty
          \/ \E m \in Waiting : BookOfTx(m) = {s, t}
          \/ {s, t} \in refused
      BY <2>5 DEF Awaited
    <3> QED BY <2>1, <2>2, <2>3, <2>7, <3>1
  <2> QED BY <2>6, <2>7
<1> QED BY <1>3, <1>4

\* A node that stops has no match in memory, and no order in its books.
LEMMA MatcherRestartStep ==
  ASSUME OffersInv, MatcherRestart
  PROVE  OffersInv' /\ bcs'.books = NoBooks
<1>1. Restart /\ found' = [g \in Callers |-> <<>>] /\ mempool' = {} /\ revalidating' = <<>>
  BY DEF MatcherRestart
<1>2. ChainsInv'
  BY <1>1, RestartStep DEF OffersInv
<1>3. bcs'.books = NoBooks
  BY <1>1 DEF Restart, Opened
<1>4. found' \in [Callers -> Seq(BookMatch)] /\ revalidating' \in Seq(SUBSET BookMatch)
  <2>1. <<>> \in Seq(BookMatch) /\ <<>> \in Seq(SUBSET BookMatch)
    OBVIOUS
  <2> QED BY <1>1, <2>1
<1> QED BY <1>1, <1>2, <1>3, <1>4 DEF OffersInv

\* Nothing happens.
LEMMA MatcherStutters ==
  ASSUME OffersInv, UNCHANGED allVars
  PROVE  OffersInv' /\ UNCHANGED <<bcs, found, mempool, refused>> /\ Waiting' = Waiting
<1>1. UNCHANGED vars /\ UNCHANGED <<bcs, found, mempool, revalidating, refused>>
  BY DEF allVars, vars, matcherVars
<1>2. ChainsInv'
  BY <1>1 DEF OffersInv, vars, ChainsInv, Fit, Restoring, Sound, Stocked
<1> QED BY <1>1, <1>2 DEF OffersInv, Waiting

\* A step that forgets no match keeps the invariant.
LEMMA ForgetsNoneKeeps ==
  ASSUME NoneKeptApart(bcs.books), MatcherInv, OffersInv', ForgetsNone
  PROVE  ~bcs'.panicked => Awaited(bcs'.books, Waiting', refused')
<1> SUFFICES ASSUME ~bcs'.panicked
             PROVE  Awaited(bcs'.books, Waiting', refused')
  OBVIOUS
<1>1. bcs.books \in Books
  BY BooksType DEF MatcherInv, OffersInv
<1>2. bcs'.books \in Books
  <2>1. bcs' \in Blockchains
    BY DEF OffersInv, ChainsInv, Fit, Restoring, Stocked
  <2> QED BY <2>1 DEF Blockchains
<1>3. Awaited(bcs.books, Waiting, refused)
  BY DEF MatcherInv, ForgetsNone
<1> DEFINE books == bcs.books  books2 == bcs'.books  waiting2 == Waiting'  gone2 == refused'
<1>4. /\ Loses(books, books2) /\ refused \subseteq gone2
      /\ \A m \in Waiting : m \in waiting2 \/ BookOfTx(m) \in gone2 \cup books2.dirty
      /\ books \in Books /\ books2 \in Books /\ Awaited(books, Waiting, refused)
      /\ NoneKeptApart(books)
  BY <1>1, <1>2, <1>3 DEF ForgetsNone
<1> HIDE DEF books, books2, waiting2, gone2
<1>5. Awaited(books2, waiting2, gone2)
  BY ONLY <1>4, AwaitedKept
<1> QED BY <1>5 DEF books2, waiting2, gone2

\* The steps that forget no match.
LEMMA OtherSteps ==
  ASSUME NoCancels, NoSelfMatches, OffersInv,
         \/ \E g \in Callers : Offer(g)
         \/ \E block \in PeerBlocks : PeerAddsBlock(block)
         \/ \E s \in Chains, h \in 1 .. MaxHeight : PeerRollsBack(s, h)
         \/ AddMinedBlock
         \/ StartMining
         \/ \E i \in DOMAIN revalidating : \E m \in revalidating[i] : Revalidate(i, m)
         \/ Recovery
  PROVE  OffersInv' /\ ForgetsNone
<1>1. ASSUME NEW g \in Callers, Offer(g)
      PROVE  OffersInv' /\ ForgetsNone
  BY <1>1, OfferStep
<1>2. CASE \/ \E block \in PeerBlocks : PeerAddsBlock(block)
           \/ \E s \in Chains, h \in 1 .. MaxHeight : PeerRollsBack(s, h)
           \/ Recovery
  BY <1>2, PeerOrRecoveryStep
<1>3. CASE AddMinedBlock
  BY <1>3, MinedBlockStep
<1>4. CASE StartMining
  BY <1>4, StartMiningStep
<1>5. ASSUME NEW i \in DOMAIN revalidating, NEW m \in revalidating[i], Revalidate(i, m)
      PROVE  OffersInv' /\ ForgetsNone
  BY <1>5, RevalidateStep
<1> QED BY <1>1, <1>2, <1>3, <1>4, <1>5

\* What every step keeps of the chains and of what waits.
LEMMA OffersStep ==
  ASSUME NoCancels, NoSelfMatches, OffersInv, [MatcherNext]_allVars
  PROVE  OffersInv'
<1>1. ASSUME NEW g \in Callers, NEW base \in Symbols, NEW quote \in Symbols,
             Look(g, base, quote)
      PROVE  OffersInv'
  BY <1>1, LookStep
<1>2. CASE MatcherRestart
  BY <1>2, MatcherRestartStep
<1>3. CASE UNCHANGED allVars
  BY <1>3, MatcherStutters
<1> QED BY <1>1, <1>2, <1>3, OtherSteps DEF MatcherNext

\* Every step keeps the invariant.
LEMMA MatcherStep ==
  ASSUME NoCancels, NoSelfMatches, MatcherInv, [MatcherNext]_allVars,
         NoneKeptApart(bcs.books)
  PROVE  MatcherInv'
<1>1. OffersInv /\ OffersInv'
  BY OffersStep DEF MatcherInv
<1>2. ~bcs'.panicked => Awaited(bcs'.books, Waiting', refused')
  <2>1. ASSUME NEW g \in Callers, NEW base \in Symbols, NEW quote \in Symbols,
               Look(g, base, quote)
        PROVE  ~bcs'.panicked => Awaited(bcs'.books, Waiting', refused')
    <3>1. ~bcs.panicked
      BY <2>1 DEF Look, Running
    <3>2. Awaited(bcs.books, Waiting, refused)
      BY <3>1 DEF MatcherInv
    <3> QED BY <1>1, <2>1, <3>2, LookAwaited
  <2>2. CASE MatcherRestart
    <3>1. bcs'.books = NoBooks
      BY <1>1, <2>2, MatcherRestartStep
    <3>2. Awaited(NoBooks, Waiting', refused')
      BY NothingAwaited
    <3> QED BY <3>1, <3>2
  <2>3. CASE UNCHANGED allVars
    <3>1. UNCHANGED <<bcs, refused>> /\ Waiting' = Waiting
      BY <1>1, <2>3, MatcherStutters
    <3> QED BY <3>1 DEF MatcherInv
  <2>4. ASSUME ForgetsNone
        PROVE  ~bcs'.panicked => Awaited(bcs'.books, Waiting', refused')
    BY <1>1, <2>4, ForgetsNoneKeeps
  <2> QED BY <1>1, <2>1, <2>2, <2>3, <2>4, OtherSteps DEF MatcherNext
<1> QED BY <1>1, <1>2 DEF MatcherInv, Awaited

\* At first the books are those of the first blocks, and nothing waits.
LEMMA MatcherStarts ==
  ASSUME NoCancels, NoSelfMatches, MatcherInit
  PROVE  OffersInv /\ Loses(NoBooks, bcs.books)
<1>1. Init /\ found = [g \in Callers |-> <<>>] /\ mempool = {} /\ revalidating = <<>>
  BY DEF MatcherInit
<1>2. ChainsInv
  BY <1>1, ChainsInit
<1>3. Loses(NoBooks, bcs.books)
  BY <1>1, StartFits DEF Init
<1>4. <<>> \in Seq(BookMatch) /\ <<>> \in Seq(SUBSET BookMatch)
  OBVIOUS
<1> QED BY <1>1, <1>2, <1>3, <1>4 DEF OffersInv

\* Those of two tokens are empty or dirty.
LEMMA MatcherStartsAwaited ==
  ASSUME NoCancels, NoSelfMatches, MatcherInit
  PROVE  MatcherInv
<1>1. OffersInv /\ Loses(NoBooks, bcs.books)
  BY MatcherStarts
<1>2. bcs.books \in Books
  BY <1>1, BooksType DEF OffersInv
<1>3. NoBooks \in Books /\ NoneKeptApart(NoBooks) /\ Awaited(NoBooks, {}, refused)
  BY NothingAwaited
<1> DEFINE books2 == bcs.books
<1>4. Awaited(books2, Waiting, refused)
  <2>1. /\ books2 \in Books /\ Loses(NoBooks, books2)
        /\ \A m \in {} : m \in Waiting \/ BookOfTx(m) \in refused \cup books2.dirty
    BY <1>1, <1>2
  <2> HIDE DEF books2
  <2> QED BY ONLY <1>3, <2>1, AwaitedKept
<1> QED BY <1>1, <1>4 DEF MatcherInv

-----------------------------------------------------------------------------
\* The theorems.

\* A search leaves every order as it was: FindAllMatches takes back what it has
\* applied, whatever orders it has filled on the way.
THEOREM SearchesLeaveOrders ==
  ASSUME NoCancels, NoSelfMatches
  PROVE  MatcherSpec => SearchLeavesOrders
<1>1. MatcherInit => OffersInv
  BY MatcherStarts
<1>2. OffersInv /\ [MatcherNext]_allVars => OffersInv'
  BY OffersStep
<1>3. OffersInv /\ [MatcherNext]_allVars
        => [(\E g \in Callers, base, quote \in Symbols : Look(g, base, quote))
              => UNCHANGED bcs.books.queue]_allVars
  BY LookStep
<1> QED BY <1>1, <1>2, <1>3, PTL DEF MatcherSpec, SearchLeavesOrders

\* The matches of the chains and those that wait keep the counters of the orders right,
\* however searches, offers and blocks of the node follow each other.
THEOREM MatcherCountsMatches ==
  ASSUME NoCancels, NoSelfMatches
  PROVE  MatcherSpec => []OrdersKnowTheirMatches
<1>1. MatcherInit => OffersInv
  BY MatcherStarts
<1>2. OffersInv /\ [MatcherNext]_allVars => OffersInv'
  BY OffersStep
<1>3. OffersInv => OrdersKnowTheirMatches
  BY ChainsKnowMatches DEF OffersInv
<1> QED BY <1>1, <1>2, <1>3, PTL DEF MatcherSpec

\* No match is forgotten, over any order of searches, offers, blocks, forks and stops, but
\* for books of which the ledger refused a match, until rounding keeps the tops of a book
\* apart: FindAllMatches then passes it by with Dirty cleared, and Cancel does not set it
\* again when one of them goes.
THEOREM MatchesAreNotForgotten ==
  ASSUME NoCancels, NoSelfMatches
  PROVE  MatcherSpec /\ []NoneKeptApart(bcs.books) => []NoMatchForgottenUnlessRefused
<1>1. MatcherInit => MatcherInv
  BY MatcherStartsAwaited
<1>2. MatcherInv /\ [MatcherNext]_allVars /\ NoneKeptApart(bcs.books) => MatcherInv'
  BY MatcherStep
<1>3. MatcherInv => NoMatchForgottenUnlessRefused
  <2> SUFFICES ASSUME MatcherInv, Running, NEW s \in Symbols, NEW t \in Symbols, IsBase(s, t)
               PROVE  MatchAwaited(s, t) \/ {s, t} \in refused
    BY DEF NoMatchForgottenUnlessRefused
  <2>1. Awaited(bcs.books, Waiting, refused)
    BY DEF MatcherInv, Running
  <2>2. Tempting(BookOf(bcs.books, s, t)) =>
          \/ {s, t} \in bcs.books.dirty
          \/ \E m \in Waiting : BookOfTx(m) = {s, t}
          \/ {s, t} \in refused
    BY <2>1 DEF Awaited
  <2> QED BY <2>2 DEF MatchAwaited, Tempting, Waiting
<1> QED BY <1>1, <1>2, <1>3, PTL DEF MatcherSpec

=============================================================================
