-------------------- MODULE UncommittedTransactions_proofs --------------------
(***************************************************************************)
(* For every value of the constants, as long as no cancel is offered and   *)
(* no match of a token with itself is accepted, the list of uncommitted    *)
(* transactions is an exact undo log of the ledger, and the accounts are   *)
(* right: counters are numbers of matches, no token is created or lost,    *)
(* the newest transaction can be undone, and no order is filled below its  *)
(* limit unless a match is rounded to the wrong side.                      *)
(*                                                                         *)
(* That the last undo is exact says nothing of the one before it: the      *)
(* inductive invariant keeps, for every listed transaction, the ledger it  *)
(* was accepted in and that the next ledger is the one it led to.          *)
(*                                                                         *)
(* AccountsInv says of the ledger with the matches in force, and of each   *)
(* saved ledger with the matches in force then, that they agree: undoing   *)
(* the newest transaction gives back the newest of them (UndoneMatches).   *)
(* For a match, TotalOf is debited what the buyer loses and credited what  *)
(* the seller gains, and the surplus of the matches grows by the           *)
(* difference (FilledTotal, SurplusOfOneMore).  For the limits, an order   *)
(* that bought b for d and has S to sell and B to buy is within its limit  *)
(* when b * S >= d * B (LimitIsPriceLeft), which a match at a price no     *)
(* worse than the one left keeps (PriceStep).                              *)
(***************************************************************************)
EXTENDS UncommittedTransactions, ConsensusState_proofs

\* For its lemmas on induction.
Counting == INSTANCE Folding WITH Step <- Plus

NoCancels == \A tx \in Offered : tx.type # "CANCEL_ORDER"

\* Matches of a token with itself are refused by nobody, and break the accounts: the
\* theorems are about the runs in which none is accepted, whatever is offered.
BetweenOnly == \A tx \in Offered : AddTransaction(tx) => BetweenTokens(tx)

ListedBetween == \A i \in 1 .. Len(uncommitted) : BetweenTokens(uncommitted[i])

IInv == TypeOK /\ LedgerFiled(cs) /\ Traced /\ ListedBetween

-----------------------------------------------------------------------------
\* Initially there is no token and nothing is listed.
LEMMA InitIInv == Init => IInv
<1> SUFFICES ASSUME Init PROVE IInv
  OBVIOUS
<1>1. cs \in State /\ LedgerFiled(cs)
  BY DEF Init, NewConsensusState, State, LedgerFiled, Exists
<1>2. TypeOK
  BY <1>1 DEF Init, TypeOK
<1>3. Traced
  BY DEF Init, Traced
<1>4. ListedBetween
  BY DEF Init, ListedBetween
<1> QED BY <1>1, <1>2, <1>3, <1>4 DEF IInv

\* The newest transaction is undone exactly.
LEMMA UndoLastExact ==
  ASSUME IInv, UndoLast
  PROVE  cs' = saved[Len(saved)]
<1> DEFINE n == Len(saved)
           tx == uncommitted[n]
<1>1. n \in 1 .. Len(uncommitted) /\ n = Len(uncommitted)
  BY DEF IInv, TypeOK, UndoLast
<1>2. tx \in Transaction /\ BetweenTokens(tx)
  BY <1>1, OfferedAssumption DEF IInv, TypeOK, ListedBetween
<1>3. saved[n] \in State
  BY <1>1 DEF IInv, TypeOK
<1>4. LedgerFiled(saved[n]) /\ Accepted(saved[n], tx) /\ cs = Applied(saved[n], tx)
  BY <1>1 DEF IInv, Traced, After
<1>5. Undone(cs, tx) = saved[n]
  BY <1>2, <1>3, <1>4, AcceptedStep
<1> QED BY <1>1, <1>5 DEF UndoLast, LastTx

\* Undoing leaves a shorter history of the same kind.
LEMMA UndoLastIInv ==
  ASSUME IInv, UndoLast, phase' = phase
  PROVE  IInv'
<1> DEFINE n == Len(saved)
<1>1. /\ n \in Nat \ {0}
      /\ n = Len(uncommitted)
      /\ saved' = SubSeq(saved, 1, n - 1)
      /\ uncommitted' = SubSeq(uncommitted, 1, n - 1)
  BY DEF IInv, TypeOK, UndoLast
<1>2. cs' = saved[n]
  BY UndoLastExact
<1>3. /\ saved' \in Seq(State) /\ Len(saved') = n - 1
      /\ \A i \in 1 .. n - 1 : saved'[i] = saved[i]
  BY <1>1 DEF IInv, TypeOK
<1>4. /\ uncommitted' \in Seq(Offered) /\ Len(uncommitted') = n - 1
      /\ \A i \in 1 .. n - 1 : uncommitted'[i] = uncommitted[i]
  BY <1>1 DEF IInv, TypeOK
<1>5. cs' \in State /\ LedgerFiled(cs')
  BY <1>1, <1>2 DEF IInv, TypeOK, Traced
<1>6. TypeOK'
  BY <1>3, <1>4, <1>5 DEF IInv, TypeOK, UndoLast
<1>7. Traced'
  <2> SUFFICES ASSUME NEW i \in 1 .. n - 1
               PROVE  /\ LedgerFiled(saved'[i])
                      /\ Accepted(saved'[i], uncommitted'[i])
                      /\ (IF i < n - 1 THEN saved'[i + 1] ELSE cs')
                           = Applied(saved'[i], uncommitted'[i])
    BY <1>3 DEF Traced, After
  <2>1. /\ LedgerFiled(saved[i])
        /\ Accepted(saved[i], uncommitted[i])
        /\ saved[i + 1] = Applied(saved[i], uncommitted[i])
    BY <1>1 DEF IInv, Traced, After
  <2>2. (IF i < n - 1 THEN saved'[i + 1] ELSE cs') = saved[i + 1]
    BY <1>1, <1>2, <1>3
  <2> QED BY <2>1, <2>2, <1>3, <1>4
<1>8. ListedBetween'
  BY <1>1, <1>4 DEF IInv, ListedBetween
<1> QED BY <1>5, <1>6, <1>7, <1>8 DEF IInv

\* A step that adds a transaction is not a stuttering step.
LEMMA AddedBetween ==
  ASSUME IInv, NEW tx \in Offered, AddTransaction(tx), [BetweenOnly]_vars
  PROVE  BetweenTokens(tx)
<1>1. uncommitted \in Seq(Offered) /\ uncommitted' = Append(uncommitted, tx)
  BY DEF IInv, TypeOK, AddTransaction
<1>2. Len(uncommitted') = Len(uncommitted) + 1 /\ Len(uncommitted) \in Nat
  BY <1>1
<1>3. uncommitted' # uncommitted
  BY <1>2
<1> QED BY <1>3 DEF BetweenOnly, vars

\* An accepted transaction extends the history by the ledger it was applied to.
LEMMA AddTransactionIInv ==
  ASSUME IInv, NEW tx \in Offered, AddTransaction(tx), BetweenTokens(tx)
  PROVE  IInv'
<1> DEFINE n == Len(saved)
<1>1. /\ n \in Nat /\ n = Len(uncommitted)
      /\ saved \in Seq(State) /\ uncommitted \in Seq(Offered) /\ cs \in State
      /\ LedgerFiled(cs)
  BY DEF IInv, TypeOK
<1>2. Accepted(cs, tx) /\ cs' = Applied(cs, tx)
  BY DEF AddTransaction
<1>3. tx \in Transaction /\ BetweenTokens(tx)
  BY OfferedAssumption
<1>4. cs' \in State /\ LedgerFiled(cs')
  BY <1>1, <1>2, <1>3, AcceptedStep
<1>5. /\ saved' \in Seq(State) /\ Len(saved') = n + 1
      /\ \A i \in 1 .. n : saved'[i] = saved[i]
      /\ saved'[n + 1] = cs
  BY <1>1 DEF AddTransaction
<1>6. /\ uncommitted' \in Seq(Offered) /\ Len(uncommitted') = n + 1
      /\ \A i \in 1 .. n : uncommitted'[i] = uncommitted[i]
      /\ uncommitted'[n + 1] = tx
  BY <1>1 DEF AddTransaction
<1>7. matches' \subseteq Offered \cap MatchTx
  BY <1>3, KindOfTx DEF AddTransaction, IInv, TypeOK
<1>8. TypeOK'
  BY <1>4, <1>5, <1>6, <1>7 DEF IInv, TypeOK, AddTransaction
<1>9. Traced'
  <2> SUFFICES ASSUME NEW i \in 1 .. n + 1
               PROVE  /\ LedgerFiled(saved'[i])
                      /\ Accepted(saved'[i], uncommitted'[i])
                      /\ (IF i < n + 1 THEN saved'[i + 1] ELSE cs')
                           = Applied(saved'[i], uncommitted'[i])
    BY <1>5 DEF Traced, After
  <2>1. CASE i = n + 1
    BY <2>1, <1>1, <1>2, <1>5, <1>6
  <2>2. CASE i \in 1 .. n
    <3>1. /\ LedgerFiled(saved[i])
          /\ Accepted(saved[i], uncommitted[i])
          /\ (IF i < n THEN saved[i + 1] ELSE cs) = Applied(saved[i], uncommitted[i])
      BY <2>2 DEF IInv, Traced, After
    <3>2. saved'[i + 1] = (IF i < n THEN saved[i + 1] ELSE cs)
      BY <2>2, <1>1, <1>5
    <3> QED BY <2>2, <3>1, <3>2, <1>1, <1>5, <1>6
  <2> QED BY <2>1, <2>2, <1>1
<1>10. ListedBetween'
  <2> SUFFICES ASSUME NEW i \in 1 .. n + 1 PROVE BetweenTokens(uncommitted'[i])
    BY <1>6 DEF ListedBetween
  <2>1. CASE i = n + 1
    BY <2>1, <1>6
  <2>2. CASE i \in 1 .. n
    BY <2>2, <1>1, <1>6 DEF IInv, ListedBetween
  <2> QED BY <2>1, <2>2, <1>1
<1> QED BY <1>4, <1>8, <1>9, <1>10 DEF IInv

\* Every step keeps the invariant: one case for each action.
LEMMA NextIInv ==
  ASSUME NoCancels, IInv, [Next]_vars, [BetweenOnly]_vars
  PROVE  IInv'
<1>1. ASSUME NEW tx \in Offered, AddTransaction(tx)
      PROVE  IInv'
  BY <1>1, AddedBetween, AddTransactionIInv
<1>2. ASSUME NEW tx \in Offered, RejectTransaction(tx)
      PROVE  IInv'
  <2>1. UNCHANGED vars
    BY <1>2 DEF RejectTransaction, AfterRejected, NoCancels, vars
  <2> QED BY <2>1 DEF vars, IInv, TypeOK, Traced, After, ListedBetween
<1>3. CASE RollbackLast
  BY <1>3, UndoLastIInv DEF RollbackLast
<1>4. CASE StartUndo \/ EndUndo
  <2>1. UNCHANGED <<cs, uncommitted, saved, matches>>
    BY <1>4 DEF StartUndo, EndUndo
  <2>2. phase' \in {"adding", "undoing"}
    BY <1>4 DEF StartUndo, EndUndo
  <2> QED BY <2>1, <2>2 DEF IInv, TypeOK, Traced, After, ListedBetween
<1>5. CASE UndoNext
  BY <1>5, UndoLastIInv DEF UndoNext
<1>6. CASE DropList
  <2>1. TypeOK'
    BY <1>6 DEF DropList, IInv, TypeOK
  <2>2. Traced'
    BY <1>6 DEF DropList, Traced
  <2> QED BY <1>6, <2>1, <2>2 DEF DropList, IInv, ListedBetween
<1>7. CASE UNCHANGED vars
  BY <1>7 DEF vars, IInv, TypeOK, Traced, After, ListedBetween
<1> QED BY <1>1, <1>2, <1>3, <1>4, <1>5, <1>6, <1>7 DEF Next

\* The invariant holds in every reachable state.
LEMMA Invariance ==
  ASSUME NoCancels
  PROVE  Spec /\ [][BetweenOnly]_vars => []IInv
<1>1. Init => IInv
  BY InitIInv
<1>2. IInv /\ [Next]_vars /\ [BetweenOnly]_vars => IInv'
  BY NextIInv
<1> QED BY <1>1, <1>2, PTL DEF Spec

-----------------------------------------------------------------------------
\* Every amount stays a uint64 and every order stays in the maps of its token.
THEOREM TypeCorrect ==
  ASSUME NoCancels
  PROVE  Spec /\ [][BetweenOnly]_vars => []TypeOK
<1>1. IInv => TypeOK
  BY DEF IInv
<1> QED BY <1>1, Invariance, PTL

\* The order maps of every token stay consistent with each other.
THEOREM OrdersStayFiled ==
  ASSUME NoCancels
  PROVE  Spec /\ [][BetweenOnly]_vars => []OrderBookkeeping
<1>1. IInv => OrderBookkeeping
  BY DEF IInv, OrderBookkeeping
<1> QED BY <1>1, Invariance, PTL

\* Every undo gives back the ledger its transaction was applied to.
THEOREM UndoRestores ==
  ASSUME NoCancels
  PROVE  Spec /\ [][BetweenOnly]_vars => UndoIsExact
<1>1. IInv /\ [Next]_vars
        => [RollbackLast \/ UndoNext => cs' = saved[Len(saved)]]_vars
  BY UndoLastExact DEF RollbackLast, UndoNext
<1> QED BY <1>1, Invariance, PTL DEF Spec, UndoIsExact

-----------------------------------------------------------------------------
\* The list implements a stack of ledgers.

\* At first the stack has one ledger, the one without tokens.
LEMMA InitRefines == Init => Log!Init
<1> SUFFICES ASSUME Init PROVE Log!Init
  OBVIOUS
<1>1. cs \in State
  BY InitIInv DEF IInv, TypeOK
<1>2. Append(saved, cs) = <<cs>>
  BY DEF Init
<1> QED BY <1>1, <1>2 DEF Log!Init

\* Adding a transaction pushes, undoing one pops, dropping the list forgets, and
\* the other steps leave the stack alone.
LEMMA StepRefines ==
  ASSUME NoCancels, IInv, IInv', [Next]_vars
  PROVE  [Log!Next]_(Append(saved, cs))
<1> DEFINE n == Len(saved)
           stack == Append(saved, cs)
<1>1. /\ saved \in Seq(State) /\ cs \in State /\ n \in Nat
      /\ saved' \in Seq(State) /\ cs' \in State
  BY DEF IInv, TypeOK
<1>2. /\ stack \in Seq(State) /\ Len(stack) = n + 1 /\ stack[n + 1] = cs
      /\ \A i \in 1 .. n : stack[i] = saved[i]
  BY <1>1
<1>3. ASSUME NEW tx \in Offered, AddTransaction(tx)
      PROVE  Log!Push
  <2>1. saved' = stack
    BY <1>3 DEF AddTransaction
  <2>2. stack' = Append(stack, cs')
    BY <2>1
  <2>3. /\ Len(stack') = Len(stack) + 1
        /\ stack'[Len(stack')] = cs'
        /\ stack = SubSeq(stack', 1, Len(stack))
    BY <1>1, <1>2, <2>2
  <2> QED BY <1>1, <2>3 DEF Log!Push
<1>4. ASSUME UndoLast
      PROVE  Log!Pop
  <2>1. n > 0 /\ saved' = SubSeq(saved, 1, n - 1) /\ cs' = saved[n]
    BY <1>1, <1>4, UndoLastExact DEF UndoLast, IInv, TypeOK
  <2>2. stack' = Append(SubSeq(saved, 1, n - 1), saved[n])
    BY <2>1
  <2>3. SubSeq(stack, 1, Len(stack) - 1) = saved
    BY <1>1, <1>2
  <2>4. Append(SubSeq(saved, 1, n - 1), saved[n]) = saved
    BY <1>1, <2>1
  <2>5. stack' = SubSeq(stack, 1, Len(stack) - 1)
    BY <2>2, <2>3, <2>4
  <2>6. Len(stack) > 1
    BY <1>1, <1>2, <2>1
  <2> QED BY <2>5, <2>6 DEF Log!Pop
<1>5. ASSUME DropList
      PROVE  Log!Forget
  <2>1. stack' = <<cs>>
    BY <1>5 DEF DropList
  <2> QED BY <1>1, <1>2, <2>1 DEF Log!Forget
<1>6. ASSUME UNCHANGED <<saved, cs>>
      PROVE  UNCHANGED stack
  BY <1>6
<1>7. ASSUME NEW tx \in Offered, RejectTransaction(tx)
      PROVE  UNCHANGED <<saved, cs>>
  BY <1>7 DEF RejectTransaction, AfterRejected, NoCancels
<1>8. CASE StartUndo \/ EndUndo \/ UNCHANGED vars
  <2>1. UNCHANGED <<saved, cs>>
    BY <1>8 DEF StartUndo, EndUndo, vars
  <2> QED BY <1>6, <2>1
<1>9. CASE RollbackLast \/ UndoNext
  BY <1>4, <1>9 DEF RollbackLast, UndoNext, Log!Next
<1> QED BY <1>3, <1>5, <1>6, <1>7, <1>8, <1>9 DEF Next, Log!Next

\* The list of uncommitted transactions behaves as a stack of ledgers: each undo
\* uncovers the ledger below, each dropped list keeps the one on top.
THEOREM RefinesUndoLog ==
  ASSUME NoCancels
  PROVE  Spec /\ [][BetweenOnly]_vars => ImplementsUndoLog
<1>1. Init => Log!Init
  BY InitRefines
<1>2. IInv /\ IInv' /\ [Next]_vars => [Log!Next]_(Append(saved, cs))
  BY StepRefines
<1> QED BY <1>1, <1>2, Invariance, PTL DEF Spec, ImplementsUndoLog, Log!Spec

-----------------------------------------------------------------------------
\* Sums over finite sets, SumFunction of the module Functions.  It is a recursive function
\* on subsets, so that facts about it are proved by induction on cardinality.

\* What SumFunctionOnSet of f is on the subsets T: g.
Chosen(s) == CHOOSE x \in s : TRUE
SumsUpTo(f, T, g) ==
  g = [s \in T |-> IF s = {} THEN 0 ELSE f[Chosen(s)] + g[s \ {Chosen(s)}]]

SumsOf(f, S, g) == SumsUpTo(f, SUBSET S, g)

\* The sum, with the recursive function that it stands for named.
LEMMA SumIs ==
  ASSUME NEW f, NEW S
  PROVE  SumFunctionOnSet(f, S) = (CHOOSE g : SumsOf(f, S, g))[S]
BY DEF SumFunctionOnSet, FoldFunctionOnSet, MapThenFoldSet, SumsOf, SumsUpTo, Chosen

\* That function exists: it does for subsets of any size.
LEMMA SumExists ==
  ASSUME NEW f, NEW S, IsFiniteSet(S)
  PROVE  \E g : SumsOf(f, S, g)
<1> DEFINE Small(n) == {s \in SUBSET S : Cardinality(s) <= n}
           N == {n \in Nat : \E g : SumsUpTo(f, Small(n), g)}
<1>0. \A s \in SUBSET S : IsFiniteSet(s) /\ Cardinality(s) \in Nat /\ Cardinality(s) <= Cardinality(S)
  BY FS_Subset, FS_CardinalityType
<1>1. 0 \in N
  <2> DEFINE g == [s \in Small(0) |-> 0]
  <2>1. \A s \in Small(0) : s = {}
    BY <1>0, FS_EmptySet
  <2>2. SumsUpTo(f, Small(0), g)
    BY <2>1 DEF SumsUpTo
  <2> QED BY <2>2
<1>2. ASSUME NEW n \in Nat, n \in N
      PROVE  n + 1 \in N
  <2>1. PICK g : SumsUpTo(f, Small(n), g)
    BY <1>2
  <2> DEFINE h == [s \in Small(n + 1) |-> IF s = {} THEN 0 ELSE f[Chosen(s)] + g[s \ {Chosen(s)}]]
  <2>2. ASSUME NEW s \in Small(n + 1), s # {}
        PROVE  s \ {Chosen(s)} \in Small(n)
    <3>1. Chosen(s) \in s
      BY <2>2 DEF Chosen
    <3>2. Cardinality(s \ {Chosen(s)}) = Cardinality(s) - 1
      BY <1>0, <3>1, FS_RemoveElement
    <3> QED BY <1>0, <3>2
  <2>3. ASSUME NEW s \in Small(n)
        PROVE  h[s] = g[s]
    <3>1. s \in Small(n + 1)
      BY <1>0
    <3>2. g[s] = IF s = {} THEN 0 ELSE f[Chosen(s)] + g[s \ {Chosen(s)}]
      BY <2>1 DEF SumsUpTo
    <3> QED BY <3>1, <3>2
  <2>4. SumsUpTo(f, Small(n + 1), h)
    <3> HIDE DEF Small
    <3> QED BY <2>2, <2>3 DEF SumsUpTo
  <2>5. \E k : SumsUpTo(f, Small(n + 1), k)
    <3> HIDE DEF h, Small
    <3> QED BY <2>4
  <2> QED BY <2>5
<1>3. Nat \subseteq N
  <2> HIDE DEF N
  <2> QED BY <1>1, <1>2, Counting!Induct
<1>4. Small(Cardinality(S)) = SUBSET S
  BY <1>0
<1> QED BY <1>0, <1>3, <1>4, FS_CardinalityType DEF SumsOf

\* Functions that agree on a set have the same sums on its subsets.
LEMMA SumsAgree ==
  ASSUME NEW f, NEW h, NEW S, IsFiniteSet(S), NEW T, T \subseteq S,
         \A x \in T : f[x] = h[x],
         NEW g, SumsOf(f, S, g), NEW k, SumsOf(h, T, k)
  PROVE  k[T] = g[T]
<1> DEFINE N == {n \in Nat : \A s \in SUBSET T : Cardinality(s) = n => k[s] = g[s]}
<1>0. \A s \in SUBSET T : IsFiniteSet(s) /\ Cardinality(s) \in Nat
  BY FS_Subset, FS_CardinalityType
<1>a. \A s \in SUBSET T : 
        /\ k[s] = IF s = {} THEN 0 ELSE h[Chosen(s)] + k[s \ {Chosen(s)}]
        /\ g[s] = IF s = {} THEN 0 ELSE f[Chosen(s)] + g[s \ {Chosen(s)}]
  BY DEF SumsOf, SumsUpTo
<1>1. 0 \in N
  <2> SUFFICES ASSUME NEW s \in SUBSET T, Cardinality(s) = 0
               PROVE  k[s] = g[s]
    OBVIOUS
  <2>1. s = {}
    BY <1>0, FS_EmptySet
  <2> QED BY <2>1, <1>a
<1>2. ASSUME NEW n \in Nat, n \in N
      PROVE  n + 1 \in N
  <2> SUFFICES ASSUME NEW s \in SUBSET T, Cardinality(s) = n + 1
               PROVE  k[s] = g[s]
    OBVIOUS
  <2> DEFINE x == Chosen(s)
  <2>1. s # {}
    BY FS_EmptySet
  <2>2. x \in s
    BY <2>1 DEF Chosen
  <2>3. Cardinality(s \ {x}) = n
    <3>1. Cardinality(s \ {x}) = Cardinality(s) - 1
      BY <1>0, <2>2, FS_RemoveElement
    <3> QED BY <3>1
  <2>4. k[s \ {x}] = g[s \ {x}]
    BY <1>2, <2>3
  <2>5. f[x] = h[x]
    BY <2>2
  <2> QED BY <1>a, <2>1, <2>4, <2>5
<1>3. Nat \subseteq N
  <2> HIDE DEF N
  <2> QED BY <1>1, <1>2, Counting!Induct
<1>4. Cardinality(T) \in Nat
  BY <1>0
<1> QED BY <1>3, <1>4

\* The sum of a set is that of the rest and an element.
LEMMA SumStep ==
  ASSUME NEW f, NEW S, IsFiniteSet(S)
  PROVE  SumFunctionOnSet(f, S)
           = IF S = {} THEN 0
             ELSE f[Chosen(S)] + SumFunctionOnSet(f, S \ {Chosen(S)})
<1> DEFINE T == S \ {Chosen(S)}
           g == CHOOSE g : SumsOf(f, S, g)
           k == CHOOSE k : SumsOf(f, T, k)
<1>1. IsFiniteSet(T)
  BY FS_Subset
<1>2. SumsOf(f, S, g)
  BY SumExists
<1>3. SumsOf(f, T, k)
  BY <1>1, SumExists
<1>4. k[T] = g[T]
  <2>1. T \subseteq S /\ \A x \in T : f[x] = f[x]
    OBVIOUS
  <2> HIDE DEF g, k, T
  <2> QED BY <1>2, <1>3, <2>1, SumsAgree
<1>5. SumFunctionOnSet(f, S) = g[S] /\ SumFunctionOnSet(f, T) = k[T]
  BY SumIs
<1>6. g[S] = IF S = {} THEN 0 ELSE f[Chosen(S)] + g[S \ {Chosen(S)}]
  <2> HIDE DEF g
  <2> QED BY <1>2 DEF SumsOf, SumsUpTo
<1> QED BY <1>4, <1>5, <1>6

\* Only the values on the set count.
LEMMA SumSame ==
  ASSUME NEW f, NEW h, NEW S, IsFiniteSet(S), \A x \in S : f[x] = h[x]
  PROVE  SumFunctionOnSet(f, S) = SumFunctionOnSet(h, S)
<1> DEFINE g == CHOOSE g : SumsOf(f, S, g)
           k == CHOOSE k : SumsOf(h, S, k)
<1>1. SumsOf(f, S, g) /\ SumsOf(h, S, k)
  BY SumExists
<1>2. k[S] = g[S]
  <2> HIDE DEF g, k
  <2> QED BY <1>1, SumsAgree
<1> QED BY <1>2, SumIs

\* Integers sum up to an integer.
LEMMA SumType ==
  ASSUME NEW f, NEW S, IsFiniteSet(S), \A x \in S : f[x] \in Int
  PROVE  SumFunctionOnSet(f, S) \in Int
<1> DEFINE N == {n \in Nat : \A s \in SUBSET S : Cardinality(s) = n => SumFunctionOnSet(f, s) \in Int}
<1>0. \A s \in SUBSET S : IsFiniteSet(s) /\ Cardinality(s) \in Nat
  BY FS_Subset, FS_CardinalityType
<1>1. 0 \in N
  <2> SUFFICES ASSUME NEW s \in SUBSET S, Cardinality(s) = 0
               PROVE  SumFunctionOnSet(f, s) \in Int
    OBVIOUS
  <2>1. s = {}
    BY <1>0, FS_EmptySet
  <2> QED BY <1>0, <2>1, SumStep
<1>2. ASSUME NEW n \in Nat, n \in N
      PROVE  n + 1 \in N
  <2> SUFFICES ASSUME NEW s \in SUBSET S, Cardinality(s) = n + 1
               PROVE  SumFunctionOnSet(f, s) \in Int
    OBVIOUS
  <2> DEFINE x == Chosen(s)
  <2>1. s # {}
    BY FS_EmptySet
  <2>2. x \in s
    BY <2>1 DEF Chosen
  <2>3. Cardinality(s \ {x}) = n
    <3>1. Cardinality(s \ {x}) = Cardinality(s) - 1
      BY <1>0, <2>2, FS_RemoveElement
    <3> QED BY <3>1
  <2>4. SumFunctionOnSet(f, s \ {x}) \in Int
    BY <1>2, <2>3
  <2> QED BY <1>0, <2>1, <2>2, <2>4, SumStep
<1>3. Nat \subseteq N
  <2> HIDE DEF N
  <2> QED BY <1>1, <1>2, Counting!Induct
<1> QED BY <1>0, <1>3

\* Any element can be taken out first.
LEMMA SumWithout ==
  ASSUME NEW f, NEW S, IsFiniteSet(S), \A x \in S : f[x] \in Int, NEW z \in S
  PROVE  SumFunctionOnSet(f, S) = f[z] + SumFunctionOnSet(f, S \ {z})
<1> DEFINE N == {n \in Nat : \A s \in SUBSET S : Cardinality(s) = n =>
                   \A y \in s : SumFunctionOnSet(f, s) = f[y] + SumFunctionOnSet(f, s \ {y})}
<1>0. \A s \in SUBSET S : IsFiniteSet(s) /\ Cardinality(s) \in Nat
  BY FS_Subset, FS_CardinalityType
<1>1. 0 \in N
  <2> SUFFICES ASSUME NEW s \in SUBSET S, Cardinality(s) = 0, NEW y \in s
               PROVE  FALSE
    OBVIOUS
  <2> QED BY <1>0, FS_EmptySet
<1>2. ASSUME NEW n \in Nat, n \in N
      PROVE  n + 1 \in N
  <2> SUFFICES ASSUME NEW s \in SUBSET S, Cardinality(s) = n + 1, NEW y \in s
               PROVE  SumFunctionOnSet(f, s) = f[y] + SumFunctionOnSet(f, s \ {y})
    OBVIOUS
  <2>1. PICK x \in s : SumFunctionOnSet(f, s) = f[x] + SumFunctionOnSet(f, s \ {x})
    <3>1. Chosen(s) \in s
      BY DEF Chosen
    <3> QED BY <1>0, <3>1, SumStep
  <2>2. Cardinality(s \ {x}) = n /\ Cardinality(s \ {y}) = n
    <3>1. Cardinality(s \ {x}) = Cardinality(s) - 1 /\ Cardinality(s \ {y}) = Cardinality(s) - 1
      BY <1>0, <2>1, FS_RemoveElement
    <3> QED BY <3>1
  <2>4. CASE x = y
    BY <2>1, <2>4
  <2>5. CASE x # y
    <3>1. SumFunctionOnSet(f, s \ {x}) = f[y] + SumFunctionOnSet(f, (s \ {x}) \ {y})
      BY <1>2, <2>2, <2>5
    <3>2. SumFunctionOnSet(f, s \ {y}) = f[x] + SumFunctionOnSet(f, (s \ {y}) \ {x})
      BY <1>2, <2>1, <2>2, <2>5
    <3>3. (s \ {x}) \ {y} = (s \ {y}) \ {x}
      OBVIOUS
    <3> DEFINE rest == SumFunctionOnSet(f, (s \ {x}) \ {y})
    <3>4. IsFiniteSet((s \ {x}) \ {y})
      BY <1>0
    <3>5. rest \in Int /\ f[x] \in Int /\ f[y] \in Int
      BY <2>1, <3>4, SumType
    <3>6. f[x] + (f[y] + rest) = f[y] + (f[x] + rest)
      <4> HIDE DEF rest
      <4> QED BY <3>5
    <3> QED BY <2>1, <3>1, <3>2, <3>3, <3>6
  <2> QED BY <2>4, <2>5
<1>3. Nat \subseteq N
  <2> HIDE DEF N
  <2> QED BY <1>1, <1>2, Counting!Induct
<1> QED BY <1>0, <1>3
-----------------------------------------------------------------------------
\* The same for a function on its whole domain.
LEMMA SumOfInts ==
  ASSUME NEW D, IsFiniteSet(D), NEW f \in [D -> Int]
  PROVE  SumFunction(f) \in Int
BY SumType DEF SumFunction

\* The sum of nothing is 0.
LEMMA SumOfNone ==
  ASSUME NEW f, DOMAIN f = {}
  PROVE  SumFunction(f) = 0
BY SumStep, FS_EmptySet DEF SumFunction

\* One value taken out of a sum.
LEMMA SumSplit ==
  ASSUME NEW D, IsFiniteSet(D), NEW f \in [D -> Int], NEW x \in D
  PROVE  /\ SumFunctionOnSet(f, D \ {x}) \in Int
         /\ SumFunction(f) = f[x] + SumFunctionOnSet(f, D \ {x})
<1>1. IsFiniteSet(D \ {x}) 
  BY FS_Subset
<1> QED BY <1>1, SumType, SumWithout DEF SumFunction

\* A function changed at one place: its sum changes as its value does.
LEMMA SumChangedAt ==
  ASSUME NEW D, IsFiniteSet(D), NEW f \in [D -> Int], NEW g \in [D -> Int], NEW x \in D,
         \A y \in D \ {x} : f[y] = g[y]
  PROVE  SumFunction(g) - g[x] = SumFunction(f) - f[x]
<1>1. IsFiniteSet(D \ {x}) 
  BY FS_Subset
<1>2. SumFunctionOnSet(f, D \ {x}) = SumFunctionOnSet(g, D \ {x})
  BY <1>1, SumSame
<1>3. /\ SumFunction(f) = f[x] + SumFunctionOnSet(f, D \ {x})
      /\ SumFunctionOnSet(f, D \ {x}) \in Int
      /\ SumFunction(g) = g[x] + SumFunctionOnSet(g, D \ {x})
  BY SumSplit
<1>4. f[x] \in Int /\ g[x] \in Int
  OBVIOUS
<1> QED BY <1>2, <1>3, <1>4

\* A function with one more value.
LEMMA SumExtended ==
  ASSUME NEW D, IsFiniteSet(D), NEW x, x \notin D,
         NEW f \in [D -> Int], NEW g \in [D \cup {x} -> Int],
         \A y \in D : f[y] = g[y]
  PROVE  SumFunction(g) = SumFunction(f) + g[x]
<1>1. IsFiniteSet(D \cup {x}) /\ (D \cup {x}) \ {x} = D
  BY FS_AddElement
<1>2. SumFunctionOnSet(f, D) = SumFunctionOnSet(g, D)
  BY SumSame
<1>3. /\ SumFunction(g) = g[x] + SumFunctionOnSet(g, D)
      /\ SumFunctionOnSet(g, D) \in Int
  BY <1>1, SumSplit
<1>4. SumFunction(f) = SumFunctionOnSet(f, D)
  BY DEF SumFunction
<1> QED BY <1>2, <1>3, <1>4

\* A sum of naturals is a natural no smaller than any of its parts.
LEMMA SumOfNats ==
  ASSUME NEW D, IsFiniteSet(D), NEW f \in [D -> Nat]
  PROVE  /\ SumFunction(f) \in Nat
         /\ \A x \in D : f[x] <= SumFunction(f)
<1> DEFINE N == {n \in Nat : \A s \in SUBSET D : Cardinality(s) = n => SumFunctionOnSet(f, s) \in Nat}
<1>0. \A s \in SUBSET D : IsFiniteSet(s) /\ Cardinality(s) \in Nat
  BY FS_Subset, FS_CardinalityType
<1>1. 0 \in N
  <2> SUFFICES ASSUME NEW s \in SUBSET D, Cardinality(s) = 0
               PROVE  SumFunctionOnSet(f, s) \in Nat
    OBVIOUS
  <2>1. s = {}
    BY <1>0, FS_EmptySet
  <2> QED BY <1>0, <2>1, SumStep
<1>2. ASSUME NEW n \in Nat, n \in N
      PROVE  n + 1 \in N
  <2> SUFFICES ASSUME NEW s \in SUBSET D, Cardinality(s) = n + 1
               PROVE  SumFunctionOnSet(f, s) \in Nat
    OBVIOUS
  <2> DEFINE x == Chosen(s)
  <2>1. s # {}
    BY FS_EmptySet
  <2>2. x \in s
    BY <2>1 DEF Chosen
  <2>3. Cardinality(s \ {x}) = n
    <3>1. Cardinality(s \ {x}) = Cardinality(s) - 1
      BY <1>0, <2>2, FS_RemoveElement
    <3> QED BY <3>1
  <2>4. SumFunctionOnSet(f, s \ {x}) \in Nat
    BY <1>2, <2>3
  <2> QED BY <1>0, <2>1, <2>2, <2>4, SumStep
<1>3. Nat \subseteq N
  <2> HIDE DEF N
  <2> QED BY <1>1, <1>2, Counting!Induct
<1>4. \A s \in SUBSET D : SumFunctionOnSet(f, s) \in Nat
  BY <1>0, <1>3
<1>5. SumFunction(f) \in Nat
  BY <1>4 DEF SumFunction
<1>6. ASSUME NEW x \in D
      PROVE  f[x] <= SumFunction(f)
  <2>1. SumFunction(f) = f[x] + SumFunctionOnSet(f, D \ {x})
    BY SumSplit
  <2>2. SumFunctionOnSet(f, D \ {x}) \in Nat /\ f[x] \in Nat
    BY <1>4
  <2> QED BY <2>1, <2>2
<1> QED BY <1>5, <1>6

\* A sum of zeros is zero.
LEMMA SumOfZeros ==
  ASSUME NEW D, IsFiniteSet(D), NEW f, DOMAIN f = D, \A x \in D : f[x] = 0
  PROVE  SumFunction(f) = 0
<1> DEFINE N == {n \in Nat : \A s \in SUBSET D : Cardinality(s) = n => SumFunctionOnSet(f, s) = 0}
<1>0. \A s \in SUBSET D : IsFiniteSet(s) /\ Cardinality(s) \in Nat
  BY FS_Subset, FS_CardinalityType
<1>1. 0 \in N
  <2> SUFFICES ASSUME NEW s \in SUBSET D, Cardinality(s) = 0
               PROVE  SumFunctionOnSet(f, s) = 0
    OBVIOUS
  <2>1. s = {}
    BY <1>0, FS_EmptySet
  <2> QED BY <1>0, <2>1, SumStep
<1>2. ASSUME NEW n \in Nat, n \in N
      PROVE  n + 1 \in N
  <2> SUFFICES ASSUME NEW s \in SUBSET D, Cardinality(s) = n + 1
               PROVE  SumFunctionOnSet(f, s) = 0
    OBVIOUS
  <2> DEFINE x == Chosen(s)
  <2>1. s # {}
    BY FS_EmptySet
  <2>2. x \in s
    BY <2>1 DEF Chosen
  <2>3. Cardinality(s \ {x}) = n
    <3>1. Cardinality(s \ {x}) = Cardinality(s) - 1
      BY <1>0, <2>2, FS_RemoveElement
    <3> QED BY <3>1
  <2>4. SumFunctionOnSet(f, s \ {x}) = 0 /\ f[x] = 0
    BY <1>2, <2>2, <2>3
  <2>5. SumFunctionOnSet(f, s) = f[x] + SumFunctionOnSet(f, s \ {x})
    BY <1>0, <2>1, SumStep
  <2> QED BY <2>4, <2>5
<1>3. Nat \subseteq N
  <2> HIDE DEF N
  <2> QED BY <1>1, <1>2, Counting!Induct
<1> QED BY <1>0, <1>3 DEF SumFunction

-----------------------------------------------------------------------------
\* The funds of a token.

\* What is on an address, in the store and in an order is part of the sums.
LEMMA Parts ==
  ASSUME NEW ts \in TokenState
  PROVE  /\ Held(ts) \in Nat
         /\ \A a \in Addresses : ts.balances[a] + ts.unclaimedFunds[a] <= Held(ts)
         /\ Frozen(ts) \in Nat
         /\ \A h \in Heights, a \in Addresses : ts.frozenTokenStore[h][a] <= Frozen(ts)
         /\ OnOffer(ts) \in Nat
         /\ \A id \in OrderIDs :
              ts.openOrders[id] # None => ts.openOrders[id].AmountToSell <= OnOffer(ts)
<1> DEFINE held == [a \in Addresses |-> ts.balances[a] + ts.unclaimedFunds[a]]
           frozen == [p \in Heights \X Addresses |-> ts.frozenTokenStore[p[1]][p[2]]]
           offered == [id \in OrderIDs |-> IF ts.openOrders[id] = None THEN 0
                                           ELSE ts.openOrders[id].AmountToSell]
<1>1. held \in [Addresses -> Nat]
  BY AmountIsNat DEF TokenState
<1>2. Held(ts) \in Nat /\ \A a \in Addresses : held[a] <= Held(ts)
  <2> HIDE DEF held
  <2>1. SumFunction(held) \in Nat /\ \A a \in Addresses : held[a] <= SumFunction(held)
    BY <1>1, SumOfNats, FiniteAssumption
  <2> QED BY <2>1 DEF Held, held
<1>3. frozen \in [Heights \X Addresses -> Nat]
  <2> SUFFICES ASSUME NEW p \in Heights \X Addresses
               PROVE  ts.frozenTokenStore[p[1]][p[2]] \in Nat
    OBVIOUS
  <2>1. ts.frozenTokenStore[p[1]][p[2]] \in Amount
    BY DEF TokenState
  <2> QED BY <2>1, AmountIsNat
<1>4. Frozen(ts) \in Nat /\ \A p \in Heights \X Addresses : frozen[p] <= Frozen(ts)
  <2> HIDE DEF frozen
  <2>1. IsFiniteSet(Heights \X Addresses)
    BY FS_Product, FiniteAssumption
  <2>2. SumFunction(frozen) \in Nat
        /\ \A p \in Heights \X Addresses : frozen[p] <= SumFunction(frozen)
    BY <1>3, <2>1, SumOfNats
  <2> QED BY <2>2 DEF Frozen, frozen
<1>5. ASSUME NEW h \in Heights, NEW a \in Addresses
      PROVE  ts.frozenTokenStore[h][a] <= Frozen(ts)
  <2>1. <<h, a>> \in Heights \X Addresses /\ frozen[<<h, a>>] = ts.frozenTokenStore[h][a]
    OBVIOUS
  <2> QED BY <2>1, <1>4
<1>6. offered \in [OrderIDs -> Nat]
  <2> SUFFICES ASSUME NEW id \in OrderIDs, ts.openOrders[id] # None
               PROVE  ts.openOrders[id].AmountToSell \in Nat
    OBVIOUS
  <2>1. ts.openOrders[id] \in Order
    BY DEF TokenState
  <2> QED BY <2>1, AmountIsNat DEF Order
<1>7. OnOffer(ts) \in Nat /\ \A id \in OrderIDs : offered[id] <= OnOffer(ts)
  <2> HIDE DEF offered
  <2>1. SumFunction(offered) \in Nat /\ \A id \in OrderIDs : offered[id] <= SumFunction(offered)
    BY <1>6, SumOfNats, FiniteAssumption
  <2> QED BY <2>1 DEF OnOffer, offered
<1> QED BY <1>2, <1>4, <1>5, <1>7

\* The funds of one address changed.
LEMMA HeldChanged ==
  ASSUME NEW ts \in TokenState, NEW us \in TokenState, NEW a \in Addresses,
         \A b \in Addresses \ {a} : /\ us.balances[b] = ts.balances[b]
                                    /\ us.unclaimedFunds[b] = ts.unclaimedFunds[b]
  PROVE  Held(us) - (us.balances[a] + us.unclaimedFunds[a])
           = Held(ts) - (ts.balances[a] + ts.unclaimedFunds[a])
<1> DEFINE f == [b \in Addresses |-> ts.balances[b] + ts.unclaimedFunds[b]]
           g == [b \in Addresses |-> us.balances[b] + us.unclaimedFunds[b]]
<1>1. f \in [Addresses -> Int] /\ g \in [Addresses -> Int]
  BY AmountIsNat DEF TokenState
<1>2. \A b \in Addresses \ {a} : f[b] = g[b]
  OBVIOUS
<1>3. SumFunction(g) - g[a] = SumFunction(f) - f[a]
  <2> HIDE DEF f, g
  <2> QED BY <1>1, <1>2, SumChangedAt, FiniteAssumption
<1> QED BY <1>3 DEF Held

\* One entry of the store changed.
LEMMA FrozenChanged ==
  ASSUME NEW ts \in TokenState, NEW us \in TokenState,
         NEW h \in Heights, NEW a \in Addresses,
         \A k \in Heights, b \in Addresses : k # h \/ b # a =>
           us.frozenTokenStore[k][b] = ts.frozenTokenStore[k][b]
  PROVE  Frozen(us) - us.frozenTokenStore[h][a] = Frozen(ts) - ts.frozenTokenStore[h][a]
<1> DEFINE D == Heights \X Addresses
           f == [p \in D |-> ts.frozenTokenStore[p[1]][p[2]]]
           g == [p \in D |-> us.frozenTokenStore[p[1]][p[2]]]
<1>0. IsFiniteSet(D)
  BY FS_Product, FiniteAssumption
<1>1. f \in [D -> Int] /\ g \in [D -> Int]
  <2> SUFFICES ASSUME NEW p \in D
               PROVE  /\ ts.frozenTokenStore[p[1]][p[2]] \in Int
                      /\ us.frozenTokenStore[p[1]][p[2]] \in Int
    OBVIOUS
  <2>1. /\ ts.frozenTokenStore[p[1]][p[2]] \in Amount
        /\ us.frozenTokenStore[p[1]][p[2]] \in Amount
    BY DEF TokenState
  <2> QED BY <2>1, AmountIsNat
<1>2. \A p \in D \ {<<h, a>>} : f[p] = g[p]
  OBVIOUS
<1>3. <<h, a>> \in D /\ f[<<h, a>>] = ts.frozenTokenStore[h][a]
                     /\ g[<<h, a>>] = us.frozenTokenStore[h][a]
  OBVIOUS
<1>4. SumFunction(g) - g[<<h, a>>] = SumFunction(f) - f[<<h, a>>]
  <2> HIDE DEF f, g, D
  <2> QED BY <1>0, <1>1, <1>2, <1>3, SumChangedAt
<1> QED BY <1>3, <1>4 DEF Frozen

\* What an order has on offer.
Offer(ts, id) == IF ts.openOrders[id] = None THEN 0 ELSE ts.openOrders[id].AmountToSell

\* One order changed, opened or closed.
LEMMA OnOfferChanged ==
  ASSUME NEW ts \in TokenState, NEW us \in TokenState, NEW id \in OrderIDs,
         \A k \in OrderIDs \ {id} : us.openOrders[k] = ts.openOrders[k]
  PROVE  OnOffer(us) - Offer(us, id) = OnOffer(ts) - Offer(ts, id)
<1> DEFINE f == [k \in OrderIDs |-> Offer(ts, k)]
           g == [k \in OrderIDs |-> Offer(us, k)]
<1>1. f \in [OrderIDs -> Int] /\ g \in [OrderIDs -> Int]
  BY AmountIsNat DEF TokenState, Order, Offer
<1>2. \A k \in OrderIDs \ {id} : f[k] = g[k]
  BY DEF Offer
<1>3. SumFunction(g) - g[id] = SumFunction(f) - f[id]
  <2> HIDE DEF f, g
  <2> QED BY <1>1, <1>2, SumChangedAt, FiniteAssumption
<1> QED BY <1>3 DEF OnOffer, Offer

-----------------------------------------------------------------------------
\* What a transaction does to the total of its token.

\* An accepted order moves what it sells from its owner to the open orders.
LEMMA OrderTotal ==
  ASSUME NEW ts \in TokenState, NEW o \in Order, OrderAccepted(ts, o)
  PROVE  TotalOf(AddOrder(ts, o)) = TotalOf(ts)
<1> DEFINE us == AddOrder(ts, o)
           a == o.SellerAddress
<1>1. us \in TokenState
  BY OrderAddedType
<1>2. /\ a \in Addresses /\ o.ID \in OrderIDs /\ o.AmountToSell \in Amount /\ o # None
      /\ ts.balances[a] \in Amount /\ ts.unclaimedFunds[a] \in Amount
  BY NoneAssumption DEF Order, TokenState
<1>3. /\ us.balances = [ts.balances EXCEPT ![a] = Minus(@, o.AmountToSell)]
      /\ us.openOrders = [ts.openOrders EXCEPT ![o.ID] = o]
      /\ us.unclaimedFunds = ts.unclaimedFunds
      /\ us.frozenTokenStore = ts.frozenTokenStore
  BY DEF AddOrder, TokenState
<1>4. us.balances[a] = ts.balances[a] - o.AmountToSell
  BY <1>2, <1>3 DEF OrderAccepted, Minus, TokenState
<1>5. /\ \A b \in Addresses \ {a} : /\ us.balances[b] = ts.balances[b]
                                    /\ us.unclaimedFunds[b] = ts.unclaimedFunds[b]
      /\ \A k \in OrderIDs \ {o.ID} : us.openOrders[k] = ts.openOrders[k]
  BY <1>3 DEF TokenState
<1>6. ts.openOrders[o.ID] = None /\ us.openOrders[o.ID] = o
  BY <1>2, <1>3 DEF OrderAccepted, TokenState
<1> HIDE DEF us, a
<1>7. Held(us) = Held(ts) - o.AmountToSell
  <2>1. Held(us) - (us.balances[a] + us.unclaimedFunds[a])
          = Held(ts) - (ts.balances[a] + ts.unclaimedFunds[a])
    BY <1>1, <1>2, <1>5, HeldChanged
  <2>2. Held(us) \in Nat /\ Held(ts) \in Nat
    BY <1>1, Parts
  <2> QED BY <1>2, <1>3, <1>4, <2>1, <2>2, AmountIsNat
<1>8. OnOffer(us) = OnOffer(ts) + o.AmountToSell
  <2>1. OnOffer(us) - Offer(us, o.ID) = OnOffer(ts) - Offer(ts, o.ID)
    BY <1>1, <1>2, <1>5, OnOfferChanged
  <2>2. Offer(us, o.ID) = o.AmountToSell /\ Offer(ts, o.ID) = 0
    BY <1>2, <1>6 DEF Offer
  <2>3. OnOffer(us) \in Nat /\ OnOffer(ts) \in Nat
    BY <1>1, Parts
  <2> QED BY <1>2, <2>1, <2>2, <2>3, AmountIsNat
<1>9. Frozen(us) = Frozen(ts)
  BY <1>3 DEF Frozen
<1>10. Held(ts) \in Nat /\ OnOffer(ts) \in Nat /\ Frozen(ts) \in Nat /\ o.AmountToSell \in Nat
  BY <1>2, Parts, AmountIsNat
<1> QED BY <1>7, <1>8, <1>9, <1>10 DEF TotalOf, us

\* A claim moves funds of one address.
LEMMA ClaimTotal ==
  ASSUME NEW ts \in TokenState, TotalOf(ts) < Modulus,
         NEW c, c.Address \in Addresses, c.Amount \in Amount, ClaimAccepted(ts, c)
  PROVE  TotalOf(AddClaimFunds(ts, c)) = TotalOf(ts)
<1> DEFINE us == AddClaimFunds(ts, c)
           a == c.Address
<1>1. us \in TokenState
  BY ClaimAddedType
<1>2. /\ ts.balances[a] \in Nat /\ ts.unclaimedFunds[a] \in Nat /\ c.Amount \in Nat
      /\ Held(ts) \in Nat /\ OnOffer(ts) \in Nat /\ Frozen(ts) \in Nat
      /\ ts.balances[a] + ts.unclaimedFunds[a] <= Held(ts)
  BY Parts, AmountIsNat DEF TokenState
<1>3. /\ us.balances = [ts.balances EXCEPT ![a] = Plus(@, c.Amount)]
      /\ us.unclaimedFunds = [ts.unclaimedFunds EXCEPT ![a] = Minus(@, c.Amount)]
      /\ us.openOrders = ts.openOrders
      /\ us.frozenTokenStore = ts.frozenTokenStore
  BY DEF AddClaimFunds, TokenState
<1>4. c.Amount <= ts.unclaimedFunds[a]
  BY <1>2 DEF ClaimAccepted
<1>5. ts.balances[a] + c.Amount < Modulus
  BY <1>2, <1>4, ModulusAssumption DEF TotalOf
<1>6. us.balances[a] = ts.balances[a] + c.Amount
  BY <1>3, <1>5 DEF Plus, TokenState
<1>7. us.unclaimedFunds[a] = ts.unclaimedFunds[a] - c.Amount
  BY <1>2, <1>3, <1>4 DEF Minus, TokenState
<1>8. Held(us) = Held(ts)
  <2>1. Held(us) - (us.balances[a] + us.unclaimedFunds[a])
          = Held(ts) - (ts.balances[a] + ts.unclaimedFunds[a])
    BY <1>1, <1>3, HeldChanged DEF TokenState
  <2>2. Held(us) \in Nat
    BY <1>1, Parts
  <2> QED BY <1>2, <1>6, <1>7, <2>1, <2>2
<1>9. Frozen(us) = Frozen(ts) /\ OnOffer(us) = OnOffer(ts)
  BY <1>3 DEF Frozen, OnOffer
<1> QED BY <1>8, <1>9 DEF TotalOf

\* A transfer moves a balance from one address to another, or to the same.
LEMMA TransferTotal ==
  ASSUME NEW ts \in TokenState, TotalOf(ts) < Modulus,
         NEW tr \in TransferTx, TransferAccepted(ts, tr)
  PROVE  TotalOf(AddTransfer(ts, tr)) = TotalOf(ts)
<1> DEFINE us == AddTransfer(ts, tr)
           a == tr.FromAddress
           b == tr.ToAddress
           mid == [ts EXCEPT !.balances[a] = Minus(@, tr.Amount)]
<1>1. us \in TokenState
  BY TransferAddedType
<1>2. /\ a \in Addresses /\ b \in Addresses /\ tr.Amount \in Amount
      /\ ts.balances[a] \in Amount
  BY DEF TransferTx, TokenState
<1>3. mid \in TokenState
  <2>1. Minus(ts.balances[a], tr.Amount) \in Amount
    BY <1>2, MinusType
  <2> QED BY <2>1 DEF TokenState
<1>4. /\ mid.balances = [ts.balances EXCEPT ![a] = Minus(@, tr.Amount)]
      /\ mid.unclaimedFunds = ts.unclaimedFunds
      /\ us.balances = [mid.balances EXCEPT ![b] = Plus(@, tr.Amount)]
      /\ us.unclaimedFunds = ts.unclaimedFunds
      /\ us.openOrders = ts.openOrders
      /\ us.frozenTokenStore = ts.frozenTokenStore
  BY DEF AddTransfer, Moved, TokenState
<1> HIDE DEF us, mid
<1>5. /\ ts.balances[a] \in Nat /\ tr.Amount \in Nat /\ ts.unclaimedFunds[a] \in Nat
      /\ tr.Amount <= ts.balances[a]
      /\ mid.balances[b] \in Nat /\ mid.unclaimedFunds[b] \in Nat
      /\ Held(ts) \in Nat /\ Held(mid) \in Nat /\ Held(us) \in Nat
      /\ Frozen(ts) \in Nat /\ OnOffer(ts) \in Nat
      /\ mid.balances[b] + mid.unclaimedFunds[b] <= Held(mid)
  BY <1>1, <1>2, <1>3, Parts, AmountIsNat DEF TransferAccepted, TokenState
<1>6. Held(mid) = Held(ts) - tr.Amount
  <2>1. mid.balances[a] = ts.balances[a] - tr.Amount
    BY <1>2, <1>4, <1>5 DEF Minus, TokenState
  <2>2. \A c \in Addresses \ {a} : /\ mid.balances[c] = ts.balances[c]
                                   /\ mid.unclaimedFunds[c] = ts.unclaimedFunds[c]
    BY <1>4 DEF TokenState
  <2>3. Held(mid) - (mid.balances[a] + mid.unclaimedFunds[a])
          = Held(ts) - (ts.balances[a] + ts.unclaimedFunds[a])
    BY <1>2, <1>3, <2>2, HeldChanged
  <2> QED BY <1>4, <1>5, <2>1, <2>3
<1>7. Held(us) = Held(mid) + tr.Amount
  <2>1. mid.balances[b] + tr.Amount < Modulus
    BY <1>5, <1>6, ModulusAssumption DEF TotalOf
  <2>2. us.balances[b] = mid.balances[b] + tr.Amount
    BY <1>2, <1>3, <1>4, <2>1 DEF Plus, TokenState
  <2>3. \A c \in Addresses \ {b} : /\ us.balances[c] = mid.balances[c]
                                   /\ us.unclaimedFunds[c] = mid.unclaimedFunds[c]
    BY <1>3, <1>4 DEF TokenState
  <2>4. Held(us) - (us.balances[b] + us.unclaimedFunds[b])
          = Held(mid) - (mid.balances[b] + mid.unclaimedFunds[b])
    BY <1>1, <1>2, <1>3, <2>3, HeldChanged
  <2> QED BY <1>4, <1>5, <2>2, <2>4
<1>8. Frozen(us) = Frozen(ts) /\ OnOffer(us) = OnOffer(ts)
  BY <1>4 DEF Frozen, OnOffer
<1>9. Held(us) = Held(ts)
  BY <1>5, <1>6, <1>7
<1> QED BY <1>8, <1>9 DEF TotalOf, us

\* A freeze moves a balance to the store.
LEMMA FreezeTotal ==
  ASSUME NEW ts \in TokenState, TotalOf(ts) < Modulus,
         NEW f \in FreezeTx, FreezeAccepted(ts, f)
  PROVE  TotalOf(AddFreeze(ts, f)) = TotalOf(ts)
<1> DEFINE us == AddFreeze(ts, f)
           a == f.FromAddress
           h == f.UnfreezeBlock
<1>1. us \in TokenState
  BY FreezeAddedType
<1>2. a \in Addresses /\ h \in Heights /\ f.Amount \in Amount
  BY DEF FreezeTx
<1>3. /\ us.balances = [ts.balances EXCEPT ![a] = Minus(@, f.Amount)]
      /\ us.frozenTokenStore
           = [ts.frozenTokenStore EXCEPT ![h][a] = Plus(@, f.Amount)]
      /\ us.unclaimedFunds = ts.unclaimedFunds
      /\ us.openOrders = ts.openOrders
  BY DEF AddFreeze, TokenState
<1> HIDE DEF us
<1>4. /\ ts.balances[a] \in Nat /\ f.Amount \in Nat /\ ts.unclaimedFunds[a] \in Nat
      /\ f.Amount <= ts.balances[a]
      /\ ts.frozenTokenStore[h][a] \in Nat
      /\ ts.frozenTokenStore[h][a] <= Frozen(ts)
      /\ ts.balances[a] + ts.unclaimedFunds[a] <= Held(ts)
      /\ Held(ts) \in Nat /\ Held(us) \in Nat
      /\ Frozen(ts) \in Nat /\ Frozen(us) \in Nat /\ OnOffer(ts) \in Nat
  <2>1. ts.balances[a] \in Nat /\ f.Amount \in Nat /\ ts.unclaimedFunds[a] \in Nat
    BY <1>2, AmountIsNat DEF TokenState
  <2>2. f.Amount <= ts.balances[a]
    BY <2>1 DEF FreezeAccepted
  <2>3. /\ ts.frozenTokenStore[h][a] \in Nat
        /\ ts.frozenTokenStore[h][a] <= Frozen(ts)
        /\ ts.balances[a] + ts.unclaimedFunds[a] <= Held(ts)
        /\ Held(ts) \in Nat /\ Frozen(ts) \in Nat /\ OnOffer(ts) \in Nat
    <3>1. ts.frozenTokenStore[h][a] \in Nat
      BY <1>2, AmountIsNat DEF TokenState
    <3> HIDE DEF a, h
    <3> QED BY <1>2, <3>1, Parts
  <2>4. Held(us) \in Nat /\ Frozen(us) \in Nat
    BY <1>1, Parts
  <2> QED BY <2>1, <2>2, <2>3, <2>4
<1>5. Held(us) = Held(ts) - f.Amount
  <2>1. us.balances[a] = ts.balances[a] - f.Amount
    BY <1>2, <1>3, <1>4 DEF Minus, TokenState
  <2>2. \A b \in Addresses \ {a} : /\ us.balances[b] = ts.balances[b]
                                   /\ us.unclaimedFunds[b] = ts.unclaimedFunds[b]
    BY <1>3 DEF TokenState
  <2>3. Held(us) - (us.balances[a] + us.unclaimedFunds[a])
          = Held(ts) - (ts.balances[a] + ts.unclaimedFunds[a])
    BY <1>1, <1>2, <2>2, HeldChanged
  <2> QED BY <1>3, <1>4, <2>1, <2>3
<1>6. Frozen(us) = Frozen(ts) + f.Amount
  <2>1. ts.frozenTokenStore[h][a] + f.Amount < Modulus
    BY <1>4, ModulusAssumption DEF TotalOf
  <2>2. us.frozenTokenStore[h][a] = ts.frozenTokenStore[h][a] + f.Amount
    BY <1>2, <1>3, <2>1 DEF Plus, TokenState
  <2>3. \A k \in Heights, b \in Addresses : k # h \/ b # a =>
          us.frozenTokenStore[k][b] = ts.frozenTokenStore[k][b]
    BY <1>2, <1>3 DEF TokenState
  <2>4. Frozen(us) - us.frozenTokenStore[h][a] = Frozen(ts) - ts.frozenTokenStore[h][a]
    BY <1>1, <1>2, <2>3, FrozenChanged
  <2> QED BY <1>4, <2>2, <2>4
<1>7. OnOffer(us) = OnOffer(ts)
  BY <1>3 DEF OnOffer
<1>8. Held(us) + Frozen(us) = Held(ts) + Frozen(ts)
  BY <1>4, <1>5, <1>6
<1> QED BY <1>4, <1>7, <1>8 DEF TotalOf, us

\* An address is credited what fits in the modulus.
LEMMA FundsCredited ==
  ASSUME NEW ts \in TokenState, NEW us \in TokenState, NEW a \in Addresses, NEW x \in Nat,
         us.balances = ts.balances,
         us.unclaimedFunds[a] = Plus(ts.unclaimedFunds[a], x),
         \A b \in Addresses \ {a} : us.unclaimedFunds[b] = ts.unclaimedFunds[b],
         Held(ts) + x < Modulus
  PROVE  /\ Held(us) = Held(ts) + x
         /\ us.unclaimedFunds[a] = ts.unclaimedFunds[a] + x
<1>1. /\ ts.balances[a] \in Nat /\ ts.unclaimedFunds[a] \in Nat
      /\ Held(ts) \in Nat /\ Held(us) \in Nat
      /\ ts.balances[a] + ts.unclaimedFunds[a] <= Held(ts)
  BY Parts, AmountIsNat DEF TokenState
<1>2. ts.unclaimedFunds[a] + x < Modulus
  BY <1>1, ModulusAssumption
<1>3. us.unclaimedFunds[a] = ts.unclaimedFunds[a] + x
  BY <1>2 DEF Plus
<1>4. \A b \in Addresses \ {a} : /\ us.balances[b] = ts.balances[b]
                                 /\ us.unclaimedFunds[b] = ts.unclaimedFunds[b]
  OBVIOUS
<1>5. Held(us) - (us.balances[a] + us.unclaimedFunds[a])
        = Held(ts) - (ts.balances[a] + ts.unclaimedFunds[a])
  BY <1>4, HeldChanged
<1> QED BY <1>1, <1>3, <1>5

\* One side of a match takes what its order sold, less the credit, off the
\* total; the credit can be claimed, also when it went to the order's owner.
LEMMA FilledTotal ==
  ASSUME NEW ts \in TokenState, TotalOf(ts) < Modulus,
         NEW id \in OrderIDs, ts.openOrders[id] # None, ts.orderUpdatesCount[id] # None,
         NEW bought \in Amount, NEW sold \in Amount, sold <= ts.openOrders[id].AmountToSell,
         NEW counterparty \in Addresses, NEW credit \in Amount, credit <= sold
  PROVE  LET us == Filled(ts, id, bought, sold, counterparty, credit)
         IN /\ TotalOf(us) = TotalOf(ts) + credit - sold
            /\ us.unclaimedFunds[counterparty] >= credit
<1> DEFINE us == Filled(ts, id, bought, sold, counterparty, credit)
           o0 == ts.openOrders[id]
           o == Reduced(o0, bought, sold)
           owner == o.SellerAddress
           mid == [ts EXCEPT !.unclaimedFunds[counterparty] = Plus(@, credit)]
<1>1. us \in TokenState
  BY FilledType
<1>2. o0 \in Order /\ o \in Order /\ o # None
  <2>1. o0 \in Order
    BY DEF TokenState
  <2> QED BY <2>1, OrderFilledType, NoneAssumption
<1>3. mid \in TokenState
  <2>1. Plus(ts.unclaimedFunds[counterparty], credit) \in Amount
    BY PlusType DEF TokenState
  <2> QED BY <2>1 DEF TokenState
<1>4. /\ mid.balances = ts.balances
      /\ mid.unclaimedFunds = [ts.unclaimedFunds EXCEPT ![counterparty] = Plus(@, credit)]
  BY DEF TokenState
<1>5. /\ us.balances = ts.balances
      /\ us.frozenTokenStore = ts.frozenTokenStore
  BY DEF Filled, FillOrder, TokenState
<1>6. us.openOrders = [ts.openOrders EXCEPT ![id] = IF o.AmountToBuy = 0 THEN None ELSE o]
  BY DEF Filled, FillOrder, TokenState
<1>7. us.unclaimedFunds
        = IF o.AmountToBuy = 0
          THEN [mid.unclaimedFunds EXCEPT ![owner] = Plus(@, o.AmountToSell)]
          ELSE mid.unclaimedFunds
  <2>1. CASE o.AmountToBuy = 0
    BY <1>4, <2>1 DEF Filled, FillOrder, TokenState
  <2>2. CASE o.AmountToBuy # 0
    BY <1>4, <2>2 DEF Filled, FillOrder, TokenState
  <2> QED BY <2>1, <2>2
<1>8. /\ owner \in Addresses
      /\ o0.AmountToSell \in Nat /\ o.AmountToSell \in Nat
      /\ sold \in Nat /\ credit \in Nat
      /\ o.AmountToSell = o0.AmountToSell - sold
  <2>1. o0.AmountToSell \in Nat /\ o.AmountToSell \in Nat /\ sold \in Nat /\ credit \in Nat
    BY <1>2, AmountIsNat DEF Order
  <2>2. o.AmountToSell = Minus(o0.AmountToSell, sold)
    BY <1>2 DEF Reduced, Order
  <2> QED BY <1>2, <2>1, <2>2 DEF Order, Minus
<1>9. o0 # None /\ sold <= o0.AmountToSell
  OBVIOUS
<1> HIDE DEF us, mid, o, owner, o0
<1>10. /\ Held(ts) \in Nat /\ Held(mid) \in Nat /\ Held(us) \in Nat
       /\ OnOffer(ts) \in Nat /\ OnOffer(us) \in Nat /\ Frozen(ts) \in Nat
       /\ o0.AmountToSell <= OnOffer(ts)
  BY <1>1, <1>3, <1>9, Parts DEF o0
<1>11. Held(ts) + o0.AmountToSell < Modulus
  BY <1>8, <1>10, ModulusAssumption DEF TotalOf
<1>12. Held(mid) = Held(ts) + credit /\ mid.unclaimedFunds[counterparty] >= credit
  <2>1. Held(ts) + credit < Modulus
    BY <1>8, <1>9, <1>10, <1>11, ModulusAssumption
  <2>2. /\ mid.balances = ts.balances
        /\ ts.unclaimedFunds[counterparty] \in Nat
        /\ mid.unclaimedFunds[counterparty] = Plus(ts.unclaimedFunds[counterparty], credit)
        /\ \A b \in Addresses \ {counterparty} : mid.unclaimedFunds[b] = ts.unclaimedFunds[b]
    BY <1>4, AmountIsNat DEF TokenState
  <2>3. /\ Held(mid) = Held(ts) + credit
        /\ mid.unclaimedFunds[counterparty] = ts.unclaimedFunds[counterparty] + credit
    BY <1>3, <1>8, <2>1, <2>2, FundsCredited
  <2> QED BY <1>8, <2>2, <2>3
<1>13. \A k \in OrderIDs \ {id} : us.openOrders[k] = ts.openOrders[k]
  BY <1>6 DEF TokenState
<1>14. OnOffer(us) - Offer(us, id) = OnOffer(ts) - Offer(ts, id)
  BY <1>1, <1>13, OnOfferChanged
<1>15. Offer(ts, id) = o0.AmountToSell
  BY <1>9 DEF Offer, o0
<1>16. Frozen(us) = Frozen(ts)
  BY <1>5 DEF Frozen
<1>17. CASE o.AmountToBuy = 0
  <2>1. Offer(us, id) = 0
    BY <1>6, <1>17 DEF Offer, TokenState
  <2>2. Held(mid) + o.AmountToSell < Modulus
    BY <1>8, <1>9, <1>10, <1>11, <1>12, ModulusAssumption
  <2>3. us.unclaimedFunds = [mid.unclaimedFunds EXCEPT ![owner] = Plus(@, o.AmountToSell)]
    BY <1>7, <1>17
  <2>6. /\ us.balances = mid.balances
        /\ us.unclaimedFunds[owner] = Plus(mid.unclaimedFunds[owner], o.AmountToSell)
        /\ \A b \in Addresses \ {owner} : us.unclaimedFunds[b] = mid.unclaimedFunds[b]
    BY <1>3, <1>4, <1>5, <1>8, <2>3 DEF TokenState
  <2>4. /\ Held(us) = Held(mid) + o.AmountToSell
        /\ us.unclaimedFunds[owner] = mid.unclaimedFunds[owner] + o.AmountToSell
    BY <1>1, <1>3, <1>8, <2>2, <2>6, FundsCredited
  <2>5. us.unclaimedFunds[counterparty] >= credit
    <3>1. CASE counterparty = owner
      <4>1. mid.unclaimedFunds[owner] \in Nat
        BY <1>3, <1>8, AmountIsNat DEF TokenState
      <4> QED BY <1>8, <1>12, <2>4, <3>1, <4>1
    <3>2. CASE counterparty # owner
      BY <1>3, <1>12, <2>3, <3>2 DEF TokenState
    <3> QED BY <3>1, <3>2
  <2>7. TotalOf(us) = TotalOf(ts) + credit - sold
    BY <1>8, <1>10, <1>12, <1>14, <1>15, <1>16, <2>1, <2>4 DEF TotalOf
  <2> QED BY <2>5, <2>7 DEF us
<1>18. CASE o.AmountToBuy # 0
  <2>1. Offer(us, id) = o.AmountToSell
    BY <1>2, <1>6, <1>18 DEF Offer, TokenState
  <2>2. us.unclaimedFunds = mid.unclaimedFunds
    BY <1>7, <1>18
  <2>3. Held(us) = Held(mid)
    BY <1>4, <1>5, <2>2 DEF Held
  <2>4. TotalOf(us) = TotalOf(ts) + credit - sold
    BY <1>8, <1>10, <1>12, <1>14, <1>15, <1>16, <2>1, <2>3 DEF TotalOf
  <2> QED BY <1>12, <2>2, <2>4 DEF us
<1> QED BY <1>17, <1>18

\* The whole supply of a new token is held, by its creator.
LEMMA NewTokenTotal ==
  ASSUME NEW supply \in Amount, NEW creator \in Addresses
  PROVE  LET ts == NewToken(supply, creator)
         IN /\ TotalOf(ts) = supply /\ ts.totalSupply = supply
            /\ \A id \in OrderIDs : /\ ts.orderUpdatesCount[id] = None
                                    /\ ts.openOrders[id] = None
                                    /\ ts.deletedOrders[id] = None
<1> DEFINE c == [Address |-> creator, Amount |-> supply]
           before == UnclaimedToken(supply, creator)
           none == [a \in Addresses |-> 0]
           held == [a \in Addresses |-> before.balances[a] + before.unclaimedFunds[a]]
           frozen == [p \in Heights \X Addresses |-> before.frozenTokenStore[p[1]][p[2]]]
           offered == [id \in OrderIDs |-> IF before.openOrders[id] = None THEN 0
                                           ELSE before.openOrders[id].AmountToSell]
<1>1. 0 \in Amount /\ supply \in Nat /\ supply < Modulus
  BY ModulusAssumption DEF Amount
<1>2. before \in TokenState
  BY <1>1 DEF UnclaimedToken, TokenState
<1>3. Held(before) = supply
  <2>1. none \in [Addresses -> Int] /\ held \in [Addresses -> Int]
    BY <1>1 DEF UnclaimedToken
  <2>2. none[creator] = 0 /\ held[creator] = supply
        /\ \A a \in Addresses \ {creator} : held[a] = none[a]
    BY <1>1 DEF UnclaimedToken
  <2>3. SumFunction(none) = 0
    BY SumOfZeros, FiniteAssumption
  <2>4. SumFunction(held) = supply
    <3> HIDE DEF held, none
    <3>1. SumFunction(held) - held[creator] = SumFunction(none) - none[creator]
      BY <2>1, <2>2, SumChangedAt, FiniteAssumption
    <3>2. SumFunction(held) \in Int
      BY <2>1, SumOfInts, FiniteAssumption
    <3> QED BY <1>1, <2>2, <2>3, <3>1, <3>2
  <2> QED BY <2>4 DEF Held
<1>4. Frozen(before) = 0
  <2>1. IsFiniteSet(Heights \X Addresses)
    BY FS_Product, FiniteAssumption
  <2>2. \A p \in Heights \X Addresses : frozen[p] = 0
    BY DEF UnclaimedToken
  <2>3. SumFunction(frozen) = 0
    <3>1. DOMAIN frozen = Heights \X Addresses
      OBVIOUS
    <3> HIDE DEF frozen
    <3> QED BY <2>1, <2>2, <3>1, SumOfZeros
  <2> QED BY <2>3 DEF Frozen
<1>5. OnOffer(before) = 0
  <2>1. \A id \in OrderIDs : offered[id] = 0
    BY DEF UnclaimedToken
  <2>2. SumFunction(offered) = 0
    <3>1. DOMAIN offered = OrderIDs
      OBVIOUS
    <3> HIDE DEF offered
    <3> QED BY <2>1, <3>1, SumOfZeros, FiniteAssumption
  <2> QED BY <2>2 DEF OnOffer
<1>6. NewToken(supply, creator) = AddClaimFunds(before, c)
  BY DEF NewToken
<1>7. before.unclaimedFunds[creator] = supply
  BY DEF UnclaimedToken
<1>8. c.Address \in Addresses /\ c.Amount \in Amount /\ ClaimAccepted(before, c)
  BY <1>1, <1>7 DEF ClaimAccepted
<1>9. /\ AddClaimFunds(before, c).totalSupply = supply
      /\ \A id \in OrderIDs : /\ AddClaimFunds(before, c).orderUpdatesCount[id] = None
                              /\ AddClaimFunds(before, c).openOrders[id] = None
                              /\ AddClaimFunds(before, c).deletedOrders[id] = None
  BY DEF AddClaimFunds, UnclaimedToken
<1> HIDE DEF before, c
<1>10. TotalOf(before) = supply
  BY <1>1, <1>3, <1>4, <1>5 DEF TotalOf
<1>11. TotalOf(AddClaimFunds(before, c)) = supply
  BY <1>1, <1>2, <1>8, <1>10, ClaimTotal
<1> QED BY <1>6, <1>9, <1>11

\* What a transaction of the token's chain does to its accounts: nothing but
\* giving a new order the counter 0.
LEMMA TokenTxAccounts ==
  ASSUME NEW ts \in TokenState, OrdersFiled(ts), TotalOf(ts) < Modulus,
         NEW tx \in Transaction, TokenTxAccepted(ts, tx)
  PROVE  LET us == TokenTxApplied(ts, tx)
         IN /\ TotalOf(us) = TotalOf(ts) /\ us.totalSupply = ts.totalSupply
            /\ \A id \in OrderIDs :
                 \/ us.orderUpdatesCount[id] = ts.orderUpdatesCount[id]
                 \/ ts.orderUpdatesCount[id] = None /\ us.orderUpdatesCount[id] = 0
            /\ tx.type = "ORDER" => us.orderUpdatesCount[tx.order.ID] = 0
<1>1. CASE tx.type = "ORDER"
  <2>1. tx.order \in Order
    BY <1>1, KindOfTx DEF OrderTx
  <2>2. OrderAccepted(ts, tx.order)
    BY <1>1 DEF TokenTxAccepted
  <2>3. TokenTxApplied(ts, tx) = AddOrder(ts, tx.order)
    BY <1>1 DEF TokenTxApplied
  <2>4. TotalOf(AddOrder(ts, tx.order)) = TotalOf(ts)
    BY <2>1, <2>2, OrderTotal
  <2>5. tx.order.ID \in OrderIDs
    BY <2>1 DEF Order
  <2>6. ts.orderUpdatesCount[tx.order.ID] = None
    BY <2>2, <2>5 DEF OrderAccepted, OrdersFiled
  <2>7. /\ AddOrder(ts, tx.order).orderUpdatesCount
             = [ts.orderUpdatesCount EXCEPT ![tx.order.ID] = 0]
        /\ AddOrder(ts, tx.order).totalSupply = ts.totalSupply
    BY DEF AddOrder, TokenState
  <2> QED BY <2>3, <2>4, <2>5, <2>6, <2>7 DEF TokenState
<1>2. CASE tx.type = "CLAIM_FUNDS"
  <2>1. tx.Address \in Addresses /\ tx.Amount \in Amount
    BY <1>2, KindOfTx DEF ClaimTx
  <2>2. TokenTxApplied(ts, tx) = AddClaimFunds(ts, tx) /\ ClaimAccepted(ts, tx)
    BY <1>2 DEF TokenTxApplied, TokenTxAccepted
  <2>3. TotalOf(AddClaimFunds(ts, tx)) = TotalOf(ts)
    BY <2>1, <2>2, ClaimTotal
  <2>4. /\ AddClaimFunds(ts, tx).orderUpdatesCount = ts.orderUpdatesCount
        /\ AddClaimFunds(ts, tx).totalSupply = ts.totalSupply
    BY DEF AddClaimFunds, TokenState
  <2> QED BY <1>2, <2>2, <2>3, <2>4
<1>3. CASE tx.type = "TRANSFER"
  <2>1. tx \in TransferTx
    BY <1>3, KindOfTx
  <2>2. TokenTxApplied(ts, tx) = AddTransfer(ts, tx) /\ TransferAccepted(ts, tx)
    BY <1>3 DEF TokenTxApplied, TokenTxAccepted
  <2>3. TotalOf(AddTransfer(ts, tx)) = TotalOf(ts)
    BY <2>1, <2>2, TransferTotal
  <2>4. /\ AddTransfer(ts, tx).orderUpdatesCount = ts.orderUpdatesCount
        /\ AddTransfer(ts, tx).totalSupply = ts.totalSupply
    BY DEF AddTransfer, TokenState
  <2> QED BY <1>3, <2>2, <2>3, <2>4
<1>4. CASE tx.type = "FREEZE"
  <2>1. tx \in FreezeTx
    BY <1>4, KindOfTx
  <2>2. TokenTxApplied(ts, tx) = AddFreeze(ts, tx) /\ FreezeAccepted(ts, tx)
    BY <1>4 DEF TokenTxApplied, TokenTxAccepted
  <2>3. TotalOf(AddFreeze(ts, tx)) = TotalOf(ts)
    BY <2>1, <2>2, FreezeTotal
  <2>4. /\ AddFreeze(ts, tx).orderUpdatesCount = ts.orderUpdatesCount
        /\ AddFreeze(ts, tx).totalSupply = ts.totalSupply
    BY DEF AddFreeze, TokenState
  <2> QED BY <1>4, <2>2, <2>3, <2>4
<1> QED BY <1>1, <1>2, <1>3, <1>4 DEF TokenTxAccepted

-----------------------------------------------------------------------------
\* The matches in force.

\* The accounts of a ledger with matches ms in force.
AccountsIn(ledger, ms) ==
  KnownIn(ledger, ms) /\ CountedIn(ledger, ms) /\ ConservedIn(ledger, ms)

\* A surplus is a natural: no match credits more than it debits.
LEMMA SurplusIsNat ==
  ASSUME NEW ledger, NEW ms, KnownIn(ledger, ms), NEW s
  PROVE  Surplus(ms, s) \in Nat
<1> DEFINE D == {m \in ms : m.BuySymbol = s}
           f == [m \in D |-> m.BuyerLoss - m.SellerGain]
<1>1. IsFiniteSet(D)
  BY FS_Subset DEF KnownIn
<1>2. f \in [D -> Nat]
  BY MatchFields DEF KnownIn
<1>3. SumFunction(f) \in Nat
  <2> HIDE DEF f, D
  <2> QED BY <1>1, <1>2, SumOfNats
<1> QED BY <1>3 DEF Surplus

\* A match adds what it leaves over to the surplus of the token the buyer pays in.
LEMMA SurplusOfOneMore ==
  ASSUME NEW ms, IsFiniteSet(ms), ms \subseteq MatchTx, NEW m \in MatchTx, m \notin ms, NEW s
  PROVE  Surplus(ms \cup {m}, s)
           = Surplus(ms, s) + (IF m.BuySymbol = s THEN m.BuyerLoss - m.SellerGain ELSE 0)
<1> DEFINE D == {n \in ms : n.BuySymbol = s}
           E == {n \in ms \cup {m} : n.BuySymbol = s}
           f == [n \in D |-> n.BuyerLoss - n.SellerGain]
           g == [n \in E |-> n.BuyerLoss - n.SellerGain]
<1>1. IsFiniteSet(D) /\ m \notin D
  BY FS_Subset
<1>2. f \in [D -> Int] /\ g \in [E -> Int]
  BY MatchFields
<1>3. Surplus(ms, s) = SumFunction(f) /\ Surplus(ms \cup {m}, s) = SumFunction(g)
  BY DEF Surplus
<1>4. SumFunction(f) \in Int
  <2> HIDE DEF f, D
  <2> QED BY <1>1, <1>2, SumOfInts
<1>5. CASE m.BuySymbol = s
  <2>1. E = D \cup {m}
    BY <1>5
  <2>2. g[m] = m.BuyerLoss - m.SellerGain /\ \A n \in D : f[n] = g[n]
    BY <1>5
  <2>3. SumFunction(g) = SumFunction(f) + g[m]
    <3> HIDE DEF f, g, D, E
    <3> QED BY <1>1, <1>2, <2>1, <2>2, SumExtended
  <2> QED BY <1>3, <1>5, <2>2, <2>3
<1>6. CASE m.BuySymbol # s
  <2>1. E = D
    BY <1>6
  <2>2. g = f
    BY <2>1
  <2> QED BY <1>3, <1>4, <1>6, <2>2
<1> QED BY <1>5, <1>6

\* The funds of a token are less than the modulus.
LEMMA TotalIsAmount ==
  ASSUME NEW ledger \in State, NEW ms, AccountsIn(ledger, ms),
         NEW s \in Symbols, Exists(ledger, s)
  PROVE  /\ TotalOf(ledger.tokenStates[s]) \in Nat
         /\ TotalOf(ledger.tokenStates[s]) < Modulus
<1> DEFINE ts == ledger.tokenStates[s]
<1>1. ts \in TokenState
  BY DEF State, Exists
<1>2. TotalOf(ts) \in Nat
  BY <1>1, Parts DEF TotalOf
<1>3. ts.totalSupply \in Nat /\ ts.totalSupply < Modulus
  BY <1>1, AmountIsNat DEF TokenState
<1>4. Surplus(ms, s) \in Nat
  BY SurplusIsNat DEF AccountsIn
<1>5. TotalOf(ts) + Surplus(ms, s) = ts.totalSupply
  BY DEF AccountsIn, ConservedIn
<1> QED BY <1>2, <1>3, <1>4, <1>5, ModulusAssumption

\* A transaction of a token's chain leaves the accounts in order.
LEMMA TokenTxKeepsAccounts ==
  ASSUME NEW ledger \in State, LedgerFiled(ledger), NEW tx \in Transaction,
         Accepted(ledger, tx),
         tx.type \in {"ORDER", "CLAIM_FUNDS", "TRANSFER", "FREEZE"},
         NEW ms, AccountsIn(ledger, ms)
  PROVE  AccountsIn(Applied(ledger, tx), ms) /\ Undoable(Applied(ledger, tx), tx)
<1> DEFINE c == tx.chain
           ts == ledger.tokenStates[c]
           us == TokenTxApplied(ts, tx)
           after == Applied(ledger, tx)
<1>1. c \in Symbols
  BY KindOfTx DEF OrderTx, ClaimTx, TransferTx, FreezeTx
<1>2. Exists(ledger, c) /\ TokenTxAccepted(ts, tx)
  BY DEF Accepted
<1>3. ts \in TokenState /\ OrdersFiled(ts)
  BY <1>1, <1>2 DEF LedgerFiled, State, Exists
<1>4. TotalOf(ts) < Modulus
  BY <1>1, <1>2, TotalIsAmount
<1>5. us \in TokenState /\ us # None
  BY <1>2, <1>3, TokenTxStep, NoneAssumption
<1>6. /\ TotalOf(us) = TotalOf(ts) /\ us.totalSupply = ts.totalSupply
      /\ \A id \in OrderIDs :
           \/ us.orderUpdatesCount[id] = ts.orderUpdatesCount[id]
           \/ ts.orderUpdatesCount[id] = None /\ us.orderUpdatesCount[id] = 0
      /\ tx.type = "ORDER" => us.orderUpdatesCount[tx.order.ID] = 0
  BY <1>2, <1>3, <1>4, TokenTxAccounts
<1>7. after = [ledger EXCEPT !.tokenStates[c] = us]
  BY DEF Applied
<1> HIDE DEF us, c, after
<1>8. /\ after.tokenStates[c] = us
      /\ \A s \in Symbols : s # c => after.tokenStates[s] = ledger.tokenStates[s]
      /\ after.usedMatchIDs = ledger.usedMatchIDs
  BY <1>1, <1>7 DEF State
<1>9. \A s \in Symbols : Exists(after, s) <=> Exists(ledger, s)
  BY <1>2, <1>5, <1>8 DEF Exists
<1>10. 0 # None
  BY NoneAssumption
<1>11. \A s \in Symbols, id \in OrderIDs :
         ledger.tokenStates[s].orderUpdatesCount[id] # None
           => after.tokenStates[s].orderUpdatesCount[id] # None
  BY <1>6, <1>8, <1>10
<1>12. KnownIn(after, ms)
  BY <1>9, <1>11, MatchFields DEF AccountsIn, KnownIn
<1>13. CountedIn(after, ms)
  <2> SUFFICES ASSUME NEW s \in Symbols, NEW id \in OrderIDs, Exists(after, s),
                      after.tokenStates[s].orderUpdatesCount[id] # None
               PROVE  after.tokenStates[s].orderUpdatesCount[id]
                        = Cardinality(MatchesBuying(ms, s, id))
                          + Cardinality(MatchesSelling(ms, s, id))
    BY <1>8 DEF AccountsIn, CountedIn
  <2>1. Exists(ledger, s)
    BY <1>9
  <2>2. CASE after.tokenStates[s].orderUpdatesCount[id]
               = ledger.tokenStates[s].orderUpdatesCount[id]
    BY <2>1, <2>2 DEF AccountsIn, CountedIn
  <2>3. CASE s = c /\ ts.orderUpdatesCount[id] = None /\ us.orderUpdatesCount[id] = 0
    <3>1. MatchesBuying(ms, s, id) = {} /\ MatchesSelling(ms, s, id) = {}
      BY <2>3, UncountedUnmatched DEF AccountsIn
    <3> QED BY <1>8, <2>3, <3>1, FS_EmptySet
  <2> QED BY <1>6, <1>8, <2>2, <2>3
<1>14. ConservedIn(after, ms)
  BY <1>6, <1>8, <1>9 DEF AccountsIn, ConservedIn
<1>15. Undoable(after, tx)
  <2>1. Exists(after, c)
    BY <1>1, <1>2, <1>9
  <2> QED BY <1>6, <1>8, <2>1 DEF Undoable, OrderUndoable, c
<1> QED BY <1>12, <1>13, <1>14, <1>15 DEF AccountsIn, after

\* A token created leaves the accounts in order: no match can be on it.
LEMMA CreateKeepsAccounts ==
  ASSUME NEW ledger \in State, LedgerFiled(ledger), NEW tx \in Transaction,
         Accepted(ledger, tx), tx.type = "CREATE_TOKEN",
         NEW ms, AccountsIn(ledger, ms)
  PROVE  AccountsIn(Applied(ledger, tx), ms) /\ Undoable(Applied(ledger, tx), tx)
<1> DEFINE c == tx.Symbol
           us == NewToken(tx.TotalSupply, tx.CreatorAddress)
           after == Applied(ledger, tx)
<1>1. /\ c \in Symbols
      /\ tx.TotalSupply \in Amount
      /\ tx.CreatorAddress \in Addresses
  BY KindOfTx DEF CreateTx
<1>2. ~Exists(ledger, c)
  BY DEF Accepted
<1>3. us # None
  BY <1>1, NewTokenStep, NoneAssumption
<1>4. /\ TotalOf(us) = tx.TotalSupply /\ us.totalSupply = tx.TotalSupply
      /\ \A id \in OrderIDs : us.orderUpdatesCount[id] = None
  BY <1>1, NewTokenTotal
<1>5. after = [ledger EXCEPT !.tokenStates[c] = us]
  BY DEF Applied
<1> HIDE DEF us, c, after
<1>6. /\ after.tokenStates[c] = us
      /\ \A s \in Symbols : s # c => after.tokenStates[s] = ledger.tokenStates[s]
      /\ after.usedMatchIDs = ledger.usedMatchIDs
  BY <1>1, <1>5 DEF State
<1>7. \A m \in ms : m.BuySymbol # c /\ m.SellSymbol # c
  BY <1>2 DEF AccountsIn, KnownIn
<1>8. KnownIn(after, ms)
  BY <1>6, <1>7, MatchFields DEF AccountsIn, KnownIn, Exists
<1>9. CountedIn(after, ms)
  BY <1>4, <1>6 DEF AccountsIn, CountedIn, Exists
<1>10. Surplus(ms, c) = 0
  <2>1. {m \in ms : m.BuySymbol = c} = {}
    BY <1>7
  <2> QED BY <2>1, SumOfNone DEF Surplus
<1>11. ConservedIn(after, ms)
  <2>1. tx.TotalSupply + 0 = tx.TotalSupply
    BY <1>1, AmountIsNat
  <2> QED BY <1>4, <1>6, <1>10, <2>1 DEF AccountsIn, ConservedIn, Exists
<1>12. Undoable(after, tx)
  BY <1>3, <1>6 DEF Undoable, Exists, c
<1> QED BY <1>8, <1>9, <1>11, <1>12 DEF AccountsIn, after

\* A match leaves the accounts in order, and what it credited can be taken back.
LEMMA MatchKeepsAccounts ==
  ASSUME NEW ledger \in State, LedgerFiled(ledger), NEW tx \in Transaction,
         Accepted(ledger, tx), tx.type = "MATCH", tx.BuySymbol # tx.SellSymbol,
         NEW ms, AccountsIn(ledger, ms)
  PROVE  /\ tx \notin ms
         /\ AccountsIn(Applied(ledger, tx), ms \cup {tx})
         /\ Undoable(Applied(ledger, tx), tx)
<1> DEFINE b == tx.BuySymbol
           s == tx.SellSymbol
           i == tx.BuyOrderID
           j == tx.SellOrderID
           bs == ledger.tokenStates[b]
           ss == ledger.tokenStates[s]
           buyer == bs.openOrders[i].SellerAddress
           seller == ss.openOrders[j].SellerAddress
           bs2 == Filled(bs, i, tx.TransferAmt, tx.BuyerLoss, seller, tx.SellerGain)
           ss2 == Filled(ss, j, tx.SellerGain, tx.TransferAmt, buyer, tx.TransferAmt)
           after == Applied(ledger, tx)
           more == ms \cup {tx}
<1>1. tx \in MatchTx
  BY KindOfTx
<1>2. /\ b \in Symbols /\ s \in Symbols /\ i \in OrderIDs /\ j \in OrderIDs /\ b # s
      /\ tx.TransferAmt \in Amount /\ tx.BuyerLoss \in Amount /\ tx.SellerGain \in Amount
      /\ tx.TransferAmt \in Nat /\ tx.BuyerLoss \in Nat /\ tx.SellerGain \in Nat
  BY <1>1, MatchFields
<1>3. /\ tx.MatchID \notin ledger.usedMatchIDs
      /\ Exists(ledger, b) /\ Exists(ledger, s)
      /\ MatchAccepted(bs, ss, tx)
  BY DEF Accepted
<1>4. /\ bs \in TokenState /\ OrdersFiled(bs)
      /\ ss \in TokenState /\ OrdersFiled(ss)
  BY <1>2, <1>3 DEF LedgerFiled, State, Exists
<1>5. /\ bs.openOrders[i] # None /\ ss.openOrders[j] # None
      /\ tx.TransferAmt <= ss.openOrders[j].AmountToSell
      /\ tx.BuyerLoss <= bs.openOrders[i].AmountToSell
      /\ tx.SellerGain <= tx.BuyerLoss
  <2>1. bs.openOrders[i] # None /\ ss.openOrders[j] # None
    BY <1>3 DEF MatchAccepted
  <2>2. ss.openOrders[j].AmountToSell \in Nat
    BY <1>2, <1>4, <2>1, AmountIsNat DEF TokenState, Order
  <2> QED BY <1>2, <1>3, <2>1, <2>2 DEF MatchAccepted
<1>6. buyer \in Addresses /\ seller \in Addresses
  <2>1. bs.openOrders[i] \in Order /\ ss.openOrders[j] \in Order
    BY <1>2, <1>4, <1>5 DEF TokenState
  <2> QED BY <2>1 DEF Order
<1>7. /\ bs.orderUpdatesCount[i] # None /\ bs.orderUpdatesCount[i] \in Int
      /\ ss.orderUpdatesCount[j] # None /\ ss.orderUpdatesCount[j] \in Int
  <2>1. bs.orderUpdatesCount[i] # None /\ ss.orderUpdatesCount[j] # None
    BY <1>2, <1>4, <1>5 DEF OrdersFiled
  <2> QED BY <1>2, <1>4, <2>1 DEF TokenState
<1>8. tx \notin ms
  BY <1>3 DEF AccountsIn, CountedIn
<1>9. /\ IsFiniteSet(ms) /\ ms \subseteq MatchTx
  BY DEF AccountsIn, KnownIn
<1>10. after = [tokenStates |-> [ledger.tokenStates EXCEPT ![b] = bs2, ![s] = ss2],
                usedMatchIDs |-> ledger.usedMatchIDs \cup {tx.MatchID}]
  BY <1>1, <1>2, AddMatchOfTwo DEF Applied
<1>11. TotalOf(bs) < Modulus /\ TotalOf(ss) < Modulus
  BY <1>2, <1>3, TotalIsAmount
<1> HIDE DEF b, s, i, j, bs, ss, buyer, seller, after
<1>12. bs2 \in TokenState /\ ss2 \in TokenState /\ bs2 # None /\ ss2 # None
  BY <1>2, <1>4, <1>5, <1>6, <1>7, FilledType, NoneAssumption
<1>13. /\ TotalOf(bs2) = TotalOf(bs) + tx.SellerGain - tx.BuyerLoss
       /\ bs2.unclaimedFunds[seller] >= tx.SellerGain
  BY <1>2, <1>4, <1>5, <1>6, <1>7, <1>11, FilledTotal
<1>14. /\ TotalOf(ss2) = TotalOf(ss) + tx.TransferAmt - tx.TransferAmt
       /\ ss2.unclaimedFunds[buyer] >= tx.TransferAmt
  <2>1. tx.TransferAmt <= tx.TransferAmt
    BY <1>2
  <2> QED BY <1>2, <1>4, <1>5, <1>6, <1>7, <1>11, <2>1, FilledTotal
<1>15. /\ bs2.orderUpdatesCount
            = [bs.orderUpdatesCount EXCEPT ![i] = bs.orderUpdatesCount[i] + 1]
       /\ ss2.orderUpdatesCount
            = [ss.orderUpdatesCount EXCEPT ![j] = ss.orderUpdatesCount[j] + 1]
       /\ bs2.totalSupply = bs.totalSupply /\ ss2.totalSupply = ss.totalSupply
  BY <1>2, <1>4, <1>5, FilledCounts
<1>16. /\ OrderForMatch(bs2, i) # None /\ OrderForMatch(ss2, j) # None
       /\ OrderForMatch(bs2, i).SellerAddress = buyer
       /\ OrderForMatch(ss2, j).SellerAddress = seller
  BY <1>2, <1>4, <1>5, <1>6, OrderAfterFill DEF buyer, seller
<1> HIDE DEF bs2, ss2
<1>17. /\ after.tokenStates[b] = bs2 /\ after.tokenStates[s] = ss2
       /\ \A t \in Symbols \ {b, s} : after.tokenStates[t] = ledger.tokenStates[t]
       /\ after.usedMatchIDs = ledger.usedMatchIDs \cup {tx.MatchID}
  BY <1>2, <1>10 DEF State
<1>18. \A t \in Symbols : Exists(after, t) <=> Exists(ledger, t)
  BY <1>3, <1>12, <1>17 DEF Exists
<1>19. Undoable(after, tx)
  <2>1. after \in State
    BY AcceptedStep DEF after, BetweenTokens
  <2>2. MatchUndoable(after, tx)
    BY <1>1, <1>2, <1>3, <1>13, <1>14, <1>16, <1>17, <1>18, <2>1, UndoableMatchOfTwo
       DEF b, s, i, j
  <2> QED BY <2>2 DEF Undoable
<1>20. \A t \in Symbols, id \in OrderIDs :
         after.tokenStates[t].orderUpdatesCount[id]
           = IF (t = b /\ id = i) \/ (t = s /\ id = j)
             THEN ledger.tokenStates[t].orderUpdatesCount[id] + 1
             ELSE ledger.tokenStates[t].orderUpdatesCount[id]
  <2> SUFFICES ASSUME NEW t \in Symbols, NEW id \in OrderIDs
               PROVE  after.tokenStates[t].orderUpdatesCount[id]
                        = IF (t = b /\ id = i) \/ (t = s /\ id = j)
                          THEN ledger.tokenStates[t].orderUpdatesCount[id] + 1
                          ELSE ledger.tokenStates[t].orderUpdatesCount[id]
    OBVIOUS
  <2>1. CASE t = b
    BY <1>2, <1>4, <1>15, <1>17, <2>1 DEF TokenState, bs
  <2>2. CASE t = s
    BY <1>2, <1>4, <1>15, <1>17, <2>2 DEF TokenState, ss
  <2>3. CASE t \notin {b, s}
    BY <1>17, <2>3
  <2> QED BY <2>1, <2>2, <2>3
<1>21. /\ ledger.tokenStates[b].orderUpdatesCount[i] + 1 # None
       /\ ledger.tokenStates[s].orderUpdatesCount[j] + 1 # None
  BY <1>7, NoneAssumption DEF bs, ss
<1>22. IsFiniteSet(more) /\ more \subseteq MatchTx
  BY <1>1, <1>9, FS_AddElement
<1>23. KnownIn(after, more)
  <2> SUFFICES ASSUME NEW m \in more
               PROVE  /\ m.SellerGain <= m.BuyerLoss
                      /\ Exists(after, m.BuySymbol) /\ Exists(after, m.SellSymbol)
                      /\ after.tokenStates[m.BuySymbol].orderUpdatesCount[m.BuyOrderID] # None
                      /\ after.tokenStates[m.SellSymbol].orderUpdatesCount[m.SellOrderID] # None
    BY <1>22 DEF KnownIn
  <2>1. CASE m = tx
    BY <1>2, <1>3, <1>5, <1>18, <1>20, <1>21, <2>1 DEF b, s, i, j
  <2>2. CASE m \in ms
    <3>1. m \in MatchTx
      BY <1>9, <2>2
    <3>2. /\ m.SellerGain <= m.BuyerLoss
          /\ Exists(ledger, m.BuySymbol) /\ Exists(ledger, m.SellSymbol)
          /\ ledger.tokenStates[m.BuySymbol].orderUpdatesCount[m.BuyOrderID] # None
          /\ ledger.tokenStates[m.SellSymbol].orderUpdatesCount[m.SellOrderID] # None
      BY <2>2 DEF AccountsIn, KnownIn
    <3> QED BY <1>18, <1>20, <1>21, <3>1, <3>2, MatchFields
  <2> QED BY <2>1, <2>2
<1>24. CountedIn(after, more)
  <2>1. after.usedMatchIDs = {m.MatchID : m \in more}
    BY <1>17 DEF AccountsIn, CountedIn
  <2> SUFFICES ASSUME NEW t \in Symbols, NEW id \in OrderIDs, Exists(after, t),
                      after.tokenStates[t].orderUpdatesCount[id] # None
               PROVE  after.tokenStates[t].orderUpdatesCount[id]
                        = Cardinality(MatchesBuying(more, t, id))
                          + Cardinality(MatchesSelling(more, t, id))
    BY <2>1 DEF CountedIn
  <2>2. ledger.tokenStates[t].orderUpdatesCount[id] # None
    BY <1>7, <1>20 DEF bs, ss
  <2>3. ledger.tokenStates[t].orderUpdatesCount[id]
          = Cardinality(MatchesBuying(ms, t, id)) + Cardinality(MatchesSelling(ms, t, id))
    BY <1>18, <2>2 DEF AccountsIn, CountedIn
  <2>4. /\ Cardinality(MatchesBuying(ms, t, id)) \in Nat
        /\ Cardinality(MatchesSelling(ms, t, id)) \in Nat
        /\ Cardinality(MatchesBuying(more, t, id))
             = Cardinality(MatchesBuying(ms, t, id)) + (IF b = t /\ i = id THEN 1 ELSE 0)
        /\ Cardinality(MatchesSelling(more, t, id))
             = Cardinality(MatchesSelling(ms, t, id)) + (IF s = t /\ j = id THEN 1 ELSE 0)
    BY <1>8, <1>9, CountsOfOneMore DEF b, s, i, j
  <2> QED BY <1>2, <1>20, <2>3, <2>4
<1>25. ConservedIn(after, more)
  <2> SUFFICES ASSUME NEW t \in Symbols, Exists(after, t)
               PROVE  TotalOf(after.tokenStates[t]) + Surplus(more, t)
                        = after.tokenStates[t].totalSupply
    BY DEF ConservedIn
  <2>1. Surplus(more, t)
          = Surplus(ms, t) + (IF b = t THEN tx.BuyerLoss - tx.SellerGain ELSE 0)
    BY <1>1, <1>8, <1>9, SurplusOfOneMore DEF b
  <2>2. Surplus(ms, t) \in Nat
    BY SurplusIsNat DEF AccountsIn
  <2>3. /\ TotalOf(ledger.tokenStates[t]) + Surplus(ms, t) = ledger.tokenStates[t].totalSupply
        /\ TotalOf(ledger.tokenStates[t]) \in Nat
    BY <1>18, TotalIsAmount DEF AccountsIn, ConservedIn
  <2>4. CASE t = b
    BY <1>2, <1>13, <1>15, <1>17, <2>1, <2>2, <2>3, <2>4 DEF bs
  <2>5. CASE t = s
    BY <1>2, <1>14, <1>15, <1>17, <2>1, <2>2, <2>3, <2>5 DEF ss
  <2>6. CASE t \notin {b, s}
    BY <1>17, <2>1, <2>2, <2>3, <2>6
  <2> QED BY <2>4, <2>5, <2>6
<1> QED BY <1>8, <1>19, <1>23, <1>24, <1>25 DEF AccountsIn, after

-----------------------------------------------------------------------------
\* Limit prices.

\* Factors of a product.
LEMMA ProductIsNat ==
  ASSUME NEW x \in Nat, NEW y \in Nat
  PROVE  x * y \in Nat
OBVIOUS

\* The other factor of a product that is not negative.
LEMMA SignOfFactor ==
  ASSUME NEW x \in Int, NEW y \in Int, x > 0, x * y >= 0
  PROVE  y >= 0
OBVIOUS

\* The limit of an order, with S left to sell and B left to buy, over the b it
\* bought and the d it sold: the price so far is no worse than the one left.
LEMMA LimitIsPriceLeft ==
  ASSUME NEW S \in Int, NEW B \in Int, NEW b \in Int, NEW d \in Int
  PROVE  b * (S + d) >= d * (B + b) <=> b * S >= d * B
OBVIOUS

\* Buying x and selling y at a price no worse than the one left keeps the price
\* so far no worse than the one that is then left.
LEMMA PriceStep ==
  ASSUME NEW S \in Nat, NEW B \in Nat, NEW b \in Nat, NEW d \in Nat,
         NEW x \in Nat, NEW y \in Nat, S > 0, y <= S,
         b * S >= d * B, x * S >= y * B
  PROVE  (b + x) * (S - y) >= (d + y) * (B - x)
<1> DEFINE gain == (b + x) * (S - y) - (d + y) * (B - x)
           e == b * S - d * B
           f == x * S - y * B
<1>1. S * gain = (S - y) * e + (S + d) * f
  OBVIOUS
<1>2. e \in Nat /\ f \in Nat /\ S - y \in Nat /\ S + d \in Nat /\ gain \in Int
  OBVIOUS
<1> HIDE DEF gain, e, f
<1>3. (S - y) * e \in Nat /\ (S + d) * f \in Nat
  BY <1>2, ProductIsNat
<1>4. gain >= 0
  BY <1>1, <1>2, <1>3, SignOfFactor
<1> QED BY <1>4 DEF gain

\* What an order bought and sold, in naturals.
LEMMA TradedIsNat ==
  ASSUME NEW ms, IsFiniteSet(ms), ms \subseteq MatchTx, NEW s, NEW id
  PROVE  Bought(ms, s, id) \in Nat /\ Sold(ms, s, id) \in Nat
<1> DEFINE B == MatchesBuying(ms, s, id)
           S == MatchesSelling(ms, s, id)
           bt == [m \in B |-> m.TransferAmt]
           bl == [m \in B |-> m.BuyerLoss]
           sg == [m \in S |-> m.SellerGain]
           st == [m \in S |-> m.TransferAmt]
<1>1. IsFiniteSet(B) /\ IsFiniteSet(S) /\ B \subseteq MatchTx /\ S \subseteq MatchTx
  BY FS_Subset DEF MatchesBuying, MatchesSelling
<1>2. bt \in [B -> Nat] /\ bl \in [B -> Nat] /\ sg \in [S -> Nat] /\ st \in [S -> Nat]
  BY <1>1, MatchFields
<1>3. /\ SumFunction(bt) \in Nat /\ SumFunction(bl) \in Nat
      /\ SumFunction(sg) \in Nat /\ SumFunction(st) \in Nat
  <2> HIDE DEF bt, bl, sg, st, B, S
  <2> QED BY <1>1, <1>2, SumOfNats
<1>4. Bought(ms, s, id) = SumFunction(bt) + SumFunction(sg)
  BY DEF Bought
<1>5. Sold(ms, s, id) = SumFunction(bl) + SumFunction(st)
  BY DEF Sold
<1> HIDE DEF bt, bl, sg, st
<1> QED BY <1>3, <1>4, <1>5

\* A match on two orders of different tokens adds to what each of them traded.
LEMMA TradedInOneMore ==
  ASSUME NEW ms, IsFiniteSet(ms), ms \subseteq MatchTx, NEW m \in MatchTx, m \notin ms,
         m.BuySymbol # m.SellSymbol, NEW s, NEW id
  PROVE  /\ m.BuySymbol = s /\ m.BuyOrderID = id =>
              /\ Bought(ms \cup {m}, s, id) = Bought(ms, s, id) + m.TransferAmt
              /\ Sold(ms \cup {m}, s, id) = Sold(ms, s, id) + m.BuyerLoss
         /\ m.SellSymbol = s /\ m.SellOrderID = id =>
              /\ Bought(ms \cup {m}, s, id) = Bought(ms, s, id) + m.SellerGain
              /\ Sold(ms \cup {m}, s, id) = Sold(ms, s, id) + m.TransferAmt
         /\ /\ ~(m.BuySymbol = s /\ m.BuyOrderID = id)
            /\ ~(m.SellSymbol = s /\ m.SellOrderID = id)
            => /\ Bought(ms \cup {m}, s, id) = Bought(ms, s, id)
               /\ Sold(ms \cup {m}, s, id) = Sold(ms, s, id)
<1> DEFINE B == MatchesBuying(ms, s, id)
           S == MatchesSelling(ms, s, id)
           B2 == MatchesBuying(ms \cup {m}, s, id)
           S2 == MatchesSelling(ms \cup {m}, s, id)
           bt == [n \in B |-> n.TransferAmt]
           bl == [n \in B |-> n.BuyerLoss]
           sg == [n \in S |-> n.SellerGain]
           st == [n \in S |-> n.TransferAmt]
           bt2 == [n \in B2 |-> n.TransferAmt]
           bl2 == [n \in B2 |-> n.BuyerLoss]
           sg2 == [n \in S2 |-> n.SellerGain]
           st2 == [n \in S2 |-> n.TransferAmt]
<1>1. /\ IsFiniteSet(B) /\ IsFiniteSet(S) /\ m \notin B /\ m \notin S
      /\ B \subseteq MatchTx /\ S \subseteq MatchTx
      /\ B2 \subseteq MatchTx /\ S2 \subseteq MatchTx
  BY FS_Subset DEF MatchesBuying, MatchesSelling
<1>2. /\ m.BuySymbol = s /\ m.BuyOrderID = id => B2 = B \cup {m}
      /\ ~(m.BuySymbol = s /\ m.BuyOrderID = id) => B2 = B
      /\ m.SellSymbol = s /\ m.SellOrderID = id => S2 = S \cup {m}
      /\ ~(m.SellSymbol = s /\ m.SellOrderID = id) => S2 = S
  BY DEF MatchesBuying, MatchesSelling
<1>3. /\ Bought(ms, s, id) = SumFunction(bt) + SumFunction(sg)
      /\ Bought(ms \cup {m}, s, id) = SumFunction(bt2) + SumFunction(sg2)
      /\ Sold(ms, s, id) = SumFunction(bl) + SumFunction(st)
      /\ Sold(ms \cup {m}, s, id) = SumFunction(bl2) + SumFunction(st2)
  BY DEF Bought, Sold
<1> HIDE DEF B, S, B2, S2
<1>4. /\ bt \in [B -> Int] /\ bl \in [B -> Int] /\ sg \in [S -> Int] /\ st \in [S -> Int]
      /\ bt2 \in [B2 -> Int] /\ bl2 \in [B2 -> Int] /\ sg2 \in [S2 -> Int] /\ st2 \in [S2 -> Int]
  BY <1>1, MatchFields
<1>5. /\ B2 = B => bt2 = bt /\ bl2 = bl
      /\ S2 = S => sg2 = sg /\ st2 = st
  OBVIOUS
<1>6. /\ B2 = B \cup {m} => /\ \A n \in B : bt2[n] = bt[n] /\ bl2[n] = bl[n]
                            /\ bt2[m] = m.TransferAmt /\ bl2[m] = m.BuyerLoss
      /\ S2 = S \cup {m} => /\ \A n \in S : sg2[n] = sg[n] /\ st2[n] = st[n]
                            /\ sg2[m] = m.SellerGain /\ st2[m] = m.TransferAmt
  OBVIOUS
<1>7. m.TransferAmt \in Nat /\ m.BuyerLoss \in Nat /\ m.SellerGain \in Nat
  BY MatchFields
<1> HIDE DEF bt, bl, sg, st, bt2, bl2, sg2, st2
<1>8. /\ SumFunction(bt) \in Int /\ SumFunction(bl) \in Int
      /\ SumFunction(sg) \in Int /\ SumFunction(st) \in Int
  BY <1>1, <1>4, SumOfInts
<1>9. ASSUME B2 = B \cup {m}
      PROVE  /\ SumFunction(bt2) = SumFunction(bt) + m.TransferAmt
             /\ SumFunction(bl2) = SumFunction(bl) + m.BuyerLoss
  <2>1. IsFiniteSet(B) /\ m \notin B
    BY <1>1
  <2>2. SumFunction(bt2) = SumFunction(bt) + bt2[m]
    <3>1. /\ bt \in [B -> Int] /\ bt2 \in [B \cup {m} -> Int]
          /\ \A n \in B : bt[n] = bt2[n]
      BY <1>4, <1>6, <1>9
    <3> QED BY <2>1, <3>1, SumExtended
  <2>3. SumFunction(bl2) = SumFunction(bl) + bl2[m]
    <3>1. /\ bl \in [B -> Int] /\ bl2 \in [B \cup {m} -> Int]
          /\ \A n \in B : bl[n] = bl2[n]
      BY <1>4, <1>6, <1>9
    <3> QED BY <2>1, <3>1, SumExtended
  <2> QED BY <1>6, <1>9, <2>2, <2>3
<1>10. ASSUME S2 = S \cup {m}
       PROVE  /\ SumFunction(sg2) = SumFunction(sg) + m.SellerGain
              /\ SumFunction(st2) = SumFunction(st) + m.TransferAmt
  <2>1. IsFiniteSet(S) /\ m \notin S
    BY <1>1
  <2>2. SumFunction(sg2) = SumFunction(sg) + sg2[m]
    <3>1. /\ sg \in [S -> Int] /\ sg2 \in [S \cup {m} -> Int]
          /\ \A n \in S : sg[n] = sg2[n]
      BY <1>4, <1>6, <1>10
    <3> QED BY <2>1, <3>1, SumExtended
  <2>3. SumFunction(st2) = SumFunction(st) + st2[m]
    <3>1. /\ st \in [S -> Int] /\ st2 \in [S \cup {m} -> Int]
          /\ \A n \in S : st[n] = st2[n]
      BY <1>4, <1>6, <1>10
    <3> QED BY <2>1, <3>1, SumExtended
  <2> QED BY <1>6, <1>10, <2>2, <2>3
<1> QED BY <1>2, <1>3, <1>5, <1>7, <1>8, <1>9, <1>10

\* Buying x for y is no worse for an order than the price it has left.
NoWorse(o, x, y) ==
  o.AmountToSell > 0 =>
    x <= o.AmountToBuy /\ x * o.AmountToSell >= y * o.AmountToBuy

\* Filling an order by x for y, at a price no worse than the one left, keeps the
\* price so far no worse than its limit; with nothing left to sell, but still
\* something to buy, it sold nothing at all.
LEMMA OrderPriceKept ==
  ASSUME NEW o \in Order, NEW b \in Nat, NEW d \in Nat, NEW x \in Amount, NEW y \in Amount,
         y <= o.AmountToSell, NoWorse(o, x, y),
         InLimit(o, b, d), o.AmountToSell = 0 => d = 0
  PROVE  LET after == Reduced(o, x, y)
         IN /\ InLimit(after, b + x, d + y)
            /\ after.AmountToSell = 0 /\ after.AmountToBuy # 0 => d + y = 0
<1> DEFINE S == o.AmountToSell
           B == o.AmountToBuy
           S2 == Reduced(o, x, y).AmountToSell
           B2 == Reduced(o, x, y).AmountToBuy
<1>1. S \in Nat /\ B \in Nat /\ x \in Nat /\ y \in Nat
  BY AmountIsNat DEF Order
<1>2. S2 \in Nat /\ B2 \in Nat
  BY OrderFilledType, AmountIsNat DEF Order
<1>3. S2 = Minus(S, y) /\ B2 = Minus(B, x)
  BY DEF Reduced, Order
<1>4. /\ y <= S /\ b * (S + d) >= d * (B + b) /\ (S = 0 => d = 0)
      /\ S > 0 => x <= B /\ x * S >= y * B
  BY DEF NoWorse, InLimit
<1> HIDE DEF S, B, S2, B2
<1>5. S2 = S - y
  BY <1>1, <1>3, <1>4 DEF Minus
<1>6. CASE S = 0
  <2>1. d = 0 /\ y = 0 /\ S2 = 0
    BY <1>1, <1>4, <1>5, <1>6
  <2>2. (b + x) * S2 = 0 /\ (d + y) * B2 = 0
    BY <1>1, <1>2, <2>1
  <2>3. (b + x) * (S2 + (d + y)) >= (d + y) * (B2 + (b + x))
    BY <1>1, <1>2, <2>1, <2>2
  <2> QED BY <2>1, <2>3 DEF InLimit, S2, B2
<1>7. CASE S > 0
  <2>1. B2 = B - x
    BY <1>1, <1>3, <1>4, <1>7 DEF Minus
  <2>2. b * S >= d * B
    BY <1>1, <1>4, LimitIsPriceLeft
  <2>3. (b + x) * (S - y) >= (d + y) * (B - x)
    BY <1>1, <1>4, <1>7, <2>2, PriceStep
  <2>4. (b + x) * S2 >= (d + y) * B2
    BY <1>5, <2>1, <2>3
  <2>5. b + x \in Nat /\ d + y \in Nat
    BY <1>1
  <2>6. (b + x) * (S2 + (d + y)) >= (d + y) * (B2 + (b + x))
    BY <1>2, <2>4, <2>5, LimitIsPriceLeft
  <2>7. ASSUME S2 = 0, B2 # 0 PROVE d + y = 0
    <3>1. (d + y) * B2 <= 0
      BY <1>2, <2>4, <2>5, <2>7
    <3> QED BY <1>2, <2>5, <2>7, <3>1
  <2> QED BY <2>6, <2>7 DEF InLimit, S2, B2
<1> QED BY <1>1, <1>6, <1>7

\* The one amount of a match that is computed, the rest of an order's price for the
\* whole of the other, is on the side its rounding says.  A float64 can miss it:
\* 29 / 7 * 7 is rounded up to 30.
RoundedFor(buy, sell, m) ==
  /\ buy.AmountToBuy > sell.AmountToSell =>
       m.BuyerLoss * buy.AmountToBuy <= buy.AmountToSell * sell.AmountToSell
  /\ buy.AmountToBuy <= sell.AmountToSell /\ sell.AmountToSell > 0 =>
       /\ m.SellerGain <= sell.AmountToBuy
       /\ m.SellerGain * sell.AmountToSell >= sell.AmountToBuy * buy.AmountToBuy

RoundedRight(ledger, m) ==
  RoundedFor(ledger.tokenStates[m.BuySymbol].openOrders[m.BuyOrderID],
             ledger.tokenStates[m.SellSymbol].openOrders[m.SellOrderID], m)

\* The amounts of an accepted match are then no worse for either order than the
\* price it has left: one of the two is closed at exactly that price, and the other
\* one's amount is rounded in its favour.
LEMMA MatchPrices ==
  ASSUME NEW bs, NEW ss, NEW m \in MatchTx, MatchAccepted(bs, ss, m),
         NEW buy \in Order, buy = bs.openOrders[m.BuyOrderID],
         NEW sell \in Order, sell = ss.openOrders[m.SellOrderID],
         RoundedFor(buy, sell, m)
  PROVE  NoWorse(buy, m.TransferAmt, m.BuyerLoss) /\ NoWorse(sell, m.SellerGain, m.TransferAmt)
<1>1. MatchAmounts(buy, sell) = [transferAmt |-> m.TransferAmt,
                                 sellerGain  |-> m.SellerGain,
                                 buyerLoss   |-> m.BuyerLoss]
  BY DEF MatchAccepted
<1>2. /\ buy.AmountToBuy \in Amount /\ buy.AmountToSell \in Amount
      /\ sell.AmountToBuy \in Amount /\ sell.AmountToSell \in Amount
      /\ buy.AmountToBuy \in Nat /\ buy.AmountToSell \in Nat
      /\ sell.AmountToBuy \in Nat /\ sell.AmountToSell \in Nat
  BY AmountIsNat DEF Order
<1>3. /\ m.TransferAmt \in Nat /\ m.BuyerLoss \in Nat /\ m.SellerGain \in Nat
      /\ m.BuyerLoss # None /\ m.SellerGain # None
  BY MatchFields, NoneAssumption
<1>4. CASE buy.AmountToBuy > sell.AmountToSell
  <2>1. /\ m.TransferAmt = sell.AmountToSell
        /\ m.SellerGain = sell.AmountToBuy
        /\ m.BuyerLoss = FloorPriceTimes(buy.AmountToSell, buy.AmountToBuy, sell.AmountToSell)
    BY <1>1, <1>4 DEF MatchAmounts
  <2>3. m.BuyerLoss * buy.AmountToBuy <= buy.AmountToSell * sell.AmountToSell
    BY <1>4 DEF RoundedFor
  <2>4. m.TransferAmt * buy.AmountToSell >= m.BuyerLoss * buy.AmountToBuy
    BY <1>2, <1>3, <2>1, <2>3
  <2> QED BY <1>2, <1>4, <2>1, <2>4 DEF NoWorse
<1>5. CASE ~(buy.AmountToBuy > sell.AmountToSell)
  <2>1. /\ m.TransferAmt = buy.AmountToBuy
        /\ m.SellerGain = CeilPriceTimes(sell.AmountToBuy, sell.AmountToSell, buy.AmountToBuy)
        /\ m.BuyerLoss = buy.AmountToSell
    BY <1>1, <1>5 DEF MatchAmounts
  <2>2. /\ m.TransferAmt <= buy.AmountToBuy
        /\ m.TransferAmt * buy.AmountToSell >= m.BuyerLoss * buy.AmountToBuy
    BY <1>2, <2>1
  <2>3. ASSUME sell.AmountToSell > 0
        PROVE  /\ m.SellerGain <= sell.AmountToBuy
               /\ m.SellerGain * sell.AmountToSell >= m.TransferAmt * sell.AmountToBuy
    <3>1. buy.AmountToBuy <= sell.AmountToSell
      BY <1>2, <1>5
    <3>2. /\ m.SellerGain * sell.AmountToSell >= sell.AmountToBuy * buy.AmountToBuy
          /\ m.SellerGain <= sell.AmountToBuy
      BY <2>3, <3>1 DEF RoundedFor
    <3> QED BY <1>2, <2>1, <3>2
  <2> QED BY <2>2, <2>3 DEF NoWorse
<1> QED BY <1>4, <1>5

\* The orders of a ledger have traded within their limits, and an open order
\* with nothing to sell has sold nothing.
PricesIn(ledger, ms) ==
  /\ PricesKeptIn(ledger, ms)
  /\ \A s \in Symbols, id \in OrderIDs :
       LET o == ledger.tokenStates[s].openOrders[id]
       IN Exists(ledger, s) /\ o # None /\ o.AmountToSell = 0 => Sold(ms, s, id) = 0

\* An order without a counter has not traded.
LEMMA UncountedUntraded ==
  ASSUME NEW ledger, NEW ms, KnownIn(ledger, ms), NEW s \in Symbols, NEW id \in OrderIDs,
         ~Exists(ledger, s) \/ ledger.tokenStates[s].orderUpdatesCount[id] = None
  PROVE  Bought(ms, s, id) = 0 /\ Sold(ms, s, id) = 0
<1>1. MatchesBuying(ms, s, id) = {} /\ MatchesSelling(ms, s, id) = {}
  BY UncountedUnmatched
<1> QED BY <1>1, SumOfNone DEF Bought, Sold

\* An order that has not traded is within its limit.
LEMMA UntradedInLimit ==
  ASSUME NEW o \in Order
  PROVE  InLimit(o, 0, 0)
<1>1. o.AmountToSell \in Nat /\ o.AmountToBuy \in Nat
  BY AmountIsNat DEF Order
<1> QED BY <1>1 DEF InLimit

\* A transaction of the token's chain does nothing to the orders of the token
\* but open one that was in neither map.
LEMMA TokenTxOrders ==
  ASSUME NEW ts \in TokenState, OrdersFiled(ts), NEW tx \in Transaction,
         TokenTxAccepted(ts, tx)
  PROVE  LET us == TokenTxApplied(ts, tx)
         IN /\ us.deletedOrders = ts.deletedOrders
            /\ \A id \in OrderIDs :
                 \/ us.openOrders[id] = ts.openOrders[id]
                 \/ /\ ts.orderUpdatesCount[id] = None /\ ts.deletedOrders[id] = None
                    /\ us.openOrders[id] \in Order
<1>1. CASE tx.type = "ORDER"
  <2>1. tx.order \in Order /\ tx.order.ID \in OrderIDs
    BY <1>1, KindOfTx DEF OrderTx, Order
  <2>2. OrderAccepted(ts, tx.order) /\ TokenTxApplied(ts, tx) = AddOrder(ts, tx.order)
    BY <1>1 DEF TokenTxAccepted, TokenTxApplied
  <2>3. /\ AddOrder(ts, tx.order).deletedOrders = ts.deletedOrders
        /\ AddOrder(ts, tx.order).openOrders = [ts.openOrders EXCEPT ![tx.order.ID] = tx.order]
    BY DEF AddOrder, TokenState
  <2>4. ts.orderUpdatesCount[tx.order.ID] = None /\ ts.deletedOrders[tx.order.ID] = None
    BY <2>1, <2>2 DEF OrderAccepted, OrdersFiled
  <2> QED BY <2>1, <2>2, <2>3, <2>4 DEF TokenState
<1>2. CASE tx.type = "CLAIM_FUNDS"
  <2>1. TokenTxApplied(ts, tx) = AddClaimFunds(ts, tx)
    BY <1>2 DEF TokenTxApplied
  <2> QED BY <2>1 DEF AddClaimFunds, TokenState
<1>3. CASE tx.type = "TRANSFER"
  <2>1. TokenTxApplied(ts, tx) = AddTransfer(ts, tx)
    BY <1>3 DEF TokenTxApplied
  <2> QED BY <2>1 DEF AddTransfer, TokenState
<1>4. CASE tx.type = "FREEZE"
  <2>1. TokenTxApplied(ts, tx) = AddFreeze(ts, tx)
    BY <1>4 DEF TokenTxApplied
  <2> QED BY <2>1 DEF AddFreeze, TokenState
<1> QED BY <1>1, <1>2, <1>3, <1>4 DEF TokenTxAccepted

\* A transaction of a token's chain leaves every order within its limit.
LEMMA TokenTxKeepsPrices ==
  ASSUME NEW ledger \in State, LedgerFiled(ledger), NEW tx \in Transaction,
         Accepted(ledger, tx),
         tx.type \in {"ORDER", "CLAIM_FUNDS", "TRANSFER", "FREEZE"},
         NEW ms, KnownIn(ledger, ms), PricesIn(ledger, ms)
  PROVE  PricesIn(Applied(ledger, tx), ms)
<1> DEFINE c == tx.chain
           ts == ledger.tokenStates[c]
           us == TokenTxApplied(ts, tx)
           after == Applied(ledger, tx)
<1>1. c \in Symbols
  BY KindOfTx DEF OrderTx, ClaimTx, TransferTx, FreezeTx
<1>2. Exists(ledger, c) /\ TokenTxAccepted(ts, tx)
  BY DEF Accepted
<1>3. ts \in TokenState /\ OrdersFiled(ts)
  BY <1>1, <1>2 DEF LedgerFiled, State, Exists
<1>4. /\ us.deletedOrders = ts.deletedOrders
      /\ \A id \in OrderIDs :
           \/ us.openOrders[id] = ts.openOrders[id]
           \/ /\ ts.orderUpdatesCount[id] = None /\ ts.deletedOrders[id] = None
              /\ us.openOrders[id] \in Order
  BY <1>2, <1>3, TokenTxOrders
<1>5. after = [ledger EXCEPT !.tokenStates[c] = us]
  BY DEF Applied
<1> HIDE DEF us, c, after
<1>6. /\ after.tokenStates[c] = us
      /\ \A s \in Symbols : s # c => after.tokenStates[s] = ledger.tokenStates[s]
  BY <1>1, <1>5 DEF State
<1> SUFFICES ASSUME NEW s \in Symbols, NEW id \in OrderIDs, Exists(after, s)
             PROVE  LET o == OrderForMatch(after.tokenStates[s], id)
                        open == after.tokenStates[s].openOrders[id]
                    IN /\ o # None => InLimit(o, Bought(ms, s, id), Sold(ms, s, id))
                       /\ open # None /\ open.AmountToSell = 0 => Sold(ms, s, id) = 0
  BY DEF PricesIn, PricesKeptIn, after
<1>7. CASE s # c
  BY <1>6, <1>7 DEF PricesIn, PricesKeptIn, Exists
<1>8. CASE s = c /\ us.openOrders[id] = ts.openOrders[id]
  <2>1. OrderForMatch(us, id) = OrderForMatch(ts, id)
    BY <1>4, <1>8 DEF OrderForMatch
  <2> QED BY <1>2, <1>6, <1>8, <2>1 DEF PricesIn, PricesKeptIn
<1>9. CASE /\ s = c /\ ts.orderUpdatesCount[id] = None /\ ts.deletedOrders[id] = None
           /\ us.openOrders[id] \in Order
  <2>1. Bought(ms, s, id) = 0 /\ Sold(ms, s, id) = 0
    BY <1>9, UncountedUntraded
  <2>2. OrderForMatch(us, id) = us.openOrders[id]
    BY <1>4, <1>9 DEF OrderForMatch
  <2> QED BY <1>6, <1>9, <2>1, <2>2, UntradedInLimit
<1> QED BY <1>4, <1>7, <1>8, <1>9

\* A new token has no orders.
LEMMA CreateKeepsPrices ==
  ASSUME NEW ledger \in State, NEW tx \in Transaction,
         Accepted(ledger, tx), tx.type = "CREATE_TOKEN",
         NEW ms, PricesIn(ledger, ms)
  PROVE  PricesIn(Applied(ledger, tx), ms)
<1> DEFINE c == tx.Symbol
           us == NewToken(tx.TotalSupply, tx.CreatorAddress)
           after == Applied(ledger, tx)
<1>1. /\ c \in Symbols
      /\ tx.TotalSupply \in Amount
      /\ tx.CreatorAddress \in Addresses
  BY KindOfTx DEF CreateTx
<1>2. \A id \in OrderIDs : us.openOrders[id] = None /\ us.deletedOrders[id] = None
  BY <1>1, NewTokenTotal
<1>3. after = [ledger EXCEPT !.tokenStates[c] = us]
  BY DEF Applied
<1> HIDE DEF us, c, after
<1>4. /\ after.tokenStates[c] = us
      /\ \A s \in Symbols : s # c => after.tokenStates[s] = ledger.tokenStates[s]
  BY <1>1, <1>3 DEF State
<1>5. \A id \in OrderIDs : OrderForMatch(us, id) = None
  BY <1>2 DEF OrderForMatch
<1>6. PricesKeptIn(after, ms)
  BY <1>4, <1>5 DEF PricesIn, PricesKeptIn, Exists
<1> QED BY <1>2, <1>4, <1>6 DEF PricesIn, Exists, after

\* One side of a match touches no other order of its token.
LEMMA FilledOrders ==
  ASSUME NEW ts \in TokenState, NEW id \in OrderIDs, ts.openOrders[id] # None,
         NEW bought, NEW sold, NEW counterparty, NEW credit
  PROVE  LET us == Filled(ts, id, bought, sold, counterparty, credit)
             o == Reduced(ts.openOrders[id], bought, sold)
         IN /\ us.openOrders[id] = IF o.AmountToBuy = 0 THEN None ELSE o
            /\ \A k \in OrderIDs \ {id} : /\ us.openOrders[k] = ts.openOrders[k]
                                          /\ OrderForMatch(us, k) = OrderForMatch(ts, k)
<1> DEFINE us == Filled(ts, id, bought, sold, counterparty, credit)
           o == Reduced(ts.openOrders[id], bought, sold)
<1>1. us.openOrders = [ts.openOrders EXCEPT ![id] = IF o.AmountToBuy = 0 THEN None ELSE o]
  BY DEF Filled, FillOrder, TokenState
<1>2. us.deletedOrders = IF o.AmountToBuy = 0
                         THEN [ts.deletedOrders EXCEPT ![id] = o] ELSE ts.deletedOrders
  BY DEF Filled, FillOrder, TokenState
<1> HIDE DEF us, o
<1>3. \A k \in OrderIDs \ {id} : /\ us.openOrders[k] = ts.openOrders[k]
                                 /\ us.deletedOrders[k] = ts.deletedOrders[k]
  BY <1>1, <1>2 DEF TokenState
<1>4. us.openOrders[id] = IF o.AmountToBuy = 0 THEN None ELSE o
  BY <1>1 DEF TokenState
<1> QED BY <1>3, <1>4 DEF OrderForMatch, us, o

\* One side of a match leaves its order within its limit.
LEMMA FilledPrices ==
  ASSUME NEW ts \in TokenState, OrdersFiled(ts), NEW id \in OrderIDs,
         NEW o, o = ts.openOrders[id], o # None,
         NEW x \in Amount, NEW y \in Amount, y <= o.AmountToSell, NoWorse(o, x, y),
         NEW b \in Nat, NEW d \in Nat, InLimit(o, b, d), o.AmountToSell = 0 => d = 0,
         NEW counterparty \in Addresses, NEW credit \in Amount
  PROVE  LET us == Filled(ts, id, x, y, counterparty, credit)
         IN /\ InLimit(OrderForMatch(us, id), b + x, d + y)
            /\ us.openOrders[id] # None /\ us.openOrders[id].AmountToSell = 0 => d + y = 0
<1> DEFINE us == Filled(ts, id, x, y, counterparty, credit)
           after == Reduced(o, x, y)
<1>1. o \in Order
  BY DEF TokenState
<1>2. OrderForMatch(us, id) = after
  BY OrderAfterFill
<1>3. us.openOrders[id] = IF after.AmountToBuy = 0 THEN None ELSE after
  BY FilledOrders
<1>4. /\ InLimit(after, b + x, d + y)
      /\ after.AmountToSell = 0 /\ after.AmountToBuy # 0 => d + y = 0
  BY <1>1, OrderPriceKept
<1> HIDE DEF us, after
<1> QED BY <1>2, <1>3, <1>4 DEF us

\* A match that is rounded to the right side leaves every order within its limit.
LEMMA MatchKeepsPrices ==
  ASSUME NEW ledger \in State, LedgerFiled(ledger), NEW tx \in Transaction,
         Accepted(ledger, tx), tx.type = "MATCH", tx.BuySymbol # tx.SellSymbol,
         RoundedRight(ledger, tx),
         NEW ms, tx \notin ms, KnownIn(ledger, ms), PricesIn(ledger, ms)
  PROVE  PricesIn(Applied(ledger, tx), ms \cup {tx})
<1> DEFINE b == tx.BuySymbol
           s == tx.SellSymbol
           i == tx.BuyOrderID
           j == tx.SellOrderID
           bs == ledger.tokenStates[b]
           ss == ledger.tokenStates[s]
           buy == bs.openOrders[i]
           sell == ss.openOrders[j]
           bs2 == Filled(bs, i, tx.TransferAmt, tx.BuyerLoss, sell.SellerAddress, tx.SellerGain)
           ss2 == Filled(ss, j, tx.SellerGain, tx.TransferAmt, buy.SellerAddress, tx.TransferAmt)
           after == Applied(ledger, tx)
           more == ms \cup {tx}
<1>1. tx \in MatchTx
  BY KindOfTx
<1>2. /\ b \in Symbols /\ s \in Symbols /\ i \in OrderIDs /\ j \in OrderIDs /\ b # s
      /\ tx.TransferAmt \in Amount /\ tx.BuyerLoss \in Amount /\ tx.SellerGain \in Amount
      /\ tx.TransferAmt \in Nat /\ tx.BuyerLoss \in Nat /\ tx.SellerGain \in Nat
  BY <1>1, MatchFields
<1>3. /\ Exists(ledger, b) /\ Exists(ledger, s)
      /\ MatchAccepted(bs, ss, tx)
  BY DEF Accepted
<1>4. /\ bs \in TokenState /\ OrdersFiled(bs)
      /\ ss \in TokenState /\ OrdersFiled(ss)
  BY <1>2, <1>3 DEF LedgerFiled, State, Exists
<1>5. /\ buy # None /\ sell # None
      /\ sell.AmountToSell >= tx.TransferAmt /\ tx.BuyerLoss <= buy.AmountToSell
  BY <1>3 DEF MatchAccepted
<1>6. buy \in Order /\ sell \in Order
  BY <1>2, <1>4, <1>5 DEF TokenState
<1>7. /\ buy.SellerAddress \in Addresses /\ sell.SellerAddress \in Addresses
      /\ buy.AmountToSell \in Nat /\ sell.AmountToSell \in Nat
  BY <1>6, AmountIsNat DEF Order
<1>8. tx.TransferAmt <= sell.AmountToSell
  BY <1>2, <1>5, <1>7
<1>9. NoWorse(buy, tx.TransferAmt, tx.BuyerLoss) /\ NoWorse(sell, tx.SellerGain, tx.TransferAmt)
  BY <1>1, <1>3, <1>6, MatchPrices DEF RoundedRight
<1>10. after.tokenStates = [ledger.tokenStates EXCEPT ![b] = bs2, ![s] = ss2]
  BY <1>1, <1>2, AddMatchOfTwo DEF Applied
<1>11. IsFiniteSet(ms) /\ ms \subseteq MatchTx
  BY DEF KnownIn
<1>12. \A t, id :
         /\ b = t /\ i = id => /\ Bought(more, t, id) = Bought(ms, t, id) + tx.TransferAmt
                               /\ Sold(more, t, id) = Sold(ms, t, id) + tx.BuyerLoss
         /\ s = t /\ j = id => /\ Bought(more, t, id) = Bought(ms, t, id) + tx.SellerGain
                               /\ Sold(more, t, id) = Sold(ms, t, id) + tx.TransferAmt
         /\ ~(b = t /\ i = id) /\ ~(s = t /\ j = id) =>
              /\ Bought(more, t, id) = Bought(ms, t, id)
              /\ Sold(more, t, id) = Sold(ms, t, id)
  BY <1>1, <1>11, TradedInOneMore
<1>13. /\ Bought(ms, b, i) \in Nat /\ Sold(ms, b, i) \in Nat
       /\ Bought(ms, s, j) \in Nat /\ Sold(ms, s, j) \in Nat
  BY <1>11, TradedIsNat
<1>14. /\ OrderForMatch(bs, i) = buy /\ OrderForMatch(ss, j) = sell
  BY <1>2, <1>4, <1>5 DEF OrdersFiled, OrderForMatch
<1>15. /\ InLimit(buy, Bought(ms, b, i), Sold(ms, b, i))
       /\ InLimit(sell, Bought(ms, s, j), Sold(ms, s, j))
       /\ buy.AmountToSell = 0 => Sold(ms, b, i) = 0
       /\ sell.AmountToSell = 0 => Sold(ms, s, j) = 0
  BY <1>2, <1>3, <1>5, <1>14 DEF PricesIn, PricesKeptIn
<1> HIDE DEF b, s, i, j, bs, ss, buy, sell
<1>16. LET bought == Bought(ms, b, i) + tx.TransferAmt
           sold == Sold(ms, b, i) + tx.BuyerLoss
       IN /\ InLimit(OrderForMatch(bs2, i), bought, sold)
          /\ bs2.openOrders[i] # None /\ bs2.openOrders[i].AmountToSell = 0 => sold = 0
  BY <1>2, <1>4, <1>5, <1>7, <1>9, <1>13, <1>15, FilledPrices DEF buy
<1>17. LET bought == Bought(ms, s, j) + tx.SellerGain
           sold == Sold(ms, s, j) + tx.TransferAmt
       IN /\ InLimit(OrderForMatch(ss2, j), bought, sold)
          /\ ss2.openOrders[j] # None /\ ss2.openOrders[j].AmountToSell = 0 => sold = 0
  BY <1>2, <1>4, <1>5, <1>7, <1>8, <1>9, <1>13, <1>15, FilledPrices DEF sell
<1>18. /\ \A k \in OrderIDs \ {i} : /\ bs2.openOrders[k] = bs.openOrders[k]
                                    /\ OrderForMatch(bs2, k) = OrderForMatch(bs, k)
       /\ \A k \in OrderIDs \ {j} : /\ ss2.openOrders[k] = ss.openOrders[k]
                                    /\ OrderForMatch(ss2, k) = OrderForMatch(ss, k)
  BY <1>2, <1>4, <1>5, FilledOrders DEF buy, sell
<1> HIDE DEF bs2, ss2, after
<1>19. /\ after.tokenStates[b] = bs2 /\ after.tokenStates[s] = ss2
       /\ \A t \in Symbols \ {b, s} : after.tokenStates[t] = ledger.tokenStates[t]
  BY <1>2, <1>10 DEF State
<1> SUFFICES ASSUME NEW t \in Symbols, NEW id \in OrderIDs, Exists(after, t)
             PROVE  LET o == OrderForMatch(after.tokenStates[t], id)
                        open == after.tokenStates[t].openOrders[id]
                    IN /\ o # None => InLimit(o, Bought(more, t, id), Sold(more, t, id))
                       /\ open # None /\ open.AmountToSell = 0 => Sold(more, t, id) = 0
  BY DEF PricesIn, PricesKeptIn, after
<1>20. CASE t = b /\ id = i
  BY <1>12, <1>16, <1>19, <1>20
<1>21. CASE t = s /\ id = j
  BY <1>12, <1>17, <1>19, <1>21
<1>22. CASE ~(t = b /\ id = i) /\ ~(t = s /\ id = j)
  <2>1. Bought(more, t, id) = Bought(ms, t, id) /\ Sold(more, t, id) = Sold(ms, t, id)
    BY <1>12, <1>22
  <2>2. /\ after.tokenStates[t].openOrders[id] = ledger.tokenStates[t].openOrders[id]
        /\ OrderForMatch(after.tokenStates[t], id) = OrderForMatch(ledger.tokenStates[t], id)
    BY <1>2, <1>18, <1>19, <1>22 DEF bs, ss
  <2>3. Exists(ledger, t)
    BY <1>3, <1>19 DEF Exists
  <2> QED BY <2>1, <2>2, <2>3 DEF PricesIn, PricesKeptIn
<1> QED BY <1>20, <1>21, <1>22

-----------------------------------------------------------------------------
\* The accounts of the list.

\* The matches in force before the transaction i of the list.
MatchesBefore(i) == matches \ {uncommitted[j] : j \in i .. Len(saved)}

\* The accounts of the ledger, and of every ledger an undo can still give back.
AccountsInv ==
  /\ AccountsIn(cs, matches)
  /\ \A i \in 1 .. Len(saved) : AccountsIn(saved[i], MatchesBefore(i))

\* The limits of the same ledgers.
PricesInv ==
  /\ PricesIn(cs, matches)
  /\ \A i \in 1 .. Len(saved) : PricesIn(saved[i], MatchesBefore(i))

\* An accepted transaction leaves the accounts in order and can be undone at once.
LEMMA StepKeepsAccounts ==
  ASSUME NEW ledger \in State, LedgerFiled(ledger), NEW tx \in Offered, Accepted(ledger, tx),
         BetweenTokens(tx), NEW ms, AccountsIn(ledger, ms)
  PROVE  /\ tx \notin ms
         /\ AccountsIn(Applied(ledger, tx), IF tx.type = "MATCH" THEN ms \cup {tx} ELSE ms)
         /\ Undoable(Applied(ledger, tx), tx)
<1>1. tx \in Transaction /\ (tx.type = "MATCH" => tx.BuySymbol # tx.SellSymbol)
  BY OfferedAssumption DEF BetweenTokens
<1>2. \/ tx.type \in {"ORDER", "CLAIM_FUNDS", "TRANSFER", "FREEZE"}
      \/ tx.type = "MATCH"
      \/ tx.type = "CREATE_TOKEN"
  BY DEF Accepted
<1>3. tx.type # "MATCH" => tx \notin ms
  BY MatchFields DEF AccountsIn, KnownIn
<1> QED BY <1>1, <1>2, <1>3, TokenTxKeepsAccounts, CreateKeepsAccounts, MatchKeepsAccounts

\* If it is rounded to the right side it leaves every order within its limit.
LEMMA StepKeepsPrices ==
  ASSUME NEW ledger \in State, LedgerFiled(ledger), NEW tx \in Offered, Accepted(ledger, tx),
         BetweenTokens(tx), tx.type = "MATCH" => RoundedRight(ledger, tx),
         NEW ms, AccountsIn(ledger, ms), PricesIn(ledger, ms)
  PROVE  PricesIn(Applied(ledger, tx), IF tx.type = "MATCH" THEN ms \cup {tx} ELSE ms)
<1>1. tx \in Transaction /\ (tx.type = "MATCH" => tx.BuySymbol # tx.SellSymbol)
  BY OfferedAssumption DEF BetweenTokens
<1>2. \/ tx.type \in {"ORDER", "CLAIM_FUNDS", "TRANSFER", "FREEZE"}
      \/ tx.type = "MATCH"
      \/ tx.type = "CREATE_TOKEN"
  BY DEF Accepted
<1>3. tx \notin ms
  BY StepKeepsAccounts
<1>4. KnownIn(ledger, ms)
  BY DEF AccountsIn
<1> QED BY <1>1, <1>2, <1>3, <1>4, TokenTxKeepsPrices, CreateKeepsPrices, MatchKeepsPrices

\* Initially there is nothing to account for.
LEMMA InitAccounts == Init => AccountsInv /\ PricesInv
<1> SUFFICES ASSUME Init PROVE AccountsInv /\ PricesInv
  OBVIOUS
<1>1. cs = NewConsensusState /\ matches = {} /\ Len(saved) = 0
  BY DEF Init
<1>2. \A s \in Symbols : ~Exists(cs, s)
  BY <1>1 DEF NewConsensusState, Exists
<1>3. KnownIn(cs, matches)
  BY <1>1, FS_EmptySet DEF KnownIn
<1>4. CountedIn(cs, matches)
  BY <1>1, <1>2 DEF CountedIn, NewConsensusState
<1>5. ConservedIn(cs, matches) /\ PricesIn(cs, matches)
  BY <1>2 DEF ConservedIn, PricesIn, PricesKeptIn
<1> QED BY <1>1, <1>3, <1>4, <1>5 DEF AccountsInv, PricesInv, AccountsIn

\* Before a transaction that is added now, the matches in force are those of now;
\* before the ones listed already, they stay what they were.
LEMMA AddedMatches ==
  ASSUME IInv, AccountsInv, NEW tx \in Offered, AddTransaction(tx), BetweenTokens(tx),
         NEW CONSTANT n, n = Len(saved)
  PROVE  /\ Len(saved') = n + 1
         /\ saved'[n + 1] = cs /\ MatchesBefore(n + 1)' = matches
         /\ \A i \in 1 .. n : saved'[i] = saved[i] /\ MatchesBefore(i)' = MatchesBefore(i)
<1>1. /\ n \in Nat /\ n = Len(uncommitted)
      /\ saved \in Seq(State) /\ uncommitted \in Seq(Offered) /\ cs \in State
      /\ LedgerFiled(cs)
  BY DEF IInv, TypeOK
<1>2. tx \notin matches
  BY <1>1, StepKeepsAccounts DEF AccountsInv, AddTransaction
<1>3. /\ Len(saved') = n + 1 /\ saved'[n + 1] = cs
      /\ \A i \in 1 .. n : saved'[i] = saved[i]
  <2>1. saved' = Append(saved, cs)
    BY DEF AddTransaction
  <2>2. saved \in Seq(State) /\ cs \in State
    BY <1>1
  <2>3. /\ Len(saved') = Len(saved) + 1 /\ saved'[Len(saved) + 1] = cs
        /\ \A i \in 1 .. Len(saved) : saved'[i] = saved[i]
    BY ONLY <2>1, <2>2
  <2> QED BY <2>3
<1>4. /\ uncommitted'[n + 1] = tx
      /\ \A i \in 1 .. n : uncommitted'[i] = uncommitted[i]
  <2>1. uncommitted' = Append(uncommitted, tx)
    BY DEF AddTransaction
  <2>2. /\ uncommitted'[Len(uncommitted) + 1] = tx
        /\ \A i \in 1 .. Len(uncommitted) : uncommitted'[i] = uncommitted[i]
    BY <1>1, <2>1
  <2> QED BY <1>1, <2>2
<1>5. matches' = matches \/ matches' = matches \cup {tx}
  BY DEF AddTransaction
<1>6. MatchesBefore(n + 1)' = matches
  <2>1. {uncommitted'[j] : j \in n + 1 .. n + 1} = {tx}
    BY <1>1, <1>4
  <2> QED BY <1>2, <1>3, <1>5, <2>1 DEF MatchesBefore
<1>7. ASSUME NEW i \in 1 .. n
      PROVE  MatchesBefore(i)' = MatchesBefore(i)
  <2>1. {uncommitted'[j] : j \in i .. n + 1} = {uncommitted[j] : j \in i .. n} \cup {tx}
    <3>1. i .. n + 1 = (i .. n) \cup {n + 1}
      BY <1>1
    <3>2. \A j \in i .. n : uncommitted'[j] = uncommitted[j]
      BY <1>1, <1>4
    <3> QED BY <1>4, <3>1, <3>2
  <2> QED BY <1>2, <1>3, <1>5, <2>1 DEF MatchesBefore
<1> QED BY <1>3, <1>6, <1>7

\* Undoing the last transaction gives back the matches that were in force before.
LEMMA UndoneMatches ==
  ASSUME IInv, UndoLast
  PROVE  /\ Len(saved) > 0 /\ Len(saved') = Len(saved) - 1
         /\ cs' = saved[Len(saved)] /\ matches' = MatchesBefore(Len(saved))
         /\ \A i \in 1 .. Len(saved) - 1 : /\ saved'[i] = saved[i]
                                           /\ MatchesBefore(i)' = MatchesBefore(i)
<1> DEFINE n == Len(saved)
<1>1. /\ n \in Nat \ {0} /\ n = Len(uncommitted)
      /\ saved' = SubSeq(saved, 1, n - 1)
      /\ uncommitted' = SubSeq(uncommitted, 1, n - 1)
      /\ matches' = matches \ {uncommitted[n]}
  BY DEF IInv, TypeOK, UndoLast, LastTx
<1>2. cs' = saved[n]
  BY UndoLastExact
<1>3. Len(saved') = n - 1 /\ \A i \in 1 .. n - 1 : saved'[i] = saved[i]
  BY <1>1 DEF IInv, TypeOK
<1>4. \A i \in 1 .. n - 1 : uncommitted'[i] = uncommitted[i]
  BY <1>1 DEF IInv, TypeOK
<1>5. matches' = MatchesBefore(n)
  <2>1. {uncommitted[j] : j \in n .. n} = {uncommitted[n]}
    BY <1>1
  <2> QED BY <1>1, <2>1 DEF MatchesBefore
<1>6. ASSUME NEW i \in 1 .. n - 1
      PROVE  MatchesBefore(i)' = MatchesBefore(i)
  <2>1. {uncommitted[j] : j \in i .. n} = {uncommitted'[j] : j \in i .. n - 1} \cup {uncommitted[n]}
    <3>1. i .. n = (i .. n - 1) \cup {n}
      BY <1>1
    <3>2. \A j \in i .. n - 1 : uncommitted'[j] = uncommitted[j]
      BY <1>1, <1>4
    <3> QED BY <3>1, <3>2
  <2> QED BY <1>1, <1>3, <2>1 DEF MatchesBefore
<1> QED BY <1>1, <1>2, <1>3, <1>5, <1>6

\* The steps that touch neither the ledger, the list nor the matches.
LEMMA UnchangedAccounts ==
  ASSUME UNCHANGED <<cs, uncommitted, saved, matches>>
  PROVE  (AccountsInv => AccountsInv') /\ (PricesInv => PricesInv')
BY DEF AccountsInv, PricesInv, MatchesBefore

\* Every step keeps the accounts: one case for each action.
LEMMA NextAccounts ==
  ASSUME NoCancels, IInv, AccountsInv, [Next]_vars, [BetweenOnly]_vars
  PROVE  AccountsInv'
<1>1. ASSUME NEW tx \in Offered, AddTransaction(tx)
      PROVE  AccountsInv'
  <2> DEFINE n == Len(saved)
  <2>1. /\ n \in Nat /\ cs \in State /\ LedgerFiled(cs) /\ Accepted(cs, tx)
        /\ AccountsIn(cs, matches) /\ BetweenTokens(tx)
    <3>1. BetweenTokens(tx)
      BY <1>1, AddedBetween
    <3> QED BY <1>1, <3>1 DEF IInv, TypeOK, AccountsInv, AddTransaction
  <2>2. AccountsIn(cs', matches')
    BY <1>1, <2>1, StepKeepsAccounts DEF AddTransaction
  <2>3. /\ Len(saved') = n + 1
        /\ saved'[n + 1] = cs
        /\ \A i \in 1 .. n + 1 : i = n + 1 => MatchesBefore(i)' = matches
        /\ \A i \in 1 .. n : saved'[i] = saved[i] /\ MatchesBefore(i)' = MatchesBefore(i)
    BY <1>1, <2>1, AddedMatches
  <2>4. ASSUME NEW i \in 1 .. n + 1
        PROVE  AccountsIn(saved'[i], MatchesBefore(i)')
    <3>1. CASE i = n + 1
      BY <2>1, <2>3, <3>1
    <3>2. CASE i \in 1 .. n
      BY <2>3, <3>2 DEF AccountsInv
    <3> QED BY <2>1, <3>1, <3>2
  <2> QED BY <2>2, <2>3, <2>4 DEF AccountsInv
<1>2. ASSUME NEW tx \in Offered, RejectTransaction(tx)
      PROVE  AccountsInv'
  <2>1. UNCHANGED vars
    BY <1>2 DEF RejectTransaction, AfterRejected, NoCancels, vars
  <2> QED BY <2>1, UnchangedAccounts DEF vars
<1>3. CASE RollbackLast \/ UndoNext
  <2> DEFINE n == Len(saved)
  <2>1. n \in Nat
    BY DEF IInv, TypeOK
  <2>2. /\ n > 0 /\ Len(saved') = n - 1
        /\ cs' = saved[n] /\ matches' = MatchesBefore(n)
        /\ \A i \in 1 .. n - 1 : saved'[i] = saved[i] /\ MatchesBefore(i)' = MatchesBefore(i)
    BY <1>3, UndoneMatches DEF RollbackLast, UndoNext
  <2>3. AccountsIn(cs', matches')
    BY <2>1, <2>2 DEF AccountsInv
  <2>4. ASSUME NEW i \in 1 .. n - 1
        PROVE  AccountsIn(saved'[i], MatchesBefore(i)')
    BY <2>1, <2>2 DEF AccountsInv
  <2> QED BY <2>2, <2>3, <2>4 DEF AccountsInv
<1>4. CASE StartUndo \/ EndUndo \/ UNCHANGED vars
  <2>1. UNCHANGED <<cs, uncommitted, saved, matches>>
    BY <1>4 DEF StartUndo, EndUndo, vars
  <2> QED BY <2>1, UnchangedAccounts
<1>5. CASE DropList
  <2>1. cs' = cs /\ matches' = matches /\ Len(saved') = 0
    BY <1>5 DEF DropList
  <2> QED BY <2>1 DEF AccountsInv
<1> QED BY <1>1, <1>2, <1>3, <1>4, <1>5 DEF Next

\* Every match accepted is rounded to the right side.
RoundedInside ==
  \A tx \in Offered : AddTransaction(tx) /\ tx.type = "MATCH" => RoundedRight(cs, tx)

LEMMA AddedRounded ==
  ASSUME IInv, NEW tx \in Offered, AddTransaction(tx), tx.type = "MATCH",
         [RoundedInside]_vars
  PROVE  RoundedRight(cs, tx)
<1>1. uncommitted \in Seq(Offered) /\ uncommitted' = Append(uncommitted, tx)
  BY DEF IInv, TypeOK, AddTransaction
<1>2. Len(uncommitted') = Len(uncommitted) + 1 /\ Len(uncommitted) \in Nat
  BY <1>1
<1>3. uncommitted' # uncommitted
  BY <1>2
<1> QED BY <1>3 DEF RoundedInside, vars

\* Then every step keeps the orders within their limits.
LEMMA NextPrices ==
  ASSUME NoCancels, IInv, AccountsInv, PricesInv, [Next]_vars, [BetweenOnly]_vars,
         [RoundedInside]_vars
  PROVE  PricesInv'
<1>1. ASSUME NEW tx \in Offered, AddTransaction(tx)
      PROVE  PricesInv'
  <2> DEFINE n == Len(saved)
  <2>1. /\ n \in Nat /\ cs \in State /\ LedgerFiled(cs) /\ Accepted(cs, tx)
        /\ AccountsIn(cs, matches) /\ PricesIn(cs, matches) /\ BetweenTokens(tx)
        /\ tx.type = "MATCH" => RoundedRight(cs, tx)
    <3>1. BetweenTokens(tx)
      BY <1>1, AddedBetween
    <3>2. tx.type = "MATCH" => RoundedRight(cs, tx)
      BY <1>1, AddedRounded
    <3> QED BY <1>1, <3>1, <3>2 DEF IInv, TypeOK, AccountsInv, PricesInv, AddTransaction
  <2>2. PricesIn(cs', matches')
    BY <1>1, <2>1, StepKeepsPrices DEF AddTransaction
  <2>3. /\ Len(saved') = n + 1
        /\ saved'[n + 1] = cs
        /\ \A i \in 1 .. n + 1 : i = n + 1 => MatchesBefore(i)' = matches
        /\ \A i \in 1 .. n : saved'[i] = saved[i] /\ MatchesBefore(i)' = MatchesBefore(i)
    BY <1>1, <2>1, AddedMatches
  <2>4. ASSUME NEW i \in 1 .. n + 1
        PROVE  PricesIn(saved'[i], MatchesBefore(i)')
    <3>1. CASE i = n + 1
      BY <2>1, <2>3, <3>1
    <3>2. CASE i \in 1 .. n
      BY <2>3, <3>2 DEF PricesInv
    <3> QED BY <2>1, <3>1, <3>2
  <2> QED BY <2>2, <2>3, <2>4 DEF PricesInv
<1>2. ASSUME NEW tx \in Offered, RejectTransaction(tx)
      PROVE  PricesInv'
  <2>1. UNCHANGED vars
    BY <1>2 DEF RejectTransaction, AfterRejected, NoCancels, vars
  <2> QED BY <2>1, UnchangedAccounts DEF vars
<1>3. CASE RollbackLast \/ UndoNext
  <2> DEFINE n == Len(saved)
  <2>1. n \in Nat
    BY DEF IInv, TypeOK
  <2>2. /\ n > 0 /\ Len(saved') = n - 1
        /\ cs' = saved[n] /\ matches' = MatchesBefore(n)
        /\ \A i \in 1 .. n - 1 : saved'[i] = saved[i] /\ MatchesBefore(i)' = MatchesBefore(i)
    BY <1>3, UndoneMatches DEF RollbackLast, UndoNext
  <2>3. PricesIn(cs', matches')
    BY <2>1, <2>2 DEF PricesInv
  <2>4. ASSUME NEW i \in 1 .. n - 1
        PROVE  PricesIn(saved'[i], MatchesBefore(i)')
    BY <2>1, <2>2 DEF PricesInv
  <2> QED BY <2>2, <2>3, <2>4 DEF PricesInv
<1>4. CASE StartUndo \/ EndUndo \/ UNCHANGED vars
  <2>1. UNCHANGED <<cs, uncommitted, saved, matches>>
    BY <1>4 DEF StartUndo, EndUndo, vars
  <2> QED BY <2>1, UnchangedAccounts
<1>5. CASE DropList
  <2>1. cs' = cs /\ matches' = matches /\ Len(saved') = 0
    BY <1>5 DEF DropList
  <2> QED BY <2>1 DEF PricesInv
<1> QED BY <1>1, <1>2, <1>3, <1>4, <1>5 DEF Next

\* Both parts of the accounts hold in every reachable state.
LEMMA AccountsAlways ==
  ASSUME NoCancels
  PROVE  Spec /\ [][BetweenOnly]_vars => []AccountsInv
<1>1. Init => AccountsInv
  BY InitAccounts
<1>2. IInv /\ AccountsInv /\ [Next]_vars /\ [BetweenOnly]_vars => AccountsInv'
  BY NextAccounts
<1> QED BY <1>1, <1>2, Invariance, PTL DEF Spec

\* The prices need them.
LEMMA PricesAlways ==
  ASSUME NoCancels
  PROVE  Spec /\ [][BetweenOnly]_vars /\ [][RoundedInside]_vars => []PricesInv
<1>1. Init => PricesInv
  BY InitAccounts
<1>2. /\ IInv /\ AccountsInv /\ PricesInv
      /\ [Next]_vars /\ [BetweenOnly]_vars /\ [RoundedInside]_vars
      => PricesInv'
  BY NextPrices
<1> QED BY <1>1, <1>2, Invariance, AccountsAlways, PTL DEF Spec

-----------------------------------------------------------------------------
\* The counter of every order is the number of matches in force on it, and the
\* used match IDs are theirs, whatever was added, rejected, undone or dropped.
THEOREM CountersCountMatches ==
  ASSUME NoCancels
  PROVE  Spec /\ [][BetweenOnly]_vars => []UpdatesCountMatches
<1>1. AccountsInv => UpdatesCountMatches
  BY DEF AccountsInv, AccountsIn, UpdatesCountMatches
<1> QED BY <1>1, AccountsAlways, PTL

\* Only the match of a token with itself creates or destroys a token, which AddMatch
\* accepts from anyone: until one is accepted (and no cancel is offered), claims,
\* transfers, freezes, orders, matches of two tokens with all their refunds, and
\* the undos of these only move it.  In particular no addition of uint64 wraps,
\* although none is checked.
THEOREM TokensConserved ==
  ASSUME NoCancels
  PROVE  Spec /\ [][BetweenOnly]_vars => []Conservation
<1>1. AccountsInv => Conservation
  BY DEF AccountsInv, AccountsIn, Conservation
<1> QED BY <1>1, AccountsAlways, PTL

\* While a list is undone, the newest transaction can always be undone at once:
\* what a match credited is still unclaimed, an order has no updates left, and
\* its token exists.
THEOREM UndoCanProceed ==
  ASSUME NoCancels
  PROVE  Spec /\ [][BetweenOnly]_vars => []UndoNeverStops
<1>1. IInv /\ AccountsInv => UndoNeverStops
  <2> SUFFICES ASSUME IInv, AccountsInv, uncommitted # <<>>
               PROVE  Undoable(cs, LastTx)
    BY DEF UndoNeverStops
  <2> DEFINE n == Len(saved)
  <2>1. /\ n \in 1 .. Len(saved) /\ n = Len(uncommitted) /\ saved[n] \in State
        /\ LastTx \in Offered /\ BetweenTokens(LastTx)
    BY DEF IInv, TypeOK, LastTx, ListedBetween
  <2>2. /\ LedgerFiled(saved[n]) /\ Accepted(saved[n], LastTx)
        /\ cs = Applied(saved[n], LastTx)
    BY <2>1 DEF IInv, Traced, After, LastTx
  <2>3. AccountsIn(saved[n], MatchesBefore(n))
    BY <2>1 DEF AccountsInv
  <2> QED BY <2>1, <2>2, <2>3, StepKeepsAccounts
<1> QED BY <1>1, Invariance, AccountsAlways, PTL

\* An order trades at a price worse than its limit only by a match that is itself
\* rounded to the wrong side, for the price left to the order it fills: however the
\* prices are computed, partial fills rounded to the right side do not add up to a
\* worse price.
THEOREM LimitsRespected ==
  ASSUME NoCancels
  PROVE  Spec /\ [][BetweenOnly]_vars /\ [][RoundedInside]_vars => []LimitPriceRespected
<1>1. PricesInv => LimitPriceRespected
  BY DEF PricesInv, PricesIn, LimitPriceRespected
<1> QED BY <1>1, PricesAlways, PTL

=============================================================================
