----------------------------- MODULE Locking_proofs -----------------------------
(***************************************************************************)
(* Type correctness, mutual exclusion and the order of the locks of        *)
(* Locking, for any goroutines, any number of steps in a call and any      *)
(* number of restarts.                                                     *)
(***************************************************************************)
EXTENDS Locking, TLAPS

\* Who changes the chains has announced itself and no reader is left; a reader is
\* registered; who changes the lists holds their lock.
Holds(g) ==
  /\ pc[g] \in WritesChains => writer[bcs[g]] = g /\ readers[bcs[g]] = {}
  /\ pc[g] \in ReadsChains => g \in readers[bcs[g]]
  /\ pc[g] \in WritesLists => mempoolsLock[bcs[g]] = g

\* Only reconcileChain adds and removes blocks and reopens the database, and only
\* with reconcileMu: it is on the current Blockchains.
ReconcilesCurrent(g) ==
  /\ pc[g] \in {"reconcileMu", "compare", "comparing", "fetch", "lock", "locked",
               "lockLists", "undo", "change", "cleanup", "cleanupLists", "reopen"}
       => job[g] = "reconcileChain"
  /\ pc[g] \in {"apply", "applying", "applyLists", "applied"} => job[g] = "ApplyLoop"
  /\ pc[g] = "search" => job[g] \in {"reconcileChain", "ApplyLoop"}
  /\ pc[g] \in {"offer", "offerLists", "offering", "send"}
       => job[g] \in {"AddTransaction", "ApplyLoop", "reconcileChain"}
  /\ job[g] = "reconcileChain" /\ pc[g] \notin {"idle", "reconcileMu"}
       => reconcileMu = g /\ bcs[g] = current

\* A closed Blockchains is an earlier one, or the current one while its successor is
\* opened by the goroutine that keeps its locks.
ClosedIsPast ==
  /\ \A i \in closed : i <= current /\ mempoolsLock[i] \in Goroutines
  /\ current \in closed => pc[mempoolsLock[current]] = "reopen"

\* While nothing is spoiled, who holds mempoolsLock changes the lists or has closed the
\* Blockchains, and does not wait for chainsLock.
InOrder(g) ==
  /\ pc[g] = "reopen" => bcs[g] \in closed
  /\ \A i \in closed : mempoolsLock[i] = g /\ bcs[g] = i => pc[g] \in {"idle", "reopen"}
  /\ spoiled = {} =>
       /\ pc[g] # "nested"
       /\ pc[g] \in WaitsToRead \cup WaitsToWrite => mempoolsLock[bcs[g]] # g
       /\ \A i \in Instances : mempoolsLock[i] = g =>
            i \in closed \/ (pc[g] \in WritesLists /\ bcs[g] = i)

IInv ==
  /\ TypeOK
  /\ \A g \in Goroutines : Holds(g) /\ ReconcilesCurrent(g) /\ InOrder(g)
  /\ ClosedIsPast

\* The locks are free and every goroutine is idle at first.
LEMMA InitIInv == Init => IInv
<1> SUFFICES ASSUME Init PROVE IInv
  OBVIOUS
<1> USE LockingAssumption DEF Init
<1>0. 1 \in Instances /\ 0 \in 0 .. MaxSteps
  BY DEF Instances
<1>1. TypeOK
  BY <1>0 DEF TypeOK, Jobs, Places
<1>2. \A g \in Goroutines : Holds(g)
  BY DEF Holds, WritesChains, ReadsChains, WritesLists
<1>3. \A g \in Goroutines : ReconcilesCurrent(g)
  BY DEF ReconcilesCurrent
<1>4. \A g \in Goroutines : InOrder(g)
  BY DEF InOrder, WaitsToRead, WaitsToWrite, Instances
<1>5. ClosedIsPast
  BY DEF ClosedIsPast
<1>6. QED
  BY <1>1, <1>2, <1>3, <1>4, <1>5 DEF IInv

\* The types are kept.
LEMMA StepTypeOK ==
  ASSUME TypeOK, NEW g \in Goroutines, Step(g) \/ \E kind \in Jobs : Start(g, kind)
  PROVE  TypeOK'
<1> USE LockingAssumption
    DEF TypeOK, Jobs, Places, WaitsToRead, WaitsToWrite, ReadsChains, WritesChains, Go,
        TakeStep, NoLock, rest,
        Lock, Unlock, RLock, RUnlock, LockLists, UnlockLists
<1>1. CASE Announce(g)
  BY <1>1 DEF Announce
<1>2. CASE Read(g)
  BY <1>2 DEF Read
<1>3. CASE EndRead(g)
  BY <1>3 DEF EndRead
<1>4. CASE StartReconcile(g)
  BY <1>4 DEF StartReconcile
<1>5. CASE Compare(g)
  BY <1>5 DEF Compare
<1>6. CASE Compared(g)
  BY <1>6 DEF Compared
<1>7. CASE Fetched(g)
  BY <1>7 DEF Fetched
<1>8. CASE NoClient(g)
  BY <1>8 DEF NoClient
<1>9. CASE EndReconcile(g)
  BY <1>9 DEF EndReconcile
<1>10. CASE LockChains(g)
  BY <1>10 DEF LockChains
<1>11. CASE FindChain(g)
  BY <1>11 DEF FindChain
<1>12. CASE LockMempools(g)
  BY <1>12 DEF LockMempools
<1>13. CASE EndUndo(g)
  BY <1>13 DEF EndUndo
<1>14. CASE Cascade(g)
  BY <1>14 DEF Cascade
<1>15. CASE EndChange(g)
  BY <1>15 DEF EndChange
<1>16. CASE SearchInChange(g)
  BY <1>16 DEF SearchInChange
<1>17. CASE Panic(g)
  BY <1>17 DEF Panic
<1>18. CASE OfferMatch(g)
  BY <1>18 DEF OfferMatch
<1>19. CASE EndSearch(g)
  BY <1>19 DEF EndSearch
<1>20. CASE OfferLock(g)
  BY <1>20 DEF OfferLock
<1>21. CASE OfferLockMempools(g)
  BY <1>21 DEF OfferLockMempools
<1>22. CASE EndOffer(g)
  BY <1>22 DEF EndOffer
<1>23. CASE SearchInOffer(g)
  BY <1>23 DEF SearchInOffer
<1>24. CASE Send(g)
  BY <1>24 DEF Send
<1>25. CASE ApplyLock(g)
  BY <1>25 DEF ApplyLock
<1>26. CASE Ignore(g)
  BY <1>26 DEF Ignore
<1>27. CASE ApplyLockMempools(g)
  BY <1>27 DEF ApplyLockMempools
<1>28. CASE EndApply(g)
  BY <1>28 DEF EndApply
<1>29. CASE CleanupLock(g)
  BY <1>29 DEF CleanupLock
<1>30. CASE Cleanup(g)
  BY <1>30 DEF Cleanup
<1>31. CASE Reopen(g)
  BY <1>31 DEF Reopen, Instances
<1>32. CASE EndPeek(g)
  BY <1>32 DEF EndPeek
<1>33. CASE EndBook(g)
  BY <1>33 DEF EndBook
<1>34. CASE \E kind \in Jobs : Start(g, kind)
  BY <1>34 DEF Start
<1>35. QED
  BY <1>1, <1>2, <1>3, <1>4, <1>5, <1>6, <1>7, <1>8, <1>9, <1>10, <1>11, <1>12, <1>13,
     <1>14, <1>15, <1>16, <1>17, <1>18, <1>19, <1>20, <1>21, <1>22, <1>23, <1>24,
     <1>25, <1>26, <1>27, <1>28, <1>29, <1>30, <1>31, <1>32, <1>33, <1>34
  DEF Step, Reconcile, Change, Offer, Apply, Retry

\* Every step keeps the locks with those who use them.
LEMMA StepHolds ==
  ASSUME IInv, NEW g \in Goroutines, Step(g) \/ \E kind \in Jobs : Start(g, kind),
         NEW h \in Goroutines
  PROVE  Holds(h)'
<1> USE LockingAssumption
    DEF IInv, Holds, WritesChains, ReadsChains, WritesLists, WaitsToRead, WaitsToWrite,
        Go, TakeStep, NoLock, rest,
        Lock, Unlock, RLock, RUnlock, LockLists, UnlockLists
<1>0. TypeOK
  OBVIOUS
<1>1. CASE Announce(g)
  BY <1>0, <1>1 DEF Announce, TypeOK
<1>2. CASE Read(g)
  BY <1>0, <1>2 DEF Read, TypeOK
<1>3. CASE EndRead(g)
  BY <1>0, <1>3 DEF EndRead, TypeOK
<1>4. CASE StartReconcile(g)
  BY <1>0, <1>4 DEF StartReconcile, TypeOK
<1>5. CASE Compare(g)
  BY <1>0, <1>5 DEF Compare, TypeOK
<1>6. CASE Compared(g)
  BY <1>0, <1>6 DEF Compared, TypeOK
<1>7. CASE Fetched(g)
  BY <1>0, <1>7 DEF Fetched, TypeOK
<1>8. CASE NoClient(g)
  BY <1>0, <1>8 DEF NoClient, TypeOK
<1>9. CASE EndReconcile(g)
  BY <1>0, <1>9 DEF EndReconcile, TypeOK
<1>10. CASE LockChains(g)
  BY <1>0, <1>10 DEF LockChains, TypeOK
<1>11. CASE FindChain(g)
  BY <1>0, <1>11 DEF FindChain, TypeOK
<1>12. CASE LockMempools(g)
  BY <1>0, <1>12 DEF LockMempools, TypeOK
<1>13. CASE EndUndo(g)
  BY <1>0, <1>13 DEF EndUndo, TypeOK
<1>14. CASE Cascade(g)
  BY <1>0, <1>14 DEF Cascade, TypeOK
<1>15. CASE EndChange(g)
  BY <1>0, <1>15 DEF EndChange, TypeOK
<1>16. CASE SearchInChange(g)
  BY <1>0, <1>16 DEF SearchInChange, TypeOK
<1>17. CASE Panic(g)
  BY <1>0, <1>17 DEF Panic, TypeOK
<1>18. CASE OfferMatch(g)
  BY <1>0, <1>18 DEF OfferMatch, TypeOK
<1>19. CASE EndSearch(g)
  BY <1>0, <1>19 DEF EndSearch, TypeOK
<1>20. CASE OfferLock(g)
  BY <1>0, <1>20 DEF OfferLock, TypeOK
<1>21. CASE OfferLockMempools(g)
  BY <1>0, <1>21 DEF OfferLockMempools, TypeOK
<1>22. CASE EndOffer(g)
  BY <1>0, <1>22 DEF EndOffer, TypeOK
<1>23. CASE SearchInOffer(g)
  BY <1>0, <1>23 DEF SearchInOffer, TypeOK
<1>24. CASE Send(g)
  BY <1>0, <1>24 DEF Send, TypeOK
<1>25. CASE ApplyLock(g)
  BY <1>0, <1>25 DEF ApplyLock, TypeOK
<1>26. CASE Ignore(g)
  BY <1>0, <1>26 DEF Ignore, TypeOK
<1>27. CASE ApplyLockMempools(g)
  BY <1>0, <1>27 DEF ApplyLockMempools, TypeOK
<1>28. CASE EndApply(g)
  BY <1>0, <1>28 DEF EndApply, TypeOK
<1>29. CASE CleanupLock(g)
  BY <1>0, <1>29 DEF CleanupLock, TypeOK
<1>30. CASE Cleanup(g)
  BY <1>0, <1>30 DEF Cleanup, TypeOK
<1>31. CASE Reopen(g)
  BY <1>0, <1>31 DEF Reopen, TypeOK
<1>32. CASE EndPeek(g)
  BY <1>0, <1>32 DEF EndPeek, TypeOK
<1>33. CASE EndBook(g)
  BY <1>0, <1>33 DEF EndBook, TypeOK
<1>34. CASE \E kind \in Jobs : Start(g, kind)
  BY <1>0, <1>34 DEF Start, TypeOK
<1>35. QED
  BY <1>1, <1>2, <1>3, <1>4, <1>5, <1>6, <1>7, <1>8, <1>9, <1>10, <1>11, <1>12, <1>13,
     <1>14, <1>15, <1>16, <1>17, <1>18, <1>19, <1>20, <1>21, <1>22, <1>23, <1>24,
     <1>25, <1>26, <1>27, <1>28, <1>29, <1>30, <1>31, <1>32, <1>33, <1>34
  DEF Step, Reconcile, Change, Offer, Apply, Retry

\* Every step keeps reconcileMu with who reconciles.
LEMMA StepReconcilesCurrent ==
  ASSUME IInv, NEW g \in Goroutines, Step(g) \/ \E kind \in Jobs : Start(g, kind),
         NEW h \in Goroutines
  PROVE  ReconcilesCurrent(h)'
<1> USE LockingAssumption
    DEF IInv, ReconcilesCurrent, WaitsToWrite, Go, TakeStep, NoLock, rest,
        Lock, Unlock, RLock, RUnlock, LockLists, UnlockLists
<1>0. TypeOK
  OBVIOUS
<1>1. CASE Announce(g)
  BY <1>0, <1>1 DEF Announce, TypeOK, Jobs
<1>2. CASE Read(g)
  BY <1>0, <1>2 DEF Read, TypeOK, Jobs
<1>3. CASE EndRead(g)
  BY <1>0, <1>3 DEF EndRead, TypeOK, Jobs
<1>4. CASE StartReconcile(g)
  BY <1>0, <1>4 DEF StartReconcile, TypeOK, Jobs
<1>5. CASE Compare(g)
  BY <1>0, <1>5 DEF Compare, TypeOK, Jobs
<1>6. CASE Compared(g)
  BY <1>0, <1>6 DEF Compared, TypeOK, Jobs
<1>7. CASE Fetched(g)
  BY <1>0, <1>7 DEF Fetched, TypeOK, Jobs
<1>8. CASE NoClient(g)
  BY <1>0, <1>8 DEF NoClient, TypeOK, Jobs
<1>9. CASE EndReconcile(g)
  BY <1>0, <1>9 DEF EndReconcile, TypeOK, Jobs
<1>10. CASE LockChains(g)
  BY <1>0, <1>10 DEF LockChains, TypeOK, Jobs
<1>11. CASE FindChain(g)
  BY <1>0, <1>11 DEF FindChain, TypeOK, Jobs
<1>12. CASE LockMempools(g)
  BY <1>0, <1>12 DEF LockMempools, TypeOK, Jobs
<1>13. CASE EndUndo(g)
  BY <1>0, <1>13 DEF EndUndo, TypeOK, Jobs
<1>14. CASE Cascade(g)
  BY <1>0, <1>14 DEF Cascade, TypeOK, Jobs
<1>15. CASE EndChange(g)
  BY <1>0, <1>15 DEF EndChange, TypeOK, Jobs
<1>16. CASE SearchInChange(g)
  BY <1>0, <1>16 DEF SearchInChange, TypeOK, Jobs
<1>17. CASE Panic(g)
  BY <1>0, <1>17 DEF Panic, TypeOK, Jobs
<1>18. CASE OfferMatch(g)
  BY <1>0, <1>18 DEF OfferMatch, TypeOK, Jobs
<1>19. CASE EndSearch(g)
  BY <1>0, <1>19 DEF EndSearch, TypeOK, Jobs
<1>20. CASE OfferLock(g)
  BY <1>0, <1>20 DEF OfferLock, TypeOK, Jobs
<1>21. CASE OfferLockMempools(g)
  BY <1>0, <1>21 DEF OfferLockMempools, TypeOK, Jobs
<1>22. CASE EndOffer(g)
  BY <1>0, <1>22 DEF EndOffer, TypeOK, Jobs
<1>23. CASE SearchInOffer(g)
  BY <1>0, <1>23 DEF SearchInOffer, TypeOK, Jobs
<1>24. CASE Send(g)
  BY <1>0, <1>24 DEF Send, TypeOK, Jobs
<1>25. CASE ApplyLock(g)
  BY <1>0, <1>25 DEF ApplyLock, TypeOK, Jobs
<1>26. CASE Ignore(g)
  BY <1>0, <1>26 DEF Ignore, TypeOK, Jobs
<1>27. CASE ApplyLockMempools(g)
  BY <1>0, <1>27 DEF ApplyLockMempools, TypeOK, Jobs
<1>28. CASE EndApply(g)
  BY <1>0, <1>28 DEF EndApply, TypeOK, Jobs
<1>29. CASE CleanupLock(g)
  BY <1>0, <1>29 DEF CleanupLock, TypeOK, Jobs
<1>30. CASE Cleanup(g)
  BY <1>0, <1>30 DEF Cleanup, TypeOK, Jobs
<1>31. CASE Reopen(g)
  BY <1>0, <1>31 DEF Reopen, TypeOK, Jobs
<1>32. CASE EndPeek(g)
  BY <1>0, <1>32 DEF EndPeek, TypeOK, Jobs
<1>33. CASE EndBook(g)
  BY <1>0, <1>33 DEF EndBook, TypeOK, Jobs
<1>34. CASE \E kind \in Jobs : Start(g, kind)
  BY <1>0, <1>34 DEF Start, TypeOK, Jobs
<1>35. QED
  BY <1>1, <1>2, <1>3, <1>4, <1>5, <1>6, <1>7, <1>8, <1>9, <1>10, <1>11, <1>12, <1>13,
     <1>14, <1>15, <1>16, <1>17, <1>18, <1>19, <1>20, <1>21, <1>22, <1>23, <1>24,
     <1>25, <1>26, <1>27, <1>28, <1>29, <1>30, <1>31, <1>32, <1>33, <1>34
  DEF Step, Reconcile, Change, Offer, Apply, Retry

\* Every step keeps the locks in order.
LEMMA StepInOrder ==
  ASSUME IInv, NEW g \in Goroutines, Step(g) \/ \E kind \in Jobs : Start(g, kind),
         NEW h \in Goroutines
  PROVE  InOrder(h)'
<1> USE LockingAssumption
    DEF IInv, Holds, InOrder, ReconcilesCurrent, ClosedIsPast, WritesLists,
       WaitsToRead, WaitsToWrite,
        WritesChains, Go, TakeStep, NoLock, rest,
        Lock, Unlock, RLock, RUnlock, LockLists, UnlockLists
<1>0. TypeOK
  OBVIOUS
<1>1. CASE Announce(g)
  BY <1>0, <1>1 DEF Announce, TypeOK
<1>2. CASE Read(g)
  BY <1>0, <1>2 DEF Read, TypeOK
<1>3. CASE EndRead(g)
  BY <1>0, <1>3 DEF EndRead, TypeOK
<1>4. CASE StartReconcile(g)
  BY <1>0, <1>4 DEF StartReconcile, TypeOK
<1>5. CASE Compare(g)
  BY <1>0, <1>5 DEF Compare, TypeOK
<1>6. CASE Compared(g)
  BY <1>0, <1>6 DEF Compared, TypeOK
<1>7. CASE Fetched(g)
  BY <1>0, <1>7 DEF Fetched, TypeOK
<1>8. CASE NoClient(g)
  BY <1>0, <1>8 DEF NoClient, TypeOK
<1>9. CASE EndReconcile(g)
  BY <1>0, <1>9 DEF EndReconcile, TypeOK
<1>10. CASE LockChains(g)
  BY <1>0, <1>10 DEF LockChains, TypeOK
<1>11. CASE FindChain(g)
  BY <1>0, <1>11 DEF FindChain, TypeOK
<1>12. CASE LockMempools(g)
  BY <1>0, <1>12 DEF LockMempools, TypeOK
<1>13. CASE EndUndo(g)
  BY <1>0, <1>13 DEF EndUndo, TypeOK
<1>14. CASE Cascade(g)
  BY <1>0, <1>14 DEF Cascade, TypeOK
<1>15. CASE EndChange(g)
  BY <1>0, <1>15 DEF EndChange, TypeOK
<1>16. CASE SearchInChange(g)
  BY <1>0, <1>16 DEF SearchInChange, TypeOK
<1>17. CASE Panic(g)
  <2>1. (pc[h] = "reopen" => bcs[h] \in closed)'
    BY <1>0, <1>17 DEF Panic, TypeOK
  <2>0. (\A i \in closed : mempoolsLock[i] = h /\ bcs[h] = i
                          => pc[h] \in {"idle", "reopen"})'
    BY <1>0, <1>17 DEF Panic, TypeOK
  <2>2. ASSUME (spoiled = {})'
        PROVE  (pc[h] # "nested")'
    BY <1>0, <1>17, <2>2 DEF Panic, TypeOK
  <2>3. ASSUME (spoiled = {})', (pc[h] \in WaitsToRead \cup WaitsToWrite)'
        PROVE  (mempoolsLock[bcs[h]] # h)'
    BY <1>0, <1>17, <2>3 DEF Panic, TypeOK
  <2>4. ASSUME (spoiled = {})', NEW i \in Instances, (mempoolsLock[i] = h)'
        PROVE  (i \in closed \/ (pc[h] \in WritesLists /\ bcs[h] = i))'
    <3>1. spoiled = {} /\ pc[g] = "change" /\ UNCHANGED <<mempoolsLock, closed, bcs>>
      BY <1>0, <1>17, <2>4 DEF Panic, TypeOK
    <3>2. i \in closed \/ (pc[h] \in WritesLists /\ bcs[h] = i)
      BY <3>1, <2>4 DEF InOrder
    <3>3. h # g \/ i \in closed
      BY <3>1, <3>2
    <3>4. QED
      BY <3>1, <3>2, <3>3, <1>0, <1>17 DEF Panic, TypeOK
  <2>5. QED
    BY <2>0, <2>1, <2>2, <2>3, <2>4
<1>18. CASE OfferMatch(g)
  <2>1. (pc[h] = "reopen" => bcs[h] \in closed)'
    BY <1>0, <1>18 DEF OfferMatch, TypeOK
  <2>0. (\A i \in closed : mempoolsLock[i] = h /\ bcs[h] = i
                          => pc[h] \in {"idle", "reopen"})'
    BY <1>0, <1>18 DEF OfferMatch, TypeOK
  <2>2. ASSUME (spoiled = {})'
        PROVE  (pc[h] # "nested")'
    BY <1>0, <1>18, <2>2 DEF OfferMatch, TypeOK
  <2>3. ASSUME (spoiled = {})', (pc[h] \in WaitsToRead \cup WaitsToWrite)'
        PROVE  (mempoolsLock[bcs[h]] # h)'
    BY <1>0, <1>18, <2>3 DEF OfferMatch, TypeOK
  <2>4. ASSUME (spoiled = {})', NEW i \in Instances, (mempoolsLock[i] = h)'
        PROVE  (i \in closed \/ (pc[h] \in WritesLists /\ bcs[h] = i))'
    BY <1>0, <1>18, <2>4 DEF OfferMatch, TypeOK
  <2>5. QED
    BY <2>0, <2>1, <2>2, <2>3, <2>4
<1>19. CASE EndSearch(g)
  <2>1. (pc[h] = "reopen" => bcs[h] \in closed)'
    BY <1>0, <1>19 DEF EndSearch, TypeOK
  <2>0. (\A i \in closed : mempoolsLock[i] = h /\ bcs[h] = i
                          => pc[h] \in {"idle", "reopen"})'
    BY <1>0, <1>19 DEF EndSearch, TypeOK
  <2>2. ASSUME (spoiled = {})'
        PROVE  (pc[h] # "nested")'
    BY <1>0, <1>19, <2>2 DEF EndSearch, TypeOK
  <2>3. ASSUME (spoiled = {})', (pc[h] \in WaitsToRead \cup WaitsToWrite)'
        PROVE  (mempoolsLock[bcs[h]] # h)'
    BY <1>0, <1>19, <2>3 DEF EndSearch, TypeOK
  <2>4. ASSUME (spoiled = {})', NEW i \in Instances, (mempoolsLock[i] = h)'
        PROVE  (i \in closed \/ (pc[h] \in WritesLists /\ bcs[h] = i))'
    BY <1>0, <1>19, <2>4 DEF EndSearch, TypeOK
  <2>5. QED
    BY <2>0, <2>1, <2>2, <2>3, <2>4
<1>20. CASE OfferLock(g)
  BY <1>0, <1>20 DEF OfferLock, TypeOK
<1>21. CASE OfferLockMempools(g)
  <2>1. (pc[h] = "reopen" => bcs[h] \in closed)'
    BY <1>0, <1>21 DEF OfferLockMempools, TypeOK
  <2>0. (\A i \in closed : mempoolsLock[i] = h /\ bcs[h] = i
                          => pc[h] \in {"idle", "reopen"})'
    BY <1>0, <1>21 DEF OfferLockMempools, TypeOK
  <2>2. ASSUME (spoiled = {})'
        PROVE  (pc[h] # "nested")'
    BY <1>0, <1>21, <2>2 DEF OfferLockMempools, TypeOK
  <2>3. ASSUME (spoiled = {})', (pc[h] \in WaitsToRead \cup WaitsToWrite)'
        PROVE  (mempoolsLock[bcs[h]] # h)'
    BY <1>0, <1>21, <2>3 DEF OfferLockMempools, TypeOK
  <2>4. ASSUME (spoiled = {})', NEW i \in Instances, (mempoolsLock[i] = h)'
        PROVE  (i \in closed \/ (pc[h] \in WritesLists /\ bcs[h] = i))'
    BY <1>0, <1>21, <2>4 DEF OfferLockMempools, TypeOK
  <2>5. QED
    BY <2>0, <2>1, <2>2, <2>3, <2>4
<1>22. CASE EndOffer(g)
  BY <1>0, <1>22 DEF EndOffer, TypeOK
<1>23. CASE SearchInOffer(g)
  BY <1>0, <1>23 DEF SearchInOffer, TypeOK
<1>24. CASE Send(g)
  BY <1>0, <1>24 DEF Send, TypeOK
<1>25. CASE ApplyLock(g)
  BY <1>0, <1>25 DEF ApplyLock, TypeOK
<1>26. CASE Ignore(g)
  <2>1. (pc[h] = "reopen" => bcs[h] \in closed)'
    BY <1>0, <1>26 DEF Ignore, TypeOK
  <2>0. (\A i \in closed : mempoolsLock[i] = h /\ bcs[h] = i
                          => pc[h] \in {"idle", "reopen"})'
    BY <1>0, <1>26 DEF Ignore, TypeOK
  <2>2. ASSUME (spoiled = {})'
        PROVE  (pc[h] # "nested")'
    BY <1>0, <1>26, <2>2 DEF Ignore, TypeOK
  <2>3. ASSUME (spoiled = {})', (pc[h] \in WaitsToRead \cup WaitsToWrite)'
        PROVE  (mempoolsLock[bcs[h]] # h)'
    BY <1>0, <1>26, <2>3 DEF Ignore, TypeOK
  <2>4. ASSUME (spoiled = {})', NEW i \in Instances, (mempoolsLock[i] = h)'
        PROVE  (i \in closed \/ (pc[h] \in WritesLists /\ bcs[h] = i))'
    BY <1>0, <1>26, <2>4 DEF Ignore, TypeOK
  <2>5. QED
    BY <2>0, <2>1, <2>2, <2>3, <2>4
<1>27. CASE ApplyLockMempools(g)
  <2>1. (pc[h] = "reopen" => bcs[h] \in closed)'
    BY <1>0, <1>27 DEF ApplyLockMempools, TypeOK
  <2>0. (\A i \in closed : mempoolsLock[i] = h /\ bcs[h] = i
                          => pc[h] \in {"idle", "reopen"})'
    BY <1>0, <1>27 DEF ApplyLockMempools, TypeOK
  <2>2. ASSUME (spoiled = {})'
        PROVE  (pc[h] # "nested")'
    BY <1>0, <1>27, <2>2 DEF ApplyLockMempools, TypeOK
  <2>3. ASSUME (spoiled = {})', (pc[h] \in WaitsToRead \cup WaitsToWrite)'
        PROVE  (mempoolsLock[bcs[h]] # h)'
    BY <1>0, <1>27, <2>3 DEF ApplyLockMempools, TypeOK
  <2>4. ASSUME (spoiled = {})', NEW i \in Instances, (mempoolsLock[i] = h)'
        PROVE  (i \in closed \/ (pc[h] \in WritesLists /\ bcs[h] = i))'
    BY <1>0, <1>27, <2>4 DEF ApplyLockMempools, TypeOK
  <2>5. QED
    BY <2>0, <2>1, <2>2, <2>3, <2>4
<1>28. CASE EndApply(g)
  BY <1>0, <1>28 DEF EndApply, TypeOK
<1>29. CASE CleanupLock(g)
  BY <1>0, <1>29 DEF CleanupLock, TypeOK
<1>30. CASE Cleanup(g)
  BY <1>0, <1>30 DEF Cleanup, TypeOK
<1>31. CASE Reopen(g)
  BY <1>0, <1>31 DEF Reopen, TypeOK
<1>32. CASE EndPeek(g)
  BY <1>0, <1>32 DEF EndPeek, TypeOK
<1>33. CASE EndBook(g)
  BY <1>0, <1>33 DEF EndBook, TypeOK
<1>34. CASE \E kind \in Jobs : Start(g, kind)
  BY <1>0, <1>34 DEF Start, TypeOK
<1>35. QED
  BY <1>1, <1>2, <1>3, <1>4, <1>5, <1>6, <1>7, <1>8, <1>9, <1>10, <1>11, <1>12, <1>13,
     <1>14, <1>15, <1>16, <1>17, <1>18, <1>19, <1>20, <1>21, <1>22, <1>23, <1>24,
     <1>25, <1>26, <1>27, <1>28, <1>29, <1>30, <1>31, <1>32, <1>33, <1>34
  DEF Step, Reconcile, Change, Offer, Apply, Retry

\* Every step keeps closed Blockchains in the past.
LEMMA StepClosedIsPast ==
  ASSUME IInv, NEW g \in Goroutines, Step(g) \/ \E kind \in Jobs : Start(g, kind)
  PROVE  ClosedIsPast'
<1> USE LockingAssumption
    DEF IInv, Holds, ReconcilesCurrent, ClosedIsPast, InOrder, WritesLists,
        WaitsToWrite, Go, TakeStep, NoLock, rest,
        Lock, Unlock, RLock, RUnlock, LockLists, UnlockLists
<1>0. TypeOK
  OBVIOUS
<1>1. CASE Announce(g)
  BY <1>0, <1>1 DEF Announce, TypeOK
<1>2. CASE Read(g)
  BY <1>0, <1>2 DEF Read, TypeOK
<1>3. CASE EndRead(g)
  BY <1>0, <1>3 DEF EndRead, TypeOK
<1>4. CASE StartReconcile(g)
  BY <1>0, <1>4 DEF StartReconcile, TypeOK
<1>5. CASE Compare(g)
  BY <1>0, <1>5 DEF Compare, TypeOK
<1>6. CASE Compared(g)
  BY <1>0, <1>6 DEF Compared, TypeOK
<1>7. CASE Fetched(g)
  BY <1>0, <1>7 DEF Fetched, TypeOK
<1>8. CASE NoClient(g)
  BY <1>0, <1>8 DEF NoClient, TypeOK
<1>9. CASE EndReconcile(g)
  BY <1>0, <1>9 DEF EndReconcile, TypeOK
<1>10. CASE LockChains(g)
  BY <1>0, <1>10 DEF LockChains, TypeOK
<1>11. CASE FindChain(g)
  <2>1. (\A i \in closed : i <= current /\ mempoolsLock[i] \in Goroutines)'
    <3>1. closed' \subseteq closed \cup {current} /\ current' = current
      BY <1>0, <1>11 DEF FindChain, TypeOK
    <3>2. current \in Nat
      BY <1>0 DEF TypeOK, Instances
    <3>3. (\A i \in closed : mempoolsLock[i] \in Goroutines)'
      BY <1>0, <1>11 DEF FindChain, TypeOK
    <3>4. QED
      BY <3>1, <3>2, <3>3
  <2>2. ASSUME (current \in closed)'
        PROVE  (pc[mempoolsLock[current]] = "reopen")'
    BY <1>0, <1>11, <2>2 DEF FindChain, TypeOK
  <2>3. QED
    BY <2>1, <2>2
<1>12. CASE LockMempools(g)
  BY <1>0, <1>12 DEF LockMempools, TypeOK
<1>13. CASE EndUndo(g)
  BY <1>0, <1>13 DEF EndUndo, TypeOK
<1>14. CASE Cascade(g)
  BY <1>0, <1>14 DEF Cascade, TypeOK
<1>15. CASE EndChange(g)
  BY <1>0, <1>15 DEF EndChange, TypeOK
<1>16. CASE SearchInChange(g)
  BY <1>0, <1>16 DEF SearchInChange, TypeOK
<1>17. CASE Panic(g)
  BY <1>0, <1>17 DEF Panic, TypeOK
<1>18. CASE OfferMatch(g)
  BY <1>0, <1>18 DEF OfferMatch, TypeOK
<1>19. CASE EndSearch(g)
  BY <1>0, <1>19 DEF EndSearch, TypeOK
<1>20. CASE OfferLock(g)
  BY <1>0, <1>20 DEF OfferLock, TypeOK
<1>21. CASE OfferLockMempools(g)
  BY <1>0, <1>21 DEF OfferLockMempools, TypeOK
<1>22. CASE EndOffer(g)
  BY <1>0, <1>22 DEF EndOffer, TypeOK
<1>23. CASE SearchInOffer(g)
  BY <1>0, <1>23 DEF SearchInOffer, TypeOK
<1>24. CASE Send(g)
  BY <1>0, <1>24 DEF Send, TypeOK
<1>25. CASE ApplyLock(g)
  BY <1>0, <1>25 DEF ApplyLock, TypeOK
<1>26. CASE Ignore(g)
  BY <1>0, <1>26 DEF Ignore, TypeOK
<1>27. CASE ApplyLockMempools(g)
  <2>1. (\A i \in closed : i <= current /\ mempoolsLock[i] \in Goroutines)'
    <3>1. closed' \subseteq closed \cup {current} /\ current' = current
      BY <1>0, <1>27 DEF ApplyLockMempools, TypeOK
    <3>2. current \in Nat
      BY <1>0 DEF TypeOK, Instances
    <3>3. (\A i \in closed : mempoolsLock[i] \in Goroutines)'
      BY <1>0, <1>27 DEF ApplyLockMempools, TypeOK
    <3>4. QED
      BY <3>1, <3>2, <3>3
  <2>2. ASSUME (current \in closed)'
        PROVE  (pc[mempoolsLock[current]] = "reopen")'
    BY <1>0, <1>27, <2>2 DEF ApplyLockMempools, TypeOK
  <2>3. QED
    BY <2>1, <2>2
<1>28. CASE EndApply(g)
  BY <1>0, <1>28 DEF EndApply, TypeOK
<1>29. CASE CleanupLock(g)
  BY <1>0, <1>29 DEF CleanupLock, TypeOK
<1>30. CASE Cleanup(g)
  <2>1. (\A i \in closed : i <= current /\ mempoolsLock[i] \in Goroutines)'
    <3>1. closed' \subseteq closed \cup {current} /\ current' = current
      BY <1>0, <1>30 DEF Cleanup, TypeOK
    <3>2. current \in Nat
      BY <1>0 DEF TypeOK, Instances
    <3>3. (\A i \in closed : mempoolsLock[i] \in Goroutines)'
      BY <1>0, <1>30 DEF Cleanup, TypeOK
    <3>4. QED
      BY <3>1, <3>2, <3>3
  <2>2. ASSUME (current \in closed)'
        PROVE  (pc[mempoolsLock[current]] = "reopen")'
    BY <1>0, <1>30, <2>2 DEF Cleanup, TypeOK
  <2>3. QED
    BY <2>1, <2>2
<1>31. CASE Reopen(g)
  <2>1. current' = current + 1 /\ UNCHANGED <<closed, mempoolsLock>>
    BY <1>0, <1>31 DEF Reopen, TypeOK
  <2>2. current \in Nat /\ \A i \in closed : i \in Nat /\ i <= current
    BY <1>0 DEF TypeOK, Instances
  <2>3. \A i \in closed : i <= current + 1 /\ i # current + 1
    BY <2>2
  <2>4. QED
    BY <2>1, <2>3
<1>32. CASE EndPeek(g)
  BY <1>0, <1>32 DEF EndPeek, TypeOK
<1>33. CASE EndBook(g)
  BY <1>0, <1>33 DEF EndBook, TypeOK
<1>34. CASE \E kind \in Jobs : Start(g, kind)
  BY <1>0, <1>34 DEF Start, TypeOK
<1>35. QED
  BY <1>1, <1>2, <1>3, <1>4, <1>5, <1>6, <1>7, <1>8, <1>9, <1>10, <1>11, <1>12, <1>13,
     <1>14, <1>15, <1>16, <1>17, <1>18, <1>19, <1>20, <1>21, <1>22, <1>23, <1>24,
     <1>25, <1>26, <1>27, <1>28, <1>29, <1>30, <1>31, <1>32, <1>33, <1>34
  DEF Step, Reconcile, Change, Offer, Apply, Retry

\* The invariant is inductive.
LEMMA NextIInv == IInv /\ [Next]_vars => IInv'
<1> SUFFICES ASSUME IInv, [Next]_vars PROVE IInv'
  OBVIOUS
<1>1. CASE Next
  <2>0. CASE \E g, h \in Goroutines : Race(g, h)
    BY <2>0
    DEF Race, NoLock, IInv, TypeOK, Holds, ReconcilesCurrent, InOrder, ClosedIsPast
  <2> SUFFICES ASSUME \E g \in Goroutines : Step(g) \/ \E kind \in Jobs : Start(g, kind)
               PROVE  IInv'
    BY <1>1, <2>0, LockingAssumption DEF Next
  <2>1. PICK g \in Goroutines : Step(g) \/ \E kind \in Jobs : Start(g, kind)
    OBVIOUS
  <2>2. TypeOK'
    BY <2>1, StepTypeOK DEF IInv
  <2>3. \A h \in Goroutines : Holds(h)'
    BY <2>1, StepHolds
  <2>4. \A h \in Goroutines : ReconcilesCurrent(h)'
    BY <2>1, StepReconcilesCurrent
  <2>5. \A h \in Goroutines : InOrder(h)'
    BY <2>1, StepInOrder
  <2>6. ClosedIsPast'
    BY <2>1, StepClosedIsPast
  <2>7. QED
    BY <2>2, <2>3, <2>4, <2>5, <2>6 DEF IInv
<1>2. CASE UNCHANGED vars
  BY <1>2
  DEF vars, IInv, TypeOK, Holds, ReconcilesCurrent, InOrder, ClosedIsPast
<1>3. QED
  BY <1>1, <1>2

LEMMA IInvHolds == Spec => []IInv
BY InitIInv, NextIInv, PTL DEF Spec

\* The variables keep their types.
THEOREM TypeCorrect == Spec => []TypeOK
<1>1. IInv => TypeOK
  BY DEF IInv
<1>2. QED
  BY IInvHolds, <1>1, PTL

\* Who changes the chains or the lists of a Blockchains is alone with them: the sections
\* under chainsLock exclude each other, as the other modules take them to.  Of the
\* ledger it says so only of goroutines that take the lock; Tx of a cancel (node.go:370)
\* reads it without, wherever another goroutine is.
THEOREM Exclusive == Spec => []ChainsAreExclusive
<1>1. IInv => ChainsAreExclusive
  BY LockingAssumption DEF IInv, TypeOK, Holds, ChainsAreExclusive, WritesChains,
     ReadsChains
<1>2. QED
  BY IInvHolds, <1>1, PTL

\* chainsLock is taken first, until a panic leaves mempoolsLock held or a creation
\* searches for matches under the locks.
THEOREM Ordered == Spec => []LockOrderUnlessSpoiled
<1>1. IInv => LockOrderUnlessSpoiled
  BY DEF IInv, InOrder, LockOrderUnlessSpoiled, LockOrder
<1>2. QED
  BY IInvHolds, <1>1, PTL

=============================================================================
