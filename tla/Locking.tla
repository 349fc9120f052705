-------------------------------- MODULE Locking --------------------------------
(***************************************************************************)
(* The locks of a node (blockchains.go, node.go, matcher.go): chainsLock,  *)
(* a read-write lock, and mempoolsLock, one of each for every Blockchains  *)
(* the node opens, and reconcileMu.  The other modules take a critical     *)
(* section as one step; here it is the steps that matter: which lock is    *)
(* taken while which is held, what a panic that reconcileChain recovers    *)
(* from leaves held, and what goroutines do without a lock: the maps of    *)
(* Go are fatal to the process when one goroutine writes one while another *)
(* uses it.  What is done under a lock is left out.                        *)
(***************************************************************************)
EXTENDS Naturals

CONSTANTS
  Goroutines,
  JobsOf,      \* what each of them is started for
  None,
  MaxSteps,    \* bound: blocks, cascades and matches in one call
  MaxRestarts  \* bound: times the node opens its database again

\* AddTransaction is AddTransactionToMempool for a client or peer, StartMining and the
\* goroutine it leaves behind: all take both locks, release them and send.
\* Read is GetHeights, GetBlockhashes, GetBlock, GetBalance and their like.  CancelOrder
\* is Tx with a cancel to sign, and like GetBook it takes no lock at first.
Jobs == {"reconcileChain", "AddTransaction", "ApplyLoop", "Read", "CancelOrder", "GetBook"}

ASSUME LockingAssumption ==
  /\ JobsOf \in [Goroutines -> SUBSET Jobs]
  /\ MaxSteps \in Nat
  /\ MaxRestarts \in Nat
  /\ None \notin Goroutines

VARIABLES
  writer,        \* of each chainsLock, who has it for writing, or is next to
  readers,       \* of each chainsLock, who has it for reading
  mempoolsLock,  \* of each Blockchains, its holder
  reconcileMu,   \* its holder
  current,       \* node.bcs
  closed,        \* the Blockchains that Cleanup has closed
  pc,            \* where each goroutine is
  job,           \* what it does
  bcs,           \* the Blockchains it works on
  steps,         \* how many more of MaxSteps it may take
  panicking,     \* the goroutines in reconcileChain that unwind
  spoiled,       \* the Blockchains with a lock that is not released any more
  crashed        \* the process is gone

vars == <<writer, readers, mempoolsLock, reconcileMu, current, closed, pc, job, bcs,
          steps, panicking, spoiled, crashed>>

Instances == 1 .. MaxRestarts + 1

\* Where a goroutine waits for chainsLock, and where it has it.
WaitsToRead == {"compare", "read"}
WaitsToWrite == {"lock", "offer", "apply", "cleanup"}
ReadsChains == {"comparing", "reading"}
WritesChains == {"locked", "lockLists", "undo", "change", "nested", "offerLists",
                 "offering", "applying", "applyLists", "applied", "cleanupLists",
                 "reopen"}
WritesLists == {"undo", "offering", "applied", "reopen"}
\* Who changes the maps of the ledger, and who uses or fills those of the books.
WritesLedger == {"undo", "change", "offering", "applied"}
WritesBooks == {"change", "applied", "book"}
Places == WaitsToRead \cup WaitsToWrite \cup ReadsChains \cup WritesChains
            \cup {"idle", "reconcileMu", "fetch", "search", "send", "peek", "book"}

TypeOK ==
  /\ writer \in [Instances -> Goroutines \cup {None}]
  /\ readers \in [Instances -> SUBSET Goroutines]
  /\ mempoolsLock \in [Instances -> Goroutines \cup {None}]
  /\ reconcileMu \in Goroutines \cup {None}
  /\ current \in Instances
  /\ closed \subseteq Instances
  /\ pc \in [Goroutines -> Places]
  /\ job \in [Goroutines -> Jobs]
  /\ bcs \in [Goroutines -> Instances]
  /\ steps \in [Goroutines -> 0 .. MaxSteps]
  /\ panicking \subseteq Goroutines
  /\ spoiled \subseteq Instances
  /\ crashed \in BOOLEAN

Init ==
  /\ writer = [i \in Instances |-> None]
  /\ readers = [i \in Instances |-> {}]
  /\ mempoolsLock = [i \in Instances |-> None]
  /\ reconcileMu = None
  /\ current = 1
  /\ closed = {}
  /\ pc = [g \in Goroutines |-> "idle"]
  /\ job = [g \in Goroutines |-> "Read"]
  /\ bcs = [g \in Goroutines |-> 1]
  /\ steps = [g \in Goroutines |-> 0]
  /\ panicking = {}
  /\ spoiled = {}
  /\ crashed = FALSE

-----------------------------------------------------------------------------
Go(g, from, to) == pc[g] = from /\ pc' = [pc EXCEPT ![g] = to]

\* Lock, Unlock, RLock and RUnlock of chainsLock, Lock and Unlock of mempoolsLock.
\* A writer first keeps new readers out, and then waits for those that are in.
Lock(g) ==
  /\ writer[bcs[g]] = g
  /\ readers[bcs[g]] = {}
  /\ UNCHANGED <<writer, readers>>
Unlock(g) ==
  /\ writer' = [writer EXCEPT ![bcs[g]] = None]
  /\ UNCHANGED readers
RLock(g) ==
  /\ writer[bcs[g]] = None
  /\ readers' = [readers EXCEPT ![bcs[g]] = @ \cup {g}]
  /\ UNCHANGED writer
RUnlock(g) ==
  /\ readers' = [readers EXCEPT ![bcs[g]] = @ \ {g}]
  /\ UNCHANGED writer

LockLists(g) ==
  /\ mempoolsLock[bcs[g]] = None
  /\ mempoolsLock' = [mempoolsLock EXCEPT ![bcs[g]] = g]
UnlockLists(g) == mempoolsLock' = [mempoolsLock EXCEPT ![bcs[g]] = None]

TakeStep(g) == steps[g] > 0 /\ steps' = [steps EXCEPT ![g] = @ - 1]

\* Of a goroutine, what a step of it within a call leaves alone.
rest == <<current, closed, job, bcs, panicking, spoiled, crashed>>
NoLock == UNCHANGED <<writer, readers, mempoolsLock, reconcileMu>>

\* A goroutine is started, and reads node.bcs.
Start(g, kind) ==
  /\ \/ kind = "reconcileChain" /\ Go(g, "idle", "reconcileMu")
     \/ kind = "AddTransaction" /\ Go(g, "idle", "offer")
     \/ kind = "ApplyLoop" /\ Go(g, "idle", "apply")
     \/ kind = "Read" /\ Go(g, "idle", "read")
     \/ kind = "CancelOrder" /\ Go(g, "idle", "peek")
     \/ kind = "GetBook" /\ Go(g, "idle", "book")
  /\ job' = [job EXCEPT ![g] = kind]
  /\ bcs' = [bcs EXCEPT ![g] = current]
  /\ steps' = [steps EXCEPT ![g] = MaxSteps]
  /\ NoLock
  /\ UNCHANGED <<current, closed, panicking, spoiled, crashed>>

\* The first half of Lock.
Announce(g) ==
  /\ pc[g] \in WaitsToWrite
  /\ writer[bcs[g]] = None
  /\ writer' = [writer EXCEPT ![bcs[g]] = g]
  /\ UNCHANGED <<readers, mempoolsLock, reconcileMu, pc, steps, rest>>

-----------------------------------------------------------------------------
\* The getters.

Read(g) ==
  /\ Go(g, "read", "reading")
  /\ RLock(g)
  /\ UNCHANGED <<mempoolsLock, reconcileMu, steps, rest>>

EndRead(g) ==
  /\ Go(g, "reading", "idle")
  /\ RUnlock(g)
  /\ UNCHANGED <<mempoolsLock, reconcileMu, steps, rest>>

-----------------------------------------------------------------------------
\* Without a lock.

\* GetCancelAddress: the order is open, and its cancel, signed, is offered to the
\* Blockchains the node has then; or it is not.
EndPeek(g) ==
  /\ \/ Go(g, "peek", "offer") /\ bcs' = [bcs EXCEPT ![g] = current]
     \/ Go(g, "peek", "idle") /\ UNCHANGED bcs
  /\ job' = [job EXCEPT ![g] = "AddTransaction"]
  /\ NoLock
  /\ UNCHANGED <<steps, current, closed, panicking, spoiled, crashed>>

\* SerializeOrderbook, which adds symbols it does not know to the books.
EndBook(g) ==
  /\ Go(g, "book", "idle")
  /\ NoLock
  /\ UNCHANGED <<steps, rest>>

\* Two goroutines use a map at the same time and one of them changes it: the
\* runtime may notice and end the process.
Race(g, h) ==
  /\ g # h /\ bcs[g] = bcs[h]
  /\ \/ pc[g] = "peek" /\ pc[h] \in WritesLedger
     \/ pc[g] \in {"search", "book"} /\ pc[h] \in WritesBooks
  /\ crashed' = TRUE
  /\ NoLock
  /\ UNCHANGED <<pc, steps, current, closed, job, bcs, panicking, spoiled>>

-----------------------------------------------------------------------------
\* reconcileChain, which compares under a read lock and then calls
\* RollbackToHeight once and AddBlock for each block it gets from the peer.

StartReconcile(g) ==
  /\ Go(g, "reconcileMu", "compare")
  /\ reconcileMu = None
  /\ reconcileMu' = g
  /\ bcs' = [bcs EXCEPT ![g] = current]
  /\ UNCHANGED <<writer, readers, mempoolsLock, current, closed, job, steps, panicking,
                 spoiled, crashed>>

Compare(g) ==
  /\ Go(g, "compare", "comparing")
  /\ RLock(g)
  /\ UNCHANGED <<mempoolsLock, reconcileMu, steps, rest>>

\* There may be a fork to roll back to.
Compared(g) ==
  /\ \E next \in {"lock", "fetch"} : Go(g, "comparing", next)
  /\ RUnlock(g)
  /\ UNCHANGED <<mempoolsLock, reconcileMu, steps, rest>>

\* The peer has sent the next block.
Fetched(g) ==
  /\ Go(g, "fetch", "lock")
  /\ TakeStep(g)
  /\ NoLock
  /\ UNCHANGED rest

\* There is no connection to the peer yet: the panic finds no other lock held.
NoClient(g) ==
  /\ Go(g, "fetch", "cleanup")
  /\ panicking' = panicking \cup {g}
  /\ NoLock
  /\ UNCHANGED <<steps, current, closed, job, bcs, spoiled, crashed>>

\* No blocks are left, or one could not be had or added.
EndReconcile(g) ==
  /\ Go(g, "fetch", "idle")
  /\ reconcileMu' = None
  /\ UNCHANGED <<writer, readers, mempoolsLock, steps, rest>>

-----------------------------------------------------------------------------
\* AddBlocks and RollbackToHeight with takeLock.

\* Mutant: the lock is taken for reading.
LockChains_ForReading(g) ==
  /\ Go(g, "lock", "locked")
  /\ RLock(g)
  /\ UNCHANGED <<mempoolsLock, reconcileMu, steps, rest>>

LockChains(g) ==
  /\ Go(g, "lock", "locked")
  /\ Lock(g)
  /\ UNCHANGED <<mempoolsLock, reconcileMu, steps, rest>>

\* The chain is there; or not, and the call returns.
FindChain(g) ==
  \/ /\ Go(g, "locked", "lockLists")
     /\ NoLock
     /\ UNCHANGED <<steps, rest>>
  \/ /\ Go(g, "locked", "search")
     /\ Unlock(g)
     /\ UNCHANGED <<mempoolsLock, reconcileMu, steps, rest>>

LockMempools(g) ==
  /\ Go(g, "lockLists", "undo")
  /\ LockLists(g)
  /\ UNCHANGED <<writer, readers, reconcileMu, steps, rest>>

\* Mutant: mempoolsLock is not released.
EndUndo_KeepsLock(g) ==
  /\ Go(g, "undo", "change")
  /\ UNCHANGED <<writer, readers, mempoolsLock, reconcileMu, steps, rest>>

EndUndo(g) ==
  /\ Go(g, "undo", "change")
  /\ UnlockLists(g)
  /\ UNCHANGED <<writer, readers, reconcileMu, steps, rest>>

\* A rollback of an order rolls back the match chain: RollbackToHeight with
\* takeMempoolLock and without takeLock.
Cascade(g) ==
  /\ Go(g, "change", "lockLists")
  /\ TakeStep(g)
  /\ NoLock
  /\ UNCHANGED rest

\* Mutant: the search is deferred after the release of the lock, so that it comes first.
EndChange_SearchesFirst(g) ==
  /\ Go(g, "change", "search")
  /\ NoLock
  /\ UNCHANGED <<steps, rest>>

EndChange(g) ==
  /\ Go(g, "change", "search")
  /\ Unlock(g)
  /\ UNCHANGED <<mempoolsLock, reconcileMu, steps, rest>>

\* A block creates a token.  AddTokenChain calls AddBlock without takeLock, which
\* still defers FindAllMatches: a match it finds is offered under the locks
\* that AddTransactionToMempool waits for.
SearchInChange(g) ==
  /\ Go(g, "change", "nested")
  /\ spoiled' = spoiled \cup {bcs[g]}
  /\ NoLock
  /\ UNCHANGED <<current, closed, job, bcs, steps, panicking, crashed>>

\* A panic.  The deferred calls release chainsLock, nothing releases mempoolsLock.
Panic(g) ==
  /\ \E place \in {"undo", "change"} : Go(g, place, "search")
  /\ Unlock(g)
  /\ panicking' = panicking \cup {g}
  /\ spoiled' = IF pc[g] = "undo" THEN spoiled \cup {bcs[g]} ELSE spoiled
  /\ UNCHANGED <<mempoolsLock, reconcileMu, current, closed, job, bcs, steps, crashed>>

-----------------------------------------------------------------------------
\* FindAllMatches, deferred by AddBlocks and RollbackToHeight and called by ApplyLoop:
\* it goes through the books without chainsLock and offers matches one by one.

OfferMatch(g) ==
  /\ Go(g, "search", "offer")
  /\ TakeStep(g)
  /\ NoLock
  /\ UNCHANGED rest

\* ApplyLoop goes on with StartMining, a panic with tolerateRetry.
EndSearch(g) ==
  /\ \/ job[g] = "ApplyLoop" /\ Go(g, "search", "offer")
     \/ job[g] # "ApplyLoop" /\ g \in panicking /\ Go(g, "search", "cleanup")
     \/ job[g] # "ApplyLoop" /\ g \notin panicking /\ Go(g, "search", "fetch")
  /\ job' = [job EXCEPT ![g] = IF @ = "ApplyLoop" THEN "AddTransaction" ELSE @]
  /\ NoLock
  /\ UNCHANGED <<current, closed, bcs, steps, panicking, spoiled, crashed>>

-----------------------------------------------------------------------------
\* AddTransactionToMempool, StartMining and its goroutine.

OfferLock(g) ==
  /\ Go(g, "offer", "offerLists")
  /\ Lock(g)
  /\ UNCHANGED <<mempoolsLock, reconcileMu, steps, rest>>

OfferLockMempools(g) ==
  /\ Go(g, "offerLists", "offering")
  /\ LockLists(g)
  /\ UNCHANGED <<writer, readers, reconcileMu, steps, rest>>

EndOffer(g) ==
  /\ Go(g, "offering", "send")
  /\ UnlockLists(g)
  /\ Unlock(g)
  /\ UNCHANGED <<reconcileMu, steps, rest>>

\* The transaction creates a token: see SearchInChange.
SearchInOffer(g) ==
  /\ job[g] = "AddTransaction"
  /\ Go(g, "offering", "nested")
  /\ spoiled' = spoiled \cup {bcs[g]}
  /\ NoLock
  /\ UNCHANGED <<current, closed, job, bcs, steps, panicking, crashed>>

\* The message to the miner, if there is one.  To send on a channel that is
\* closed is a panic, and only reconcileChain would recover from it.
Send(g) ==
  /\ Go(g, "send", IF job[g] = "AddTransaction" THEN "idle" ELSE "search")
  /\ \/ crashed' = FALSE
     \/ bcs[g] \in closed /\ crashed' = TRUE
  /\ NoLock
  /\ UNCHANGED <<current, closed, job, bcs, steps, panicking, spoiled>>

-----------------------------------------------------------------------------
\* ApplyLoop.

ApplyLock(g) ==
  /\ Go(g, "apply", "applying")
  /\ Lock(g)
  /\ UNCHANGED <<mempoolsLock, reconcileMu, steps, rest>>

\* The block's chain is gone, or a stop is about another chain; or it is about the
\* chain that is mined, and StartMining follows.
Ignore(g) ==
  /\ \E next \in {"idle", "offer"} :
       /\ Go(g, "applying", next)
       /\ job' = [job EXCEPT ![g] = "AddTransaction"]
  /\ Unlock(g)
  /\ UNCHANGED <<mempoolsLock, reconcileMu, current, closed, bcs, steps, panicking,
                 spoiled, crashed>>

ApplyLockMempools(g) ==
  \/ /\ Go(g, "applying", "applyLists")
     /\ NoLock
     /\ UNCHANGED <<steps, rest>>
  \/ /\ Go(g, "applyLists", "applied")
     /\ LockLists(g)
     /\ UNCHANGED <<writer, readers, reconcileMu, steps, rest>>

\* FindAllMatches comes after a block that was added, StartMining at once after one
\* that was not.
EndApply(g) ==
  /\ \E next \in {"search", "offer"} :
       /\ Go(g, "applied", next)
       /\ job' = [job EXCEPT ![g] = IF next = "offer" THEN "AddTransaction" ELSE @]
  /\ UnlockLists(g)
  /\ Unlock(g)
  /\ UNCHANGED <<reconcileMu, current, closed, bcs, steps, panicking, spoiled, crashed>>

-----------------------------------------------------------------------------
\* tolerateRetry: Cleanup takes both locks for good, closes the miner's channel and
\* the database, and the node opens it again with new locks.

CleanupLock(g) ==
  /\ Go(g, "cleanup", "cleanupLists")
  /\ Lock(g)
  /\ UNCHANGED <<mempoolsLock, reconcileMu, steps, rest>>

Cleanup(g) ==
  /\ Go(g, "cleanupLists", "reopen")
  /\ LockLists(g)
  /\ closed' = closed \cup {bcs[g]}
  /\ UNCHANGED <<writer, readers, reconcileMu, current, job, bcs, steps, panicking, spoiled,
                 crashed>>

Reopen(g) ==
  /\ Go(g, "reopen", "idle")
  /\ bcs[g] <= MaxRestarts
  /\ current' = bcs[g] + 1
  /\ panicking' = panicking \ {g}
  /\ reconcileMu' = None
  /\ UNCHANGED <<writer, readers, mempoolsLock, closed, job, bcs, steps, spoiled, crashed>>

-----------------------------------------------------------------------------
Reconcile(g) ==
  \/ StartReconcile(g) \/ Compare(g) \/ Compared(g)
  \/ Fetched(g) \/ NoClient(g) \/ EndReconcile(g)
Change(g) ==
  \/ LockChains(g) \/ FindChain(g) \/ LockMempools(g) \/ EndUndo(g)
  \/ Cascade(g) \/ EndChange(g) \/ SearchInChange(g) \/ Panic(g)
Offer(g) ==
  \/ OfferMatch(g) \/ EndSearch(g) \/ OfferLock(g) \/ OfferLockMempools(g)
  \/ EndOffer(g) \/ SearchInOffer(g) \/ Send(g)
Apply(g) == ApplyLock(g) \/ Ignore(g) \/ ApplyLockMempools(g) \/ EndApply(g)
Retry(g) == CleanupLock(g) \/ Cleanup(g) \/ Reopen(g)

Step(g) ==
  /\ ~crashed
  /\ Announce(g) \/ Read(g) \/ EndRead(g) \/ EndPeek(g) \/ EndBook(g) \/ Reconcile(g)
       \/ Change(g) \/ Offer(g) \/ Apply(g) \/ Retry(g)

Next == \E g \in Goroutines :
          \/ ~crashed /\ \E kind \in JobsOf[g] : Start(g, kind)
          \/ Step(g)
          \/ ~crashed /\ \E h \in Goroutines : Race(g, h)

Spec == Init /\ [][Next]_vars

\* A goroutine that waits for a lock gets it if the lock is free again and again: Go's
\* mutexes hand themselves to the one who waits longest.
FairSpec == Spec /\ \A g \in Goroutines : SF_vars(Step(g))

-----------------------------------------------------------------------------
\* Who changes the chains of a Blockchains is alone with them, and so is who changes
\* its lists, also after panics, in cascades and while the node reopens: chainsLock
\* is taken, and for writing, by all who get at the chains (blockchains.go:19).
ChainsAreExclusive ==
  \A g, h \in Goroutines :
    g # h /\ bcs[g] = bcs[h] /\ pc[g] \in WritesChains
      => pc[h] \notin WritesChains \cup ReadsChains

\* The same of the ledger, as "Lock on consensus state and chains" (Blockchains) has
\* it.  It does not hold: node.go:370 looks an order up with no lock.
LedgerIsExclusive ==
  \A g, h \in Goroutines :
    g # h /\ bcs[g] = bcs[h] /\ pc[g] \in WritesLedger
      => pc[h] \notin WritesLedger \cup ReadsChains \cup {"peek"}

\* A goroutine that holds mempoolsLock does not wait for chainsLock: "WARNING taking
\* both locks always take chain lock first" (ApplyLoop).
LockOrder ==
  \A g \in Goroutines :
    pc[g] \in WaitsToRead \cup WaitsToWrite => mempoolsLock[bcs[g]] # g

\* The order is kept by calls, cascades and panics, unless a panic leaves mempoolsLock
\* held or a creation searches for matches under its locks.
LockOrderUnlessSpoiled == spoiled = {} => LockOrder

\* Every call of every goroutine returns, unless a lock is held for ever: by a panic in
\* the undo of a list, by a search under the locks, or by Cleanup, or the process ends.
EveryoneReturns ==
  \A g \in Goroutines :
    pc[g] # "idle"
      ~> (pc[g] = "idle" \/ spoiled # {} \/ bcs[g] \in closed \/ crashed)

=============================================================================
