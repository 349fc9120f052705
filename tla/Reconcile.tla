----------------------------- MODULE Reconcile -----------------------------
(***************************************************************************)
(* How the nodes of the network agree on one chain: each announces the     *)
(* hashes of its chain to its peers every ten seconds (INV), and a node    *)
(* that hears of a longer chain looks for the fork, rolls its own chain    *)
(* back to it and fetches the rest of the peer's block by block (node.go). *)
(*                                                                         *)
(* One chain is modelled, and of its blocks only what links them: a hash   *)
(* is a number nobody used before.  What is in a block, and so whether the *)
(* ledger takes it, is the business of Blockchains; here the ledger may    *)
(* refuse any block.  A call that fails, a peer without a client and a     *)
(* ledger that refuses end a reconciliation where it stands, with the      *)
(* chain as it is on disk; after a call that fails the peer is not         *)
(* announced to any more until it is heard from (Peers).                   *)
(***************************************************************************)
EXTENDS Peers

CONSTANTS
    OnDisk,       \* the chain each node starts with
    Numbered,     \* the hashes used in those are the numbers up to this one
    MaxBlocks,    \* bound: how many blocks there ever are but the genesis block
    MaxInvs       \* bound: announcements under way from a node to a node

VARIABLES
    chain,     \* the blocks of each node's chain, the oldest first
    mined,     \* the hash of the block mined last
    announced, \* the hashes the inv loop of a node has read, or Nothing
    sent,      \* the announcements on their way
    waiting,   \* the reconcileChain goroutines that wait for reconcileMu
    job        \* what the one that has a node's reconcileMu is doing, or Idle

vars == <<chain, mined, announced, sent, waiting, job, peerVars>>

Hash == 0 .. MaxBlocks
Nothing == <<>>      \* a chain has its genesis block, so never no hashes
NoHash == -1

\* A block is its hash and the hash of the block before it.
Block == [hash : Hash, prev : Hash \cup {NoHash}]
Genesis == [hash |-> 0, prev |-> NoHash]

\* What NewBlockchain opens: a chain from the genesis block on.
Linked(c) ==
    /\ c # <<>>
    /\ c[1] = Genesis
    /\ \A i \in 2 .. Len(c) : c[i].prev = c[i - 1].hash

\* blockhashes lists the newest block first.
Hashes(c) == [i \in 1 .. Len(c) |-> c[Len(c) + 1 - i].hash]

\* A hash stands for the block and all before it: where two lists of hashes
\* have one in common, they go on alike to their ends.
SamePast(s, t) ==
    \A i \in 1 .. Len(s), j \in 1 .. Len(t) :
        s[i] = t[j] =>
            /\ Len(s) - i = Len(t) - j
            /\ \A k \in 0 .. Len(s) - i : s[i + k] = t[j + k]

ASSUME BoundsAssumption ==
    /\ MaxBlocks \in Nat
    /\ MaxInvs \in Nat \ {0}

ASSUME DiskAssumption ==
    /\ Numbered \in 0 .. MaxBlocks
    /\ OnDisk \in [Nodes -> Seq([hash : 0 .. Numbered, prev : Hash \cup {NoHash}])]
    /\ \A n \in Nodes : Linked(OnDisk[n])
    /\ \A n, p \in Nodes : SamePast(Hashes(OnDisk[n]), Hashes(OnDisk[p]))

\* The announcement of a chain: its hashes, and what was taken for its height.
Invs == [from : Nodes, to : Nodes, hashes : Seq(Hash), height : Nat]

Idle == [phase |-> "idle"]

Tip(n) == chain[n][Len(chain[n])]
Height(n) == Len(chain[n])

Blockhashes(n) == Hashes(chain[n])

(***************************************************************************)
(* The search for the fork goes back from our tip: the block at a height is *)
(* compared with the hash number theirHeight - height, from zero.  It stops *)
(* where the two are the same, where there are no more hashes, and at       *)
(* height zero, where the iterator is out of blocks.                        *)
(***************************************************************************)
\* Mutant: the hashes are counted from one.
TheirIdx_OffByOne(inv, height) == inv.height - height + 1

TheirIdx(inv, height) == inv.height - height

StopsAt(n, inv, height) ==
    TheirIdx(inv, height) < Len(inv.hashes) /\ height > 0
        => chain[n][height].hash = inv.hashes[TheirIdx(inv, height) + 1]

SearchEndsAt(n, inv, height) ==
    /\ StopsAt(n, inv, height)
    /\ \A above \in height + 1 .. Height(n) : ~StopsAt(n, inv, above)

\* Whether that is a height to go on from: not below the first hash they sent,
\* nor below our own first block.
GoesOnFrom(inv, height) ==
    /\ TheirIdx(inv, height) <= Len(inv.hashes)
    /\ height > 0

(***************************************************************************)
(* The initial state: every node opens the chain it has on disk.           *)
(***************************************************************************)
Init ==
    /\ chain = OnDisk
    /\ mined = Numbered
    /\ announced = [n \in Nodes |-> Nothing]
    /\ sent = {}
    /\ waiting = {}
    /\ job = [n \in Nodes |-> Idle]
    /\ PeersInit

(***************************************************************************)
(* A node mines a block on top of its chain, at any time: mining and       *)
(* reconciling share the chains' lock, but no step of reconcileChain keeps *)
(* it until the next.                                                      *)
(***************************************************************************)
Mine(n) ==
    /\ mined < MaxBlocks
    /\ mined' = mined + 1
    /\ chain' = [chain EXCEPT ![n] =
                    Append(@, [hash |-> mined + 1, prev |-> Tip(n).hash])]
    /\ UNCHANGED <<announced, sent, waiting, job, peerVars>>

(***************************************************************************)
(* The inv loop.  getInvArgs reads the hashes, lets go of the lock, takes  *)
(* it again and reads the height: a block mined or taken back in between   *)
(* makes the two disagree.  Each peer is called by a goroutine of its own. *)
(***************************************************************************)
ReadBlockhashes(n) ==
    /\ announced[n] = Nothing
    /\ announced' = [announced EXCEPT ![n] = Blockhashes(n)]
    /\ UNCHANGED <<chain, mined, sent, waiting, job, peerVars>>

UnderWay(n, p) == {i \in sent \cup waiting : i.from = n /\ i.to = p}

BroadcastInv(n) ==
    /\ announced[n] # Nothing
    /\ sent' = sent \cup
        {[from |-> n, to |-> p, hashes |-> announced[n], height |-> Height(n)] :
            p \in {q \in ActivePeers(n) : Cardinality(UnderWay(n, q)) < MaxInvs}}
    /\ announced' = [announced EXCEPT ![n] = Nothing]
    /\ UNCHANGED <<chain, mined, waiting, job, peerVars>>

\* The handler starts a goroutine if the chain it hears of is longer.  To a
\* peer that it does not know or that has failed it, it connects instead.
Inv(inv) ==
    /\ inv \in sent
    /\ sent' = sent \ {inv}
    /\ waiting' = IF Live(inv.to, inv.from) /\ Height(inv.to) < inv.height
                  THEN waiting \cup {inv}
                  ELSE waiting
    /\ ConnectPeersIfNew(inv.to, {inv.from})
    /\ UNCHANGED <<chain, mined, announced, job, addrs, failures>>

\* The call fails.
LoseInv(inv) ==
    /\ inv \in sent
    /\ CallFails(inv.from, inv.to)
    /\ sent' = sent \ {inv}
    /\ UNCHANGED <<chain, mined, announced, waiting, job, dialing, addrs>>

(***************************************************************************)
(* reconcileChain.  A goroutine that gets reconcileMu searches for the     *)
(* fork under the chains' read lock.  If there is one to go on from it     *)
(* still has to roll back, unless our tip is the fork, and to fetch.       *)
(***************************************************************************)
Reconcile(inv) ==
    LET n == inv.to IN
    /\ inv \in waiting
    /\ job[n] = Idle
    /\ waiting' = waiting \ {inv}
    /\ \/ /\ inv.height <= Height(n)
          /\ UNCHANGED job
       \/ /\ inv.height > Height(n)
          /\ \E fork \in 0 .. Height(n) :
                /\ SearchEndsAt(n, inv, fork)
                /\ job' = IF GoesOnFrom(inv, fork)
                          THEN [job EXCEPT ![n] =
                                  [phase |-> IF fork = Height(n) THEN "fetch" ELSE "rollback",
                                   inv |-> inv, height |-> fork, block |-> Genesis]]
                          ELSE job
    /\ UNCHANGED <<chain, mined, announced, sent, peerVars>>

\* Mutant: nothing is rolled back.
RolledBack_Nothing(c, height) == c

\* Rolling back is to a height, whatever the chain has become meanwhile.
RolledBack(c, height) == IF height < Len(c) THEN SubSeq(c, 1, height) ELSE c

RollbackToHeight(n) ==
    /\ job[n].phase = "rollback"
    /\ chain' = [chain EXCEPT ![n] = RolledBack(@, job[n].height)]
    /\ job' = [job EXCEPT ![n].phase = "fetch"]
    /\ UNCHANGED <<mined, announced, sent, waiting, peerVars>>

\* The peer may have rolled back the block it announced: then we stop.  It
\* connects to us if it does not count us as live, and serves the block anyway.
Served(p, hash) == {i \in 1 .. Height(p) : chain[p][i].hash = hash}

GetBlock(n) ==
    LET inv == job[n].inv
        hash == inv.hashes[TheirIdx(inv, job[n].height + 1) + 1]
    IN
    /\ job[n].phase = "fetch"
    /\ IF Served(inv.from, hash) = {}
       THEN job' = [job EXCEPT ![n] = Idle]
       ELSE \E i \in Served(inv.from, hash) :
                job' = [job EXCEPT ![n].phase = "add", ![n].block = chain[inv.from][i]]
    /\ ConnectPeersIfNew(inv.from, {n})
    /\ UNCHANGED <<chain, mined, announced, sent, waiting, addrs, failures>>

\* The call for a block fails.
GetBlockFails(n) ==
    /\ job[n].phase = "fetch"
    /\ CallFails(n, job[n].inv.from)
    /\ job' = [job EXCEPT ![n] = Idle]
    /\ UNCHANGED <<chain, mined, announced, sent, waiting, dialing, addrs>>

\* The peer has no client yet: the call panics and tolerateRetry opens the
\* chains anew, as they are on disk.
NoClient(n) ==
    /\ job[n].phase = "fetch"
    /\ <<n, job[n].inv.from>> \in dialing
    /\ job' = [job EXCEPT ![n] = Idle]
    /\ UNCHANGED <<chain, mined, announced, sent, waiting, peerVars>>

\* Mutant: any block is added.
Extends_Anything(block, tip) == TRUE

\* AddBlocks takes a block only on top of the tip.
Extends(block, tip) == block.prev = tip.hash

\* Mutant: the loop ends one height below theirHeight.
MoreToFetch_OneLess(height, inv) == height + 1 < inv.height

\* The loop's bound: theirHeight is the last height to fetch.
MoreToFetch(height, inv) == height < inv.height

AddBlock(n) ==
    LET height == job[n].height + 1 IN
    /\ job[n].phase = "add"
    /\ IF Extends(job[n].block, Tip(n))
       THEN /\ chain' = [chain EXCEPT ![n] = Append(@, job[n].block)]
            /\ job' = [job EXCEPT ![n] =
                        IF MoreToFetch(height, job[n].inv)
                        THEN [job[n] EXCEPT !.phase = "fetch", !.height = height,
                                            !.block = Genesis]
                        ELSE Idle]
       ELSE /\ job' = [job EXCEPT ![n] = Idle]
            /\ UNCHANGED chain
    /\ UNCHANGED <<mined, announced, sent, waiting, peerVars>>

\* The ledger refuses the block.
RefusesBlock(n) ==
    /\ job[n].phase = "add"
    /\ failures < MaxFailures
    /\ failures' = failures + 1
    /\ job' = [job EXCEPT ![n] = Idle]
    /\ UNCHANGED <<chain, mined, announced, sent, waiting, peers, dialing, addrs>>

Step(n) == RollbackToHeight(n) \/ GetBlock(n) \/ AddBlock(n)

Next ==
    \/ \E n \in Nodes :
        \/ Mine(n)
        \/ ReadBlockhashes(n)
        \/ BroadcastInv(n)
        \/ RollbackToHeight(n)
        \/ GetBlock(n)
        \/ GetBlockFails(n)
        \/ NoClient(n)
        \/ AddBlock(n)
        \/ RefusesBlock(n)
    \/ \E inv \in sent : Inv(inv) \/ LoseInv(inv)
    \/ \E inv \in waiting : Reconcile(inv)
    \/ PeersNext /\ UNCHANGED <<chain, mined, announced, sent, waiting, job>>

Spec == Init /\ [][Next]_vars

InvFrom(n, p) == \E inv \in sent : inv.from = n /\ inv.to = p /\ Inv(inv)
ReconcileWith(n, p) == \E inv \in waiting : inv.to = n /\ inv.from = p /\ Reconcile(inv)

Connects(n, p) ==
    /\ Version(n, p) \/ AddrFrom(n, p)
    /\ UNCHANGED <<chain, mined, announced, sent, waiting, job>>

(***************************************************************************)
(* The ticker announces for ever, to those that are active; a call that    *)
(* does not fail is answered, a goroutine is scheduled, and reconcileMu,   *)
(* like every Go mutex, hands itself to a goroutine that waits too long.   *)
(* Nobody has to mine, and nobody calls a peer that failed.                *)
(***************************************************************************)
Fairness ==
    \A n \in Nodes :
        /\ WF_vars(ReadBlockhashes(n))
        /\ WF_vars(BroadcastInv(n))
        /\ WF_vars(Step(n))
        /\ \A p \in Nodes \ {n} :
            /\ WF_vars(InvFrom(n, p))
            /\ WF_vars(Connects(n, p))
            /\ SF_vars(ReconcileWith(n, p))

FairSpec == Spec /\ Fairness

-----------------------------------------------------------------------------
(***************************************************************************)
(* Properties.                                                             *)
(***************************************************************************)

Jobs == {Idle} \cup
    [phase : {"rollback", "fetch", "add"}, inv : Invs, height : Nat \ {0}, block : Block]

\* The type invariant: chains with a genesis block, announcements between
\* different nodes, and one reconciliation at most on each node.
TypeOK ==
    /\ chain \in [Nodes -> Seq(Block)]
    /\ mined \in 0 .. MaxBlocks
    /\ announced \in [Nodes -> Seq(Hash)]
    /\ sent \subseteq Invs
    /\ waiting \subseteq Invs
    /\ job \in [Nodes -> Jobs]
    /\ PeersTypeOK

\* A chain starts at the genesis block and every block of it names the block
\* before it, whatever was mined between the steps of a reconciliation
\* (AddBlocks compares it at blockchains.go:113; node.go:601-622 takes the lock
\* anew for each step).
HashLinked == \A n \in Nodes : Linked(chain[n])

\* An announcement whose two readings agree: as many hashes as its height.
Agrees(inv) == Len(inv.hashes) = inv.height

KeepsCommon(n, inv) ==
    \A i \in Height(n)' + 1 .. Height(n) :
        \A j \in 1 .. Len(inv.hashes) : chain[n][i].hash # inv.hashes[j]

\* A rollback takes back no block that the announced chain also has: the
\* search for the fork stops at it, and what our miner added since the search
\* does not matter.  Said of announcements whose hashes and height agree
\* (node.go:581-602).
CommonBlocksKept ==
    [][\A n \in Nodes :
        job[n].phase = "rollback" /\ Agrees(job[n].inv) => KeepsCommon(n, job[n].inv)]_vars

\* The same of every announcement.  It does not hold: the height that node.go:600
\* logs as "Found fork at height %v" is the fork's only if the hashes and the
\* height that getInvArgs reads one after the other (node.go:258-259) are of the
\* same chain.
FoundForkIsAFork ==
    [][\A n \in Nodes : job[n].phase = "rollback" => KeepsCommon(n, job[n].inv)]_vars

\* A reconciliation that goes through to its last block leaves the chain that
\* was announced, block by block, although our miner, the peer's and the
\* peer's own reconciliations may change both chains at every step of it
\* (node.go:604-622).
AdoptsTheAnnounced ==
    [][\A n \in Nodes :
        job[n].phase = "add" /\ job'[n] = Idle /\ chain'[n] # chain[n]
            => Blockhashes(n)' = job[n].inv.hashes]_vars

\* The nodes come to agree on who calls whom: whichever calls failed, at last
\* either both of two nodes announce to each other or neither does.  A node that
\* one side counts as INVALID is connected to anew because the other side goes on
\* announcing to it (node.go:222-227, 505-541); if both gave each other up, nothing
\* is heard any more.
PeersAgree == <>[](\A n, p \in Nodes : peers[n][p] = "ACTIVE" <=> peers[p][n] = "ACTIVE")

Connected(n, p) == peers[n][p] = "ACTIVE" \/ peers[p][n] = "ACTIVE"

\* When nobody mines any more, the chains of two nodes of which one still counts
\* the other as active come to be equally long and stay so: no reconciliation
\* waits for another node's, none is kept from starting for ever, one side's
\* having given up the other is mended, and so is a reconciliation that was given
\* up.  Forks of the same length remain: node.go:235 wants a longer chain.
HeightsConverge == <>[](\A n, p \in Nodes : Connected(n, p) => Height(n) = Height(p))

\* The same of all nodes.  It does not hold: two failed calls, one of each of two
\* nodes, leave each INVALID for the other (node.go:631-636), and then neither
\* announces to the other again (node.go:252, 657-659).
AllHeightsConverge == <>[](\A n, p \in Nodes : Height(n) = Height(p))
=============================================================================
