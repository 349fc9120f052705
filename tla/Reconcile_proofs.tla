-------------------------- MODULE Reconcile_proofs --------------------------
(***************************************************************************)
(* What is proved of Reconcile, for any number of nodes and blocks and any *)
(* bounds: chains stay linked, a rollback keeps the blocks in common, and  *)
(* a reconciliation that goes through adopts the chain announced.          *)
(***************************************************************************)
EXTENDS Reconcile, SequenceTheorems, TLAPS

(***************************************************************************)
(* The invariant.  Every list of hashes there is, of a chain as of an      *)
(* announcement however old, names one history: two lists with a hash in   *)
(* common go on alike from it.  And what a reconciliation is about to do   *)
(* fits the list it works from.                                            *)
(***************************************************************************)
Known ==
    {Blockhashes(n) : n \in Nodes}
    \cup {announced[n] : n \in Nodes}
    \cup {inv.hashes : inv \in sent \cup waiting}
    \cup {job[n].inv.hashes : n \in {p \in Nodes : job[p] # Idle}}

Numbers == Known \subseteq Seq(0 .. mined)

OneHistory == \A s, t \in Known : SamePast(s, t)

\* The place, in the list it works from, of the block a job is to fetch next.
NextHash(j) == j.inv.height - j.height

InList(j) == NextHash(j) \in 1 .. Len(j.inv.hashes)

AboveTheFork(n) ==
    job[n].phase = "rollback" /\ Agrees(job[n].inv) =>
        \A i \in job[n].height + 1 .. Height(n) :
            \A k \in 1 .. Len(job[n].inv.hashes) :
                chain[n][i].hash # job[n].inv.hashes[k]

\* A block is the one asked for, and names the hash that follows in the list.
Fetched(j) ==
    j.phase = "add" =>
        /\ j.block.hash = j.inv.hashes[NextHash(j)]
        /\ j.block.prev = IF NextHash(j) = Len(j.inv.hashes)
                          THEN NoHash
                          ELSE j.inv.hashes[NextHash(j) + 1]

Fits(n) == job[n] # Idle => InList(job[n]) /\ AboveTheFork(n) /\ Fetched(job[n])

JobsFit == \A n \in Nodes : Fits(n)

IInv == TypeOK /\ HashLinked /\ Numbers /\ OneHistory /\ JobsFit

-----------------------------------------------------------------------------
(***************************************************************************)
(* Chains and lists of hashes.                                             *)
(***************************************************************************)

\* The list of a chain's hashes is as long as the chain, and turned round.
LEMMA HashesOfChain ==
    ASSUME NEW c \in Seq(Block)
    PROVE  /\ Hashes(c) \in Seq(Hash)
           /\ Len(Hashes(c)) = Len(c)
           /\ \A i \in 1 .. Len(c) : Hashes(c)[i] = c[Len(c) + 1 - i].hash
  <1>1. ASSUME NEW i \in 1 .. Len(c)
        PROVE  c[Len(c) + 1 - i].hash \in Hash
    <2>1. Len(c) + 1 - i \in 1 .. Len(c)
      OBVIOUS
    <2>2. c[Len(c) + 1 - i] \in Block
      BY <2>1
    <2> QED
      BY <2>2 DEF Block
  <1>2. Hashes(c) \in [1 .. Len(c) -> Hash]
    BY <1>1 DEF Hashes
  <1> QED
    BY <1>2 DEF Hashes

LEMMA SeqOfElements ==
    ASSUME NEW S, NEW s \in Seq(Int), \A i \in 1 .. Len(s) : s[i] \in S
    PROVE  s \in Seq(S)
  <1>1. Len(s) \in Nat
    OBVIOUS
  <1>2. s \in [1 .. Len(s) -> S]
    <2>1. s \in [1 .. Len(s) -> Int]
      OBVIOUS
    <2> QED
      BY <2>1
  <1>3. s \in UNION {[1 .. n -> S] : n \in Nat}
    BY <1>1, <1>2
  <1> QED
    BY <1>3, SeqDef

\* s is what t ends with.
EndOf(s, t) ==
    /\ Len(s) <= Len(t)
    /\ \A i \in 1 .. Len(s) : s[i] = t[Len(t) - Len(s) + i]

\* The ends of lists with one history have one history.
LEMMA EndsAgree ==
    ASSUME NEW s1 \in Seq(Int), NEW t1 \in Seq(Int),
           NEW s2 \in Seq(Int), NEW t2 \in Seq(Int),
           EndOf(s1, t1), EndOf(s2, t2), SamePast(t1, t2)
    PROVE  SamePast(s1, s2)
  <1> SUFFICES ASSUME NEW i \in 1 .. Len(s1), NEW j \in 1 .. Len(s2), s1[i] = s2[j]
               PROVE  /\ Len(s1) - i = Len(s2) - j
                      /\ \A k \in 0 .. Len(s1) - i : s1[i + k] = s2[j + k]
    BY DEF SamePast
  <1> DEFINE I == Len(t1) - Len(s1) + i
             J == Len(t2) - Len(s2) + j
  <1>1. I \in 1 .. Len(t1) /\ J \in 1 .. Len(t2) /\ t1[I] = t2[J]
    <2>1. s1[i] = t1[I] /\ s2[j] = t2[J]
      BY DEF EndOf
    <2>2. I \in 1 .. Len(t1) /\ J \in 1 .. Len(t2)
      <3>1. Len(s1) <= Len(t1) /\ Len(s2) <= Len(t2)
        BY DEF EndOf
      <3>2. Len(s1) \in Nat /\ Len(t1) \in Nat
        OBVIOUS
      <3>3. Len(s2) \in Nat /\ Len(t2) \in Nat
        OBVIOUS
      <3>4. I \in 1 .. Len(t1)
        BY <3>1, <3>2
      <3>5. J \in 1 .. Len(t2)
        BY <3>1, <3>3
      <3> QED
        BY <3>4, <3>5
    <2> QED
      BY <2>1, <2>2
  <1>2. Len(t1) - I = Len(t2) - J /\ \A k \in 0 .. Len(t1) - I : t1[I + k] = t2[J + k]
    BY <1>1 DEF SamePast
  <1>3. Len(s1) - i = Len(s2) - j
    BY <1>2
  <1>4. ASSUME NEW k \in 0 .. Len(s1) - i
        PROVE  s1[i + k] = s2[j + k]
    <2>1. s1[i + k] = t1[I + k]
      <3>1. i + k \in 1 .. Len(s1)
        OBVIOUS
      <3>2. s1[i + k] = t1[Len(t1) - Len(s1) + (i + k)]
        BY <3>1 DEF EndOf
      <3> QED
        BY <3>2
    <2>2. s2[j + k] = t2[J + k]
      <3>1. j + k \in 1 .. Len(s2)
        BY <1>3
      <3>2. s2[j + k] = t2[Len(t2) - Len(s2) + (j + k)]
        BY <3>1 DEF EndOf
      <3> QED
        BY <3>2
    <2>3. t1[I + k] = t2[J + k]
      BY <1>2
    <2> QED
      BY <2>1, <2>2, <2>3
  <1> QED
    BY <1>3, <1>4

\* So the lists of a step have, if each is the end of one there was.
LEMMA EndsOfKnown ==
    ASSUME NEW K, K \subseteq Seq(Int), \A s, t \in K : SamePast(s, t),
           NEW L, L \subseteq Seq(Int), \A l \in L : \E s \in K : EndOf(l, s)
    PROVE  \A l, m \in L : SamePast(l, m)
  <1> SUFFICES ASSUME NEW l \in L, NEW m \in L
               PROVE  SamePast(l, m)
    OBVIOUS
  <1>1. PICK s \in K : EndOf(l, s)
    OBVIOUS
  <1>2. PICK t \in K : EndOf(m, t)
    OBVIOUS
  <1> QED
    BY <1>1, <1>2, EndsAgree

LEMMA EndOfItself ==
    ASSUME NEW s \in Seq(Int)
    PROVE  EndOf(s, s)
  BY DEF EndOf

\* A new hash in front of a list brings nothing into dispute.
LEMMA NewHashAgrees ==
    ASSUME NEW K, K \subseteq Seq(Int), \A s, t \in K : SamePast(s, t),
           NEW old \in K, NEW new \in Seq(Int), NEW h \in Int,
           \A s \in K : \A i \in 1 .. Len(s) : s[i] # h,
           Len(new) = Len(old) + 1,
           new[1] = h,
           \A i \in 2 .. Len(new) : new[i] = old[i - 1]
    PROVE  \A s, t \in K \cup {new} : SamePast(s, t)
  <1>1. SamePast(new, new)
    <2> SUFFICES ASSUME NEW i \in 1 .. Len(new), NEW j \in 1 .. Len(new), new[i] = new[j]
                 PROVE  i = j
      BY DEF SamePast
    <2>1. ASSUME NEW k \in 2 .. Len(new)
          PROVE  new[k] # h
      <3>1. k - 1 \in 1 .. Len(old) /\ new[k] = old[k - 1]
        OBVIOUS
      <3> QED
        BY <3>1
    <2>2. CASE i > 1 /\ j > 1
      <3>1. i - 1 \in 1 .. Len(old) /\ j - 1 \in 1 .. Len(old) /\ old[i - 1] = old[j - 1]
        BY <2>2
      <3>2. Len(old) - (i - 1) = Len(old) - (j - 1)
        BY <3>1 DEF SamePast
      <3> QED
        BY <3>2
    <2> QED
      BY <2>1, <2>2
  <1>2. ASSUME NEW s \in K
        PROVE  SamePast(new, s) /\ SamePast(s, new)
    <2> s \in Seq(Int) /\ SamePast(old, s)
      OBVIOUS
    <2>1. ASSUME NEW i \in 1 .. Len(new), NEW j \in 1 .. Len(s), new[i] = s[j]
          PROVE  /\ Len(new) - i = Len(s) - j
                 /\ \A k \in 0 .. Len(new) - i : new[i + k] = s[j + k]
      <3>1. i - 1 \in 1 .. Len(old) /\ old[i - 1] = s[j]
        BY <2>1
      <3>2. /\ Len(old) - (i - 1) = Len(s) - j
            /\ \A k \in 0 .. Len(old) - (i - 1) : old[(i - 1) + k] = s[j + k]
        BY <3>1 DEF SamePast
      <3>3. ASSUME NEW k \in 0 .. Len(new) - i
            PROVE  new[i + k] = s[j + k]
        <4>1. i + k \in 2 .. Len(new) /\ (i + k) - 1 = (i - 1) + k
          BY <3>1
        <4>2. new[i + k] = old[(i - 1) + k]
          BY <4>1
        <4> QED
          BY <3>2, <4>2
      <3> QED
        BY <3>2, <3>3
    <2>2. SamePast(new, s)
      BY <2>1 DEF SamePast
    <2>3. ASSUME NEW j \in 1 .. Len(s), NEW i \in 1 .. Len(new), s[j] = new[i]
          PROVE  /\ Len(s) - j = Len(new) - i
                 /\ \A k \in 0 .. Len(s) - j : s[j + k] = new[i + k]
      BY <2>1, <2>3
    <2>4. SamePast(s, new)
      BY <2>3 DEF SamePast
    <2> QED
      BY <2>2, <2>4
  <1> QED
    BY <1>1, <1>2

-----------------------------------------------------------------------------
(***************************************************************************)
(* Types.                                                                  *)
(***************************************************************************)
LEMMA JobsType ==
    ASSUME TypeOK, NEW n \in Nodes, job[n] # Idle
    PROVE  /\ job[n] \in [phase : {"rollback", "fetch", "add"}, inv : Invs,
                           height : Nat \ {0}, block : Block]
           /\ job[n].inv \in Invs
           /\ job[n].height \in Nat \ {0}
           /\ job[n].block \in Block
  BY DEF TypeOK, Jobs

LEMMA NextJob ==
    ASSUME NEW j \in [phase : {"rollback", "fetch", "add"}, inv : Invs,
                      height : Nat \ {0}, block : Block],
           NEW h \in Nat \ {0}, NEW b \in Block
    PROVE  [j EXCEPT !.phase = "fetch", !.height = h, !.block = b]
              \in [phase : {"rollback", "fetch", "add"}, inv : Invs,
                   height : Nat \ {0}, block : Block]
  OBVIOUS

LEMMA AJobIsNotIdle ==
    ASSUME NEW j, j.phase # "idle"
    PROVE  j # Idle
  BY DEF Idle

LEMMA ChainType ==
    ASSUME TypeOK, HashLinked, NEW n \in Nodes
    PROVE  /\ chain[n] \in Seq(Block)
           /\ Height(n) \in Nat \ {0}
           /\ \A i \in 1 .. Height(n) : chain[n][i] \in Block
           /\ Tip(n) \in Block
  <1>1. chain[n] \in Seq(Block) /\ chain[n] # <<>>
    BY DEF TypeOK, HashLinked, Linked
  <1> QED
    BY <1>1 DEF Height, Tip

\* Appending a block that names the tip, or cutting a chain above its genesis
\* block, leaves a linked chain.
LEMMA LinkedAppend ==
    ASSUME NEW c \in Seq(Block), Linked(c), NEW b \in Block, b.prev = c[Len(c)].hash
    PROVE  Linked(Append(c, b)) /\ Append(c, b) \in Seq(Block)
  <1>1. Len(c) \in Nat \ {0}
    BY DEF Linked
  <1>2. /\ Len(Append(c, b)) = Len(c) + 1
        /\ Append(c, b) \in Seq(Block)
        /\ \A i \in 1 .. Len(c) : Append(c, b)[i] = c[i]
        /\ Append(c, b)[Len(c) + 1] = b
    OBVIOUS
  <1>3. ASSUME NEW i \in 2 .. Len(c) + 1
        PROVE  Append(c, b)[i].prev = Append(c, b)[i - 1].hash
    <2>1. CASE i = Len(c) + 1
      BY <1>1, <1>2, <2>1
    <2>2. CASE i \in 2 .. Len(c)
      <3>1. c[i].prev = c[i - 1].hash
        BY <2>2 DEF Linked
      <3>2. i - 1 \in 1 .. Len(c) /\ i \in 1 .. Len(c)
        BY <1>1, <2>2
      <3> QED
        BY <1>2, <3>1, <3>2
    <2> QED
      BY <1>1, <2>1, <2>2
  <1>4. Append(c, b) # <<>> /\ Append(c, b)[1] = Genesis
    BY <1>1, <1>2 DEF Linked
  <1> QED
    BY <1>2, <1>3, <1>4 DEF Linked

LEMMA LinkedCut ==
    ASSUME NEW c \in Seq(Block), Linked(c), NEW h \in Nat \ {0}
    PROVE  /\ RolledBack(c, h) \in Seq(Block)
           /\ Linked(RolledBack(c, h))
           /\ Len(RolledBack(c, h)) = IF h < Len(c) THEN h ELSE Len(c)
           /\ \A i \in 1 .. Len(RolledBack(c, h)) : RolledBack(c, h)[i] = c[i]
  <1>1. Len(c) \in Nat \ {0}
    BY DEF Linked
  <1>2. CASE h < Len(c)
    <2>1. /\ RolledBack(c, h) = SubSeq(c, 1, h)
          /\ SubSeq(c, 1, h) \in Seq(Block)
          /\ Len(SubSeq(c, 1, h)) = h
          /\ \A i \in 1 .. h : SubSeq(c, 1, h)[i] = c[i]
      BY <1>1, <1>2 DEF RolledBack
    <2>2. ASSUME NEW i \in 2 .. h
          PROVE  SubSeq(c, 1, h)[i].prev = SubSeq(c, 1, h)[i - 1].hash
      <3>1. c[i].prev = c[i - 1].hash
        BY <1>2 DEF Linked
      <3> QED
        BY <2>1, <3>1
    <2>3. SubSeq(c, 1, h) # <<>> /\ SubSeq(c, 1, h)[1] = Genesis
      BY <2>1 DEF Linked
    <2> QED
      BY <1>2, <2>1, <2>2, <2>3 DEF Linked
  <1>3. CASE ~(h < Len(c))
    BY <1>1, <1>3 DEF RolledBack
  <1> QED
    BY <1>2, <1>3

\* Whom a node calls changes by calls that fail and by dialing.
LEMMA PeersTypeInit == PeersInit => PeersTypeOK
  BY PeersAssumption DEF PeersInit, PeersTypeOK, PeerStates

LEMMA ConnectType ==
    ASSUME PeersTypeOK, NEW n \in Nodes, NEW ips \in SUBSET Nodes, ConnectPeersIfNew(n, ips)
    PROVE  /\ peers' \in [Nodes -> [Nodes -> PeerStates]]
           /\ dialing' \subseteq Nodes \X Nodes
  <1>1. NewPeers(n, ips) \subseteq Nodes
    BY DEF NewPeers
  <1>2. [p \in Nodes |-> IF p \in NewPeers(n, ips) THEN "FOUND" ELSE peers[n][p]]
            \in [Nodes -> PeerStates]
    BY DEF PeersTypeOK, PeerStates
  <1> QED
    BY <1>1, <1>2 DEF ConnectPeersIfNew, PeersTypeOK

LEMMA FailType ==
    ASSUME PeersTypeOK, NEW n \in Nodes, NEW p \in Nodes, CallFails(n, p)
    PROVE  /\ peers' \in [Nodes -> [Nodes -> PeerStates]]
           /\ failures' \in 0 .. MaxFailures
  BY PeersAssumption DEF CallFails, PeersTypeOK, PeerStates

LEMMA PeersStepType ==
    ASSUME PeersTypeOK, PeersNext
    PROVE  PeersTypeOK'
  <1>1. ASSUME NEW n \in Nodes, peers' \in [Nodes -> [Nodes -> PeerStates]], BroadcastAddr(n)
        PROVE  addrs' \subseteq Addrs
    BY <1>1 DEF BroadcastAddr, ActivePeers, Addrs, PeersTypeOK
  <1>2. ASSUME NEW c \in dialing, Version(c[1], c[2])
        PROVE  PeersTypeOK'
    <2>1. c[1] \in Nodes /\ c[2] \in Nodes
      BY DEF PeersTypeOK
    <2>2. peers' \in [Nodes -> [Nodes -> PeerStates]]
      BY <1>2, <2>1 DEF Version, PeersTypeOK, PeerStates
    <2>3. dialing' \subseteq Nodes \X Nodes
      BY <1>2, <2>1 DEF Version, NewPeers, PeersTypeOK
    <2>4. BroadcastAddr(c[1]) /\ UNCHANGED failures
      BY <1>2 DEF Version
    <2> QED
      BY <1>1, <2>1, <2>2, <2>3, <2>4 DEF PeersTypeOK
  <1>3. ASSUME NEW c \in dialing, DialFails(c[1], c[2])
        PROVE  PeersTypeOK'
    <2>1. c[1] \in Nodes /\ c[2] \in Nodes
      BY DEF PeersTypeOK
    <2> QED
      BY <1>3, <2>1, FailType DEF DialFails, PeersTypeOK
  <1>4. ASSUME NEW c \in dialing, VersionFails(c[1], c[2])
        PROVE  PeersTypeOK'
    <2>1. c[1] \in Nodes /\ c[2] \in Nodes
      BY DEF PeersTypeOK
    <2>2. peers' \in [Nodes -> [Nodes -> PeerStates]]
      BY <1>4, <2>1 DEF VersionFails, PeersTypeOK, PeerStates
    <2>3. failures' \in 0 .. MaxFailures
      BY <1>4, PeersAssumption DEF VersionFails, PeersTypeOK
    <2>4. dialing' \subseteq Nodes \X Nodes /\ BroadcastAddr(c[1])
      BY <1>4 DEF VersionFails, PeersTypeOK
    <2> QED
      BY <1>1, <2>1, <2>2, <2>3, <2>4 DEF PeersTypeOK
  <1>5. ASSUME NEW m \in addrs, Addr(m)
        PROVE  PeersTypeOK'
    <2>1. m.to \in Nodes /\ {m.from} \in SUBSET Nodes /\ m.ips \in SUBSET Nodes
      BY DEF PeersTypeOK, Addrs
    <2>2. (IF Live(m.to, m.from) THEN m.ips ELSE {m.from}) \in SUBSET Nodes
      BY <2>1
    <2> QED
      BY <1>5, <2>1, <2>2, ConnectType DEF Addr, PeersTypeOK
  <1> QED
    BY <1>2, <1>3, <1>4, <1>5 DEF PeersNext

LEMMA PeersTypeNext ==
    ASSUME TypeOK, Next
    PROVE  PeersTypeOK'
  <1>0. PeersTypeOK
    BY DEF TypeOK
  <1>1. CASE UNCHANGED peerVars
    BY <1>0, <1>1 DEF peerVars, PeersTypeOK
  <1>2. CASE PeersNext
    BY <1>0, <1>2, PeersStepType
  <1>3. ASSUME NEW inv \in sent, Inv(inv) \/ LoseInv(inv)
        PROVE  PeersTypeOK'
    <2>1. inv.to \in Nodes /\ inv.from \in Nodes
      BY DEF TypeOK, Invs
    <2>2. CASE Inv(inv)
      BY <1>0, <2>1, <2>2, ConnectType DEF Inv, PeersTypeOK
    <2>3. CASE LoseInv(inv)
      BY <1>0, <2>1, <2>3, FailType DEF LoseInv, PeersTypeOK
    <2> QED
      BY <1>3, <2>2, <2>3
  <1>4. ASSUME NEW n \in Nodes, GetBlock(n) \/ GetBlockFails(n)
        PROVE  PeersTypeOK'
    <2>1. job[n] # Idle
      BY <1>4, AJobIsNotIdle DEF GetBlock, GetBlockFails
    <2>2. job[n].inv.from \in Nodes
      BY <2>1, JobsType DEF Invs
    <2>3. CASE GetBlock(n)
      BY <1>0, <2>2, <2>3, ConnectType DEF GetBlock, PeersTypeOK
    <2>4. CASE GetBlockFails(n)
      BY <1>0, <2>2, <2>4, FailType DEF GetBlockFails, PeersTypeOK
    <2> QED
      BY <1>4, <2>3, <2>4
  <1>5. ASSUME NEW n \in Nodes, RefusesBlock(n)
        PROVE  PeersTypeOK'
    BY <1>0, <1>5, PeersAssumption DEF RefusesBlock, PeersTypeOK
  <1>6. ASSUME NEW n \in Nodes,
               Mine(n) \/ ReadBlockhashes(n) \/ BroadcastInv(n) \/ RollbackToHeight(n)
                  \/ AddBlock(n) \/ NoClient(n)
        PROVE  UNCHANGED peerVars
    BY <1>6 DEF Mine, ReadBlockhashes, BroadcastInv, RollbackToHeight, AddBlock, NoClient
  <1>7. ASSUME NEW inv \in waiting, Reconcile(inv)
        PROVE  UNCHANGED peerVars
    BY <1>7 DEF Reconcile
  <1> QED
    BY <1>1, <1>2, <1>3, <1>4, <1>5, <1>6, <1>7 DEF Next

LEMMA TypeInit == Init => TypeOK
  <1> SUFFICES ASSUME Init
               PROVE  TypeOK
    OBVIOUS
  <1>1. ASSUME NEW n \in Nodes
        PROVE  OnDisk[n] \in Seq(Block)
    <2>1. OnDisk[n] \in Seq([hash : 0 .. Numbered, prev : Hash \cup {NoHash}])
      BY DiskAssumption
    <2>2. [hash : 0 .. Numbered, prev : Hash \cup {NoHash}] \subseteq Block
      BY DiskAssumption, BoundsAssumption DEF Block, Hash
    <2> QED
      BY <2>1, <2>2, SeqMonotonic
  <1>2. chain \in [Nodes -> Seq(Block)]
    BY <1>1, DiskAssumption DEF Init
  <1>3. mined \in 0 .. MaxBlocks /\ PeersTypeOK
    BY DiskAssumption, BoundsAssumption, PeersTypeInit DEF Init
  <1>4. announced \in [Nodes -> Seq(Hash)] /\ job \in [Nodes -> Jobs]
    BY DEF Init, Nothing, Jobs
  <1> QED
    BY <1>2, <1>3, <1>4 DEF TypeOK, Init

LEMMA TypeNext ==
    ASSUME TypeOK, HashLinked, Next
    PROVE  TypeOK'
  <1> USE BoundsAssumption
  <1>0. PeersTypeOK'
    BY PeersTypeNext
  <1>1. ASSUME NEW n \in Nodes, Mine(n)
        PROVE  TypeOK'
    <2> DEFINE b == [hash |-> mined + 1, prev |-> Tip(n).hash]
    <2>1. mined + 1 \in 0 .. MaxBlocks /\ Tip(n) \in Block
      BY <1>0, <1>1, ChainType DEF Mine, TypeOK
    <2>2. b \in Block
      BY <2>1 DEF Block, Hash
    <2>3. Append(chain[n], b) \in Seq(Block)
      BY <2>2, ChainType
    <2>4. chain' \in [Nodes -> Seq(Block)]
      BY <1>0, <1>1, <2>3 DEF Mine, TypeOK
    <2> QED
      BY <1>0, <1>1, <2>1, <2>4 DEF Mine, TypeOK
  <1>2. ASSUME NEW n \in Nodes, ReadBlockhashes(n)
        PROVE  TypeOK'
    <2>1. Blockhashes(n) \in Seq(Hash)
      BY ChainType, HashesOfChain DEF Blockhashes
    <2> QED
      BY <1>0, <1>2, <2>1 DEF ReadBlockhashes, TypeOK
  <1>3. ASSUME NEW n \in Nodes, BroadcastInv(n)
        PROVE  TypeOK'
    <2>1. announced[n] \in Seq(Hash) /\ Height(n) \in Nat
      BY ChainType DEF TypeOK
    <2>2. ASSUME NEW p \in Nodes
          PROVE  [from |-> n, to |-> p, hashes |-> announced[n], height |-> Height(n)] \in Invs
      BY <2>1 DEF Invs
    <2>3. sent' \subseteq Invs /\ ActivePeers(n) \subseteq Nodes
      BY <1>3, <2>2 DEF BroadcastInv, ActivePeers, TypeOK
    <2>4. announced' \in [Nodes -> Seq(Hash)]
      BY <1>0, <1>3 DEF BroadcastInv, TypeOK, Nothing
    <2> QED
      BY <1>0, <1>3, <2>3, <2>4 DEF BroadcastInv, TypeOK
  <1>4. ASSUME NEW inv \in sent, Inv(inv)
        PROVE  TypeOK'
    BY <1>0, <1>4 DEF Inv, TypeOK
  <1>5. ASSUME NEW inv \in sent, LoseInv(inv)
        PROVE  TypeOK'
    BY <1>0, <1>5 DEF LoseInv, TypeOK
  <1>6. ASSUME NEW inv \in waiting, Reconcile(inv)
        PROVE  TypeOK'
    <2>1. inv \in Invs /\ inv.to \in Nodes /\ Genesis \in Block
      BY DEF TypeOK, Invs, Genesis, Block, Hash, NoHash
    <2>2. CASE UNCHANGED job
      BY <1>0, <1>6, <2>2 DEF Reconcile, TypeOK
    <2>3. ASSUME NEW fork \in 0 .. Height(inv.to), GoesOnFrom(inv, fork),
                 NEW phase \in {"rollback", "fetch"},
                 job' = [job EXCEPT ![inv.to] =
                    [phase |-> phase, inv |-> inv, height |-> fork, block |-> Genesis]]
          PROVE  TypeOK'
      <3>1. fork \in Nat \ {0}
        BY <2>1, <2>3, ChainType DEF GoesOnFrom
      <3>2. [phase |-> phase, inv |-> inv, height |-> fork, block |-> Genesis] \in Jobs
        BY <2>1, <3>1 DEF Jobs
      <3>3. job' \in [Nodes -> Jobs]
        BY <2>3, <3>2 DEF TypeOK
      <3> QED
        BY <1>0, <1>6, <3>3 DEF Reconcile, TypeOK
    <2> QED
      BY <1>6, <2>2, <2>3 DEF Reconcile
  <1>7. ASSUME NEW n \in Nodes, RollbackToHeight(n)
        PROVE  TypeOK'
    <2>1. job[n] # Idle
      BY <1>7, AJobIsNotIdle DEF RollbackToHeight
    <2>2. RolledBack(chain[n], job[n].height) \in Seq(Block)
      BY <2>1, JobsType, ChainType, LinkedCut DEF HashLinked
    <2>3. [job[n] EXCEPT !.phase = "fetch"] \in Jobs
      BY <2>1, JobsType DEF Jobs
    <2> QED
      BY <1>0, <1>7, <2>2, <2>3 DEF RollbackToHeight, TypeOK
  <1>8. ASSUME NEW n \in Nodes, GetBlock(n)
        PROVE  TypeOK'
    <2>1. job[n] # Idle
      BY <1>8, AJobIsNotIdle DEF GetBlock
    <2>2. job[n].inv.from \in Nodes
      BY <2>1, JobsType DEF Invs
    <2>3. ASSUME NEW i \in 1 .. Height(job[n].inv.from)
          PROVE  [job[n] EXCEPT !.phase = "add", !.block = chain[job[n].inv.from][i]] \in Jobs
      <3>1. chain[job[n].inv.from][i] \in Block
        BY <2>2, ChainType
      <3> QED
        BY <2>1, <3>1, JobsType DEF Jobs
    <2>4. Idle \in Jobs
      BY DEF Jobs
    <2>5. CASE job' = [job EXCEPT ![n] = Idle]
      BY <1>0, <1>8, <2>4, <2>5 DEF GetBlock, TypeOK
    <2>6. ASSUME NEW i \in 1 .. Height(job[n].inv.from),
                 job' = [job EXCEPT ![n].phase = "add",
                                    ![n].block = chain[job[n].inv.from][i]]
          PROVE  TypeOK'
      <3>1. job' = [job EXCEPT ![n] = [job[n] EXCEPT !.phase = "add",
                                         !.block = chain[job[n].inv.from][i]]]
        BY <2>6 DEF TypeOK
      <3> QED
        BY <1>0, <1>8, <2>3, <3>1 DEF GetBlock, TypeOK
    <2> QED
      BY <1>8, <2>5, <2>6 DEF GetBlock, Served
  <1>9. ASSUME NEW n \in Nodes, AddBlock(n)
        PROVE  TypeOK'
    <2>1. job[n] # Idle
      BY <1>9, AJobIsNotIdle DEF AddBlock
    <2>2. Idle \in Jobs /\ Genesis \in Block
      BY DEF Jobs, Genesis, Block, Hash, NoHash
    <2>3. [job[n] EXCEPT !.phase = "fetch", !.height = job[n].height + 1, !.block = Genesis]
            \in Jobs
      <3>1. job[n].height + 1 \in Nat \ {0}
        BY <2>1, JobsType
      <3>2. job[n] \in [phase : {"rollback", "fetch", "add"}, inv : Invs,
                        height : Nat \ {0}, block : Block]
        BY <2>1, JobsType
      <3> QED
        BY <2>2, <3>1, <3>2, NextJob DEF Jobs
    <2>4. Append(chain[n], job[n].block) \in Seq(Block)
      BY <2>1, JobsType, ChainType
    <2>5. chain' \in [Nodes -> Seq(Block)]
      BY <1>0, <1>9, <2>4 DEF AddBlock, TypeOK
    <2>6. job' \in [Nodes -> Jobs]
      BY <1>0, <1>9, <2>2, <2>3 DEF AddBlock, TypeOK
    <2> QED
      BY <1>0, <1>9, <2>5, <2>6 DEF AddBlock, TypeOK
  <1>10. ASSUME NEW n \in Nodes, GetBlockFails(n) \/ NoClient(n) \/ RefusesBlock(n)
         PROVE  TypeOK'
    <2>1. Idle \in Jobs
      BY DEF Jobs
    <2>2. job' \in [Nodes -> Jobs]
      BY <1>10, <2>1 DEF GetBlockFails, NoClient, RefusesBlock, TypeOK
    <2>3. UNCHANGED <<chain, mined, announced, sent, waiting>>
      BY <1>10 DEF GetBlockFails, NoClient, RefusesBlock
    <2> QED
      BY <1>0, <2>2, <2>3 DEF TypeOK
  <1>11. ASSUME UNCHANGED <<chain, mined, announced, sent, waiting, job>>
         PROVE  TypeOK'
    BY <1>0, <1>11 DEF TypeOK
  <1> QED
    BY <1>1, <1>2, <1>3, <1>4, <1>5, <1>6, <1>7, <1>8, <1>9, <1>10, <1>11 DEF Next

LEMMA LinkedInit == Init => HashLinked
  BY DiskAssumption DEF Init, HashLinked

LEMMA MineChain ==
    ASSUME TypeOK, HashLinked, NEW n \in Nodes, Mine(n)
    PROVE  /\ chain'[n] = Append(chain[n], [hash |-> mined + 1, prev |-> Tip(n).hash])
           /\ \A p \in Nodes : p # n => chain'[p] = chain[p]
           /\ Linked(chain'[n])
  <1> DEFINE b == [hash |-> mined + 1, prev |-> Tip(n).hash]
  <1>1. chain'[n] = Append(chain[n], b) /\ \A p \in Nodes : p # n => chain'[p] = chain[p]
    BY DEF Mine, TypeOK
  <1>2. mined + 1 \in 0 .. MaxBlocks /\ Tip(n) \in Block
    BY BoundsAssumption, ChainType DEF Mine, TypeOK
  <1>3. b \in Block /\ b.prev = chain[n][Len(chain[n])].hash
    BY <1>2 DEF Block, Hash, Tip
  <1> QED
    BY <1>1, <1>3, ChainType, LinkedAppend DEF HashLinked

LEMMA RollbackChain ==
    ASSUME TypeOK, HashLinked, NEW n \in Nodes, RollbackToHeight(n)
    PROVE  /\ chain'[n] = RolledBack(chain[n], job[n].height)
           /\ \A p \in Nodes : p # n => chain'[p] = chain[p]
           /\ Linked(chain'[n])
           /\ Height(n)' = IF job[n].height < Height(n) THEN job[n].height ELSE Height(n)
           /\ \A i \in 1 .. Height(n)' : chain'[n][i] = chain[n][i]
  <1>1. job[n].height \in Nat \ {0}
    BY AJobIsNotIdle, JobsType DEF RollbackToHeight
  <1>2. /\ chain'[n] = RolledBack(chain[n], job[n].height)
        /\ \A p \in Nodes : p # n => chain'[p] = chain[p]
    BY DEF RollbackToHeight, TypeOK
  <1>3. chain[n] \in Seq(Block) /\ Linked(chain[n])
    BY ChainType DEF HashLinked
  <1> QED
    BY <1>1, <1>2, <1>3, LinkedCut DEF Height

LEMMA AddBlockChain ==
    ASSUME TypeOK, HashLinked, NEW n \in Nodes, AddBlock(n)
    PROVE  /\ \A p \in Nodes : p # n => chain'[p] = chain[p]
           /\ \/ chain'[n] = chain[n]
              \/ /\ job[n].block.prev = Tip(n).hash
                 /\ chain'[n] = Append(chain[n], job[n].block)
           /\ Linked(chain'[n])
  <1>1. job[n].block \in Block
    BY AJobIsNotIdle, JobsType DEF AddBlock
  <1>2. chain[n] \in Seq(Block) /\ Linked(chain[n])
    BY ChainType DEF HashLinked
  <1>3. CASE Extends(job[n].block, Tip(n))
    <2>1. /\ chain'[n] = Append(chain[n], job[n].block)
          /\ \A p \in Nodes : p # n => chain'[p] = chain[p]
      BY <1>3 DEF AddBlock, TypeOK
    <2>2. job[n].block.prev = Tip(n).hash
      BY <1>3 DEF Extends
    <2> QED
      BY <1>1, <1>2, <2>1, <2>2, LinkedAppend DEF Tip
  <1>4. CASE ~Extends(job[n].block, Tip(n))
    BY <1>2, <1>4 DEF AddBlock
  <1> QED
    BY <1>3, <1>4

\* How a reconciliation ends before its last block.
GivesUp(n) == GetBlockFails(n) \/ NoClient(n) \/ RefusesBlock(n)

LEMMA GivenUp ==
    ASSUME TypeOK, NEW n \in Nodes, GivesUp(n)
    PROVE  /\ job[n] # Idle
           /\ \A p \in Nodes : job'[p] = IF p = n THEN Idle ELSE job[p]
           /\ UNCHANGED <<chain, mined, announced, sent, waiting>>
  <1>1. job[n] # Idle
    BY AJobIsNotIdle DEF GivesUp, GetBlockFails, NoClient, RefusesBlock
  <1> QED
    BY <1>1 DEF GivesUp, GetBlockFails, NoClient, RefusesBlock, TypeOK

\* The other steps leave every chain.
LEMMA OtherSteps ==
    ASSUME Next
    PROVE  \/ \E n \in Nodes : Mine(n) \/ RollbackToHeight(n) \/ AddBlock(n)
           \/ UNCHANGED chain
  BY DEF Next, ReadBlockhashes, BroadcastInv, GetBlock, GetBlockFails, NoClient, RefusesBlock,
         Inv, LoseInv, Reconcile

\* What a step makes of the job of its node; the other nodes keep theirs.
LEMMA RollbackJob ==
    ASSUME TypeOK, NEW n \in Nodes, RollbackToHeight(n)
    PROVE  /\ job'[n] = [job[n] EXCEPT !.phase = "fetch"]
           /\ \A p \in Nodes : p # n => job'[p] = job[p]
  BY DEF RollbackToHeight, TypeOK

LEMMA GetBlockJob ==
    ASSUME TypeOK, NEW n \in Nodes, GetBlock(n)
    PROVE  /\ \/ job'[n] = Idle
              \/ \E i \in Served(job[n].inv.from,
                                job[n].inv.hashes[TheirIdx(job[n].inv, job[n].height + 1) + 1]) :
                    job'[n] = [job[n] EXCEPT !.phase = "add",
                                             !.block = chain[job[n].inv.from][i]]
           /\ \A p \in Nodes : p # n => job'[p] = job[p]
  <1> DEFINE hash == job[n].inv.hashes[TheirIdx(job[n].inv, job[n].height + 1) + 1]
  <1>1. CASE job' = [job EXCEPT ![n] = Idle]
    BY <1>1 DEF TypeOK
  <1>2. ASSUME NEW i \in Served(job[n].inv.from, hash),
               job' = [job EXCEPT ![n].phase = "add", ![n].block = chain[job[n].inv.from][i]]
        PROVE  /\ job'[n] = [job[n] EXCEPT !.phase = "add",
                                           !.block = chain[job[n].inv.from][i]]
               /\ \A p \in Nodes : p # n => job'[p] = job[p]
    <2>1. job' = [job EXCEPT ![n] = [job[n] EXCEPT !.phase = "add",
                                                   !.block = chain[job[n].inv.from][i]]]
      BY <1>2 DEF TypeOK
    <2> QED
      BY <2>1 DEF TypeOK
  <1> QED
    BY <1>1, <1>2 DEF GetBlock

LEMMA AddBlockJob ==
    ASSUME TypeOK, NEW n \in Nodes, AddBlock(n)
    PROVE  /\ \/ job'[n] = Idle
              \/ /\ MoreToFetch(job[n].height + 1, job[n].inv)
                 /\ job'[n] = [job[n] EXCEPT !.phase = "fetch", !.height = job[n].height + 1,
                                             !.block = Genesis]
           /\ \A p \in Nodes : p # n => job'[p] = job[p]
  BY DEF AddBlock, TypeOK

LEMMA ReconcileJob ==
    ASSUME TypeOK, NEW inv \in waiting, Reconcile(inv)
    PROVE  \/ job' = job
           \/ /\ inv.height > Height(inv.to)
              /\ \E fork \in 0 .. Height(inv.to), phase \in {"rollback", "fetch"} :
                    /\ SearchEndsAt(inv.to, inv, fork) /\ GoesOnFrom(inv, fork)
                    /\ job'[inv.to] = [phase |-> phase, inv |-> inv, height |-> fork,
                                       block |-> Genesis]
              /\ \A p \in Nodes : p # inv.to => job'[p] = job[p]
  <1>1. inv.to \in Nodes
    BY DEF TypeOK, Invs
  <1>2. ASSUME NEW r, job' = [job EXCEPT ![inv.to] = r]
        PROVE  job'[inv.to] = r /\ \A p \in Nodes : p # inv.to => job'[p] = job[p]
    BY <1>1, <1>2 DEF TypeOK
  <1>3. CASE UNCHANGED job
    BY <1>3
  <1>4. ASSUME inv.height > Height(inv.to), NEW fork \in 0 .. Height(inv.to),
               SearchEndsAt(inv.to, inv, fork),
               job' = IF GoesOnFrom(inv, fork)
                      THEN [job EXCEPT ![inv.to] =
                              [phase |-> IF fork = Height(inv.to) THEN "fetch" ELSE "rollback",
                               inv |-> inv, height |-> fork, block |-> Genesis]]
                      ELSE job
        PROVE  \/ job' = job
               \/ /\ \E phase \in {"rollback", "fetch"} :
                        /\ GoesOnFrom(inv, fork)
                        /\ job'[inv.to] = [phase |-> phase, inv |-> inv, height |-> fork,
                                           block |-> Genesis]
                  /\ \A p \in Nodes : p # inv.to => job'[p] = job[p]
    <2>1. CASE ~GoesOnFrom(inv, fork)
      BY <1>4, <2>1
    <2>2. CASE GoesOnFrom(inv, fork) /\ fork = Height(inv.to)
      BY <1>2, <1>4, <2>2
    <2>3. CASE GoesOnFrom(inv, fork) /\ fork # Height(inv.to)
      BY <1>2, <1>4, <2>3
    <2> QED
      BY <2>1, <2>2, <2>3
  <1> QED
    BY <1>3, <1>4 DEF Reconcile

LEMMA LinkedNext ==
    ASSUME TypeOK, HashLinked, Next
    PROVE  HashLinked'
  <1>1. ASSUME NEW n \in Nodes, Mine(n) \/ RollbackToHeight(n) \/ AddBlock(n)
        PROVE  HashLinked'
    <2>1. Linked(chain'[n]) /\ \A p \in Nodes : p # n => chain'[p] = chain[p]
      BY <1>1, MineChain, RollbackChain, AddBlockChain
    <2> QED
      BY <2>1 DEF HashLinked
  <1>2. CASE UNCHANGED chain
    BY <1>2 DEF HashLinked
  <1> QED
    BY <1>1, <1>2, OtherSteps

-----------------------------------------------------------------------------
(***************************************************************************)
(* One history.                                                            *)
(***************************************************************************)
LEMMA BlockhashesType ==
    ASSUME TypeOK, HashLinked, NEW n \in Nodes
    PROVE  /\ Blockhashes(n) \in Seq(Hash)
           /\ Blockhashes(n) \in Seq(Int)
           /\ Len(Blockhashes(n)) = Height(n)
           /\ \A i \in 1 .. Height(n) :
                Blockhashes(n)[i] = chain[n][Height(n) + 1 - i].hash
  <1>1. Seq(Hash) \subseteq Seq(Int)
    BY BoundsAssumption, SeqMonotonic DEF Hash
  <1> QED
    BY <1>1, ChainType, HashesOfChain DEF Blockhashes, Height

LEMMA HashesOfAppend ==
    ASSUME NEW c \in Seq(Block), NEW b \in Block
    PROVE  /\ Hashes(Append(c, b)) \in Seq(Hash)
           /\ Len(Hashes(Append(c, b))) = Len(c) + 1
           /\ Hashes(Append(c, b))[1] = b.hash
           /\ \A i \in 2 .. Len(c) + 1 : Hashes(Append(c, b))[i] = Hashes(c)[i - 1]
  <1> DEFINE a == Append(c, b)
  <1>1. /\ a \in Seq(Block)
        /\ Len(a) = Len(c) + 1
        /\ \A i \in 1 .. Len(c) : a[i] = c[i]
        /\ a[Len(c) + 1] = b
    OBVIOUS
  <1> HIDE DEF a
  <1>2. /\ Hashes(a) \in Seq(Hash)
        /\ Len(Hashes(a)) = Len(a)
        /\ \A i \in 1 .. Len(a) : Hashes(a)[i] = a[Len(a) + 1 - i].hash
    BY <1>1, HashesOfChain
  <1>3. Hashes(a)[1] = b.hash
    BY <1>1, <1>2
  <1>4. ASSUME NEW i \in 2 .. Len(c) + 1
        PROVE  Hashes(a)[i] = Hashes(c)[i - 1]
    <2>1. Len(c) + 2 - i \in 1 .. Len(c) /\ i - 1 \in 1 .. Len(c) /\ i \in 1 .. Len(a)
      BY <1>1
    <2>2. Hashes(a)[i] = c[Len(c) + 2 - i].hash
      BY <1>1, <1>2, <2>1
    <2>3. Hashes(c)[i - 1] = c[Len(c) + 1 - (i - 1)].hash
      BY <2>1, HashesOfChain
    <2> QED
      BY <2>2, <2>3
  <1> QED
    BY <1>1, <1>2, <1>3, <1>4 DEF a

LEMMA HashesOfCut ==
    ASSUME NEW c \in Seq(Block), NEW d \in Seq(Block), Len(d) <= Len(c),
           \A i \in 1 .. Len(d) : d[i] = c[i]
    PROVE  EndOf(Hashes(d), Hashes(c))
  <1>1. ASSUME NEW i \in 1 .. Len(d)
        PROVE  Hashes(d)[i] = Hashes(c)[Len(c) - Len(d) + i]
    <2>1. Len(d) + 1 - i \in 1 .. Len(d) /\ Len(c) - Len(d) + i \in 1 .. Len(c)
      OBVIOUS
    <2>2. Hashes(d)[i] = c[Len(d) + 1 - i].hash
      BY <2>1, HashesOfChain
    <2>3. Hashes(c)[Len(c) - Len(d) + i] = c[Len(c) + 1 - (Len(c) - Len(d) + i)].hash
      BY <2>1, HashesOfChain
    <2> QED
      BY <2>2, <2>3
  <1> QED
    BY <1>1, HashesOfChain DEF EndOf

LEMMA KnownType ==
    ASSUME TypeOK, Numbers
    PROVE  Known \subseteq Seq(Int)
  <1>1. 0 .. mined \subseteq Int
    BY DEF TypeOK
  <1> QED
    BY <1>1, SeqMonotonic DEF Numbers

\* A block that is added to a chain makes it an end of the list it is from.
LEMMA AddBlockHashes ==
    ASSUME IInv, NEW n \in Nodes, AddBlock(n), chain'[n] # chain[n]
    PROVE  /\ Blockhashes(n)' \in Seq(Int)
           /\ EndOf(Blockhashes(n)', job[n].inv.hashes)
           /\ Len(Blockhashes(n)') = Len(job[n].inv.hashes) - NextHash(job[n]) + 1
  <1> DEFINE l == job[n].inv.hashes
             b == job[n].block
             h == NextHash(job[n])
             old == Blockhashes(n)
             new == Blockhashes(n)'
  <1>1. TypeOK /\ HashLinked /\ Numbers /\ OneHistory /\ JobsFit
    BY DEF IInv
  <1>2. job[n] # Idle /\ job[n].phase = "add"
    BY AJobIsNotIdle DEF AddBlock
  <1>3. l \in Known /\ old \in Known
    BY <1>2 DEF Known
  <1>4. l \in Seq(Int) /\ old \in Seq(Int) /\ SamePast(l, old)
    BY <1>1, <1>3, KnownType DEF OneHistory
  <1>5. /\ h \in 1 .. Len(l)
        /\ b.hash = l[h]
        /\ b.prev = IF h = Len(l) THEN NoHash ELSE l[h + 1]
    BY <1>1, <1>2 DEF JobsFit, Fits, InList, Fetched
  <1>6. b.prev = Tip(n).hash /\ chain'[n] = Append(chain[n], b)
    BY <1>1, AddBlockChain
  <1>7. /\ Len(old) = Height(n) /\ Height(n) \in Nat \ {0}
        /\ old[1] = Tip(n).hash
        /\ Tip(n).hash # NoHash
    <2>1. old[1] = chain[n][Height(n) + 1 - 1].hash
      BY <1>1, BlockhashesType, ChainType
    <2>2. Height(n) + 1 - 1 = Height(n)
      BY <1>1, ChainType
    <2>3. Tip(n).hash # NoHash
      BY <1>1, ChainType, BoundsAssumption DEF Block, Hash, NoHash
    <2> QED
      BY <1>1, <2>1, <2>2, <2>3, BlockhashesType, ChainType DEF Tip, Height
  <1>8. h + 1 \in 1 .. Len(l) /\ l[h + 1] = old[1]
    BY <1>4, <1>5, <1>6, <1>7
  <1>9. /\ Len(l) - (h + 1) = Len(old) - 1
        /\ \A k \in 0 .. Len(l) - (h + 1) : l[(h + 1) + k] = old[1 + k]
    <2>1. 1 \in 1 .. Len(old)
      BY <1>7
    <2> HIDE DEF l, old, h
    <2> QED
      BY <1>4, <1>8, <2>1 DEF SamePast
  <1>10. /\ new \in Seq(Hash)
         /\ Len(new) = Len(old) + 1
         /\ new[1] = b.hash
         /\ \A i \in 2 .. Len(old) + 1 : new[i] = old[i - 1]
    <2>1. chain[n] \in Seq(Block) /\ b \in Block
      BY <1>1, <1>2, ChainType, JobsType
    <2>2. new = Hashes(Append(chain[n], b)) /\ Len(old) = Len(chain[n])
      BY <1>6, <1>7 DEF Blockhashes, Height
    <2> QED
      BY <2>1, <2>2, HashesOfAppend DEF Blockhashes
  <1> HIDE DEF l, b, h, old, new
  <1>11. Len(new) = Len(l) - h + 1 /\ Len(new) \in Nat /\ Len(l) \in Nat
    BY <1>4, <1>7, <1>9, <1>10, <1>5
  <1>12. ASSUME NEW i \in 1 .. Len(new)
         PROVE  new[i] = l[Len(l) - Len(new) + i]
    <2>1. Len(l) - Len(new) + i = (h - 1) + i
      BY <1>5, <1>11
    <2>2. CASE i = 1
      BY <1>5, <1>10, <2>1, <2>2
    <2>3. CASE i > 1
      <3>1. i - 2 \in 0 .. Len(l) - (h + 1) /\ i \in 2 .. Len(old) + 1
        BY <1>5, <1>9, <1>10, <1>11, <2>3
      <3>2. l[(h + 1) + (i - 2)] = old[1 + (i - 2)]
        BY <1>9, <3>1
      <3>3. (h + 1) + (i - 2) = (h - 1) + i /\ 1 + (i - 2) = i - 1
        BY <1>5
      <3> QED
        BY <1>10, <2>1, <3>1, <3>2, <3>3
    <2> QED
      BY <1>11, <2>2, <2>3
  <1>13. new \in Seq(Int)
    BY <1>10, BoundsAssumption, SeqMonotonic DEF Hash
  <1>14. EndOf(new, l)
    BY <1>5, <1>11, <1>12 DEF EndOf
  <1> QED
    BY <1>11, <1>13, <1>14 DEF l, h, new

\* The lists of a step are ends of lists that agree.
LEMMA HistoryFrom ==
    ASSUME NEW K, K \subseteq Seq(Int), K # {}, \A s, t \in K : SamePast(s, t),
           TypeOK', HashLinked',
           \A s \in K : \A i \in 1 .. Len(s) : s[i] \in 0 .. mined',
           \A p \in Nodes : \E s \in K : EndOf(Blockhashes(p)', s),
           \A p \in Nodes : announced'[p] \in K \cup {Nothing},
           \A inv \in sent' \cup waiting' : inv.hashes \in K,
           \A p \in Nodes : job'[p] # Idle => job'[p].inv.hashes \in K
    PROVE  Numbers' /\ OneHistory'
  <1>1. ASSUME NEW p \in Nodes
        PROVE  Blockhashes(p)' \in Seq(Int)
    <2>1. chain'[p] \in Seq(Block)
      BY DEF TypeOK
    <2>2. Hashes(chain'[p]) \in Seq(Hash)
      BY <2>1, HashesOfChain
    <2> QED
      BY <2>2, BoundsAssumption, SeqMonotonic DEF Hash, Blockhashes
  <1>2. Nothing \in Seq(Int) /\ \A s \in K : EndOf(Nothing, s)
    BY DEF Nothing, EndOf
  <1>3. ASSUME NEW l \in Known'
        PROVE  l \in Seq(Int) /\ \E s \in K : EndOf(l, s)
    <2>1. CASE \E p \in Nodes : l = Blockhashes(p)'
      BY <1>1, <2>1
    <2>2. CASE l \in K
      BY <2>2, EndOfItself
    <2>3. CASE l = Nothing
      BY <1>2, <2>3
    <2> QED
      BY <2>1, <2>2, <2>3 DEF Known
  <1>4. OneHistory'
    <2>1. \A l, m \in Known' : SamePast(l, m)
      BY <1>3, EndsOfKnown
    <2> QED
      BY <2>1 DEF OneHistory
  <1>5. ASSUME NEW l \in Known'
        PROVE  l \in Seq(0 .. mined')
    <2>1. PICK s \in K : EndOf(l, s)
      BY <1>3
    <2>2. ASSUME NEW i \in 1 .. Len(l)
          PROVE  l[i] \in 0 .. mined'
      <3>1. l \in Seq(Int) /\ s \in Seq(Int)
        BY <1>3
      <3>2. Len(s) - Len(l) + i \in 1 .. Len(s) /\ l[i] = s[Len(s) - Len(l) + i]
        BY <2>1, <3>1 DEF EndOf
      <3> QED
        BY <3>2
    <2> QED
      BY <1>3, <2>2, SeqOfElements
  <1> QED
    BY <1>4, <1>5 DEF Numbers

LEMMA HistoryInit == Init => Numbers /\ OneHistory
  <1> SUFFICES ASSUME Init
               PROVE  Numbers /\ OneHistory
    OBVIOUS
  <1>1. ASSUME NEW n \in Nodes
        PROVE  Hashes(OnDisk[n]) \in Seq(0 .. mined)
    <2> DEFINE c == OnDisk[n]
               B == [hash : 0 .. Numbered, prev : Hash \cup {NoHash}]
    <2>1. c \in Seq(B) /\ mined = Numbered
      BY DiskAssumption DEF Init
    <2>2. ASSUME NEW i \in 1 .. Len(c)
          PROVE  c[Len(c) + 1 - i].hash \in 0 .. Numbered
      <3>1. Len(c) + 1 - i \in 1 .. Len(c)
        BY <2>1
      <3>2. c[Len(c) + 1 - i] \in B
        BY <2>1, <3>1, ElementOfSeq
      <3> QED
        BY <3>2
    <2>3. Hashes(c) \in [1 .. Len(c) -> 0 .. Numbered]
      BY <2>2 DEF Hashes
    <2>4. Len(c) \in Nat
      BY <2>1
    <2>5. Hashes(c) \in UNION {[1 .. k -> 0 .. Numbered] : k \in Nat}
      BY <2>3, <2>4
    <2> QED
      BY <2>1, <2>5, SeqDef
  <1>2. ASSUME NEW l \in Known
        PROVE  l = Nothing \/ \E n \in Nodes : l = Hashes(OnDisk[n])
    BY DEF Known, Init, Blockhashes
  <1>3. Nothing \in Seq(0 .. mined) /\ Len(Nothing) = 0
    BY DEF Nothing
  <1>4. Numbers
    BY <1>1, <1>2, <1>3 DEF Numbers
  <1>5. ASSUME NEW l \in Known, NEW m \in Known
        PROVE  SamePast(l, m)
    <2>1. CASE l = Nothing \/ m = Nothing
      BY <1>3, <2>1 DEF SamePast
    <2>2. CASE \E n, p \in Nodes : l = Hashes(OnDisk[n]) /\ m = Hashes(OnDisk[p])
      BY <2>2, DiskAssumption
    <2> QED
      BY <1>2, <2>1, <2>2
  <1> QED
    BY <1>4, <1>5 DEF OneHistory

LEMMA HistoryKept ==
    ASSUME IInv, TypeOK', HashLinked', NEW n \in Nodes, mined' = mined,
           \A p \in Nodes :
              chain'[p] = chain[p] \/ \E s \in Known : EndOf(Blockhashes(p)', s),
           \A p \in Nodes : announced'[p] \in Known \cup {Nothing},
           \A inv \in sent' \cup waiting' : inv.hashes \in Known,
           \A p \in Nodes : job'[p] # Idle => job'[p].inv.hashes \in Known
    PROVE  Numbers' /\ OneHistory'
  <1>1. TypeOK /\ HashLinked /\ Numbers /\ OneHistory
    BY DEF IInv
  <1>2. Known \subseteq Seq(Int) /\ \A s, t \in Known : SamePast(s, t)
    BY <1>1, KnownType DEF OneHistory
  <1>3. Blockhashes(n) \in Known
    BY DEF Known
  <1>4. \A s \in Known : \A i \in 1 .. Len(s) : s[i] \in 0 .. mined'
    BY <1>1, ElementOfSeq DEF Numbers
  <1>5. ASSUME NEW p \in Nodes
        PROVE  \E s \in Known : EndOf(Blockhashes(p)', s)
    <2>1. CASE chain'[p] = chain[p]
      <3>1. Blockhashes(p)' = Blockhashes(p) /\ Blockhashes(p) \in Known
        BY <2>1 DEF Blockhashes, Known
      <3> QED
        BY <1>2, <3>1, EndOfItself
    <2> QED
      BY <2>1
  <1> HIDE DEF Known
  <1> QED
    BY <1>2, <1>3, <1>4, <1>5, HistoryFrom

LEMMA HistoryNext ==
    ASSUME IInv, Next, TypeOK', HashLinked'
    PROVE  Numbers' /\ OneHistory'
  <1>0. TypeOK /\ HashLinked /\ Numbers /\ OneHistory /\ JobsFit
    BY DEF IInv
  <1>1. ASSUME NEW n \in Nodes, Mine(n)
        PROVE  Numbers' /\ OneHistory'
    <2> DEFINE old == Blockhashes(n)
               new == Blockhashes(n)'
               K == Known \cup {new}
    <2>1. Known \subseteq Seq(Int) /\ \A s, t \in Known : SamePast(s, t)
      BY <1>0, KnownType DEF OneHistory
    <2>2. old \in Known
      BY DEF Known
    <2>3. mined \in Nat /\ mined' = mined + 1 /\ mined + 1 \in 0 .. MaxBlocks
      BY <1>0, <1>1, BoundsAssumption DEF Mine, TypeOK
    <2>4. \A s \in Known : \A i \in 1 .. Len(s) : s[i] \in 0 .. mined
      BY <1>0, ElementOfSeq DEF Numbers
    <2>5. /\ new \in Seq(Hash)
          /\ Len(new) = Len(old) + 1
          /\ new[1] = mined + 1
          /\ \A i \in 2 .. Len(old) + 1 : new[i] = old[i - 1]
      <3> DEFINE b == [hash |-> mined + 1, prev |-> Tip(n).hash]
      <3>1. b \in Block /\ chain[n] \in Seq(Block) /\ b.hash = mined + 1
        BY <1>0, <2>3, ChainType DEF Block, Hash
      <3>2. new = Hashes(Append(chain[n], b))
        BY <1>0, <1>1, MineChain DEF Blockhashes
      <3>3. Len(old) = Len(chain[n]) /\ old = Hashes(chain[n])
        BY <1>0, BlockhashesType DEF Height, Blockhashes
      <3> HIDE DEF old, new, b
      <3> QED
        BY <3>1, <3>2, <3>3, HashesOfAppend
    <2> HIDE DEF old, new
    <2>6. new \in Seq(Int)
      BY <2>5, BoundsAssumption, SeqMonotonic DEF Hash
    <2>7. \A s, t \in K : SamePast(s, t)
      <3>1. \A s \in Known : \A i \in 1 .. Len(s) : s[i] # mined + 1
        BY <2>3, <2>4
      <3>2. mined + 1 \in Int
        BY <2>3
      <3> HIDE DEF Known
      <3> QED
        BY <2>1, <2>2, <2>5, <2>6, <3>1, <3>2, NewHashAgrees
    <2>8. \A s \in K : \A i \in 1 .. Len(s) : s[i] \in 0 .. mined'
      <3>1. \A s \in Known : \A i \in 1 .. Len(s) : s[i] \in 0 .. mined'
        BY <2>3, <2>4
      <3>2. ASSUME NEW i \in 1 .. Len(new)
            PROVE  new[i] \in 0 .. mined'
        <4>1. CASE i = 1
          BY <2>3, <2>5, <4>1
        <4>2. CASE i > 1
          <5>1. old \in Seq(Int)
            BY <2>1, <2>2
          <5>2. i - 1 \in 1 .. Len(old) /\ new[i] = old[i - 1]
            BY <2>5, <4>2, <5>1
          <5> QED
            BY <2>2, <3>1, <5>2
        <4> QED
          BY <2>6, <4>1, <4>2
      <3> QED
        BY <3>1, <3>2
    <2>9. ASSUME NEW p \in Nodes
          PROVE  Blockhashes(p)' \in K
      <3>1. CASE p = n
        BY <3>1 DEF new
      <3>2. CASE p # n
        <4>1. Blockhashes(p)' = Blockhashes(p)
          BY <1>0, <1>1, <3>2, MineChain DEF Blockhashes
        <4> QED
          BY <4>1 DEF Known
      <3> QED
        BY <3>1, <3>2
    <2>10. \A p \in Nodes : \E s \in K : EndOf(Blockhashes(p)', s)
      BY <2>1, <2>6, <2>9, EndOfItself
    <2>11. /\ \A p \in Nodes : announced'[p] \in K \cup {Nothing}
           /\ \A inv \in sent' \cup waiting' : inv.hashes \in K
           /\ \A p \in Nodes : job'[p] # Idle => job'[p].inv.hashes \in K
      BY <1>1 DEF Mine, Known
    <2>12. K \subseteq Seq(Int) /\ K # {}
      BY <2>1, <2>2, <2>6
    <2> HIDE DEF K
    <2> QED
      BY <2>7, <2>8, <2>10, <2>11, <2>12, HistoryFrom
  <1>2. ASSUME NEW n \in Nodes, ReadBlockhashes(n)
        PROVE  Numbers' /\ OneHistory'
    <2>1. \A p \in Nodes : announced'[p] \in Known
      BY <1>0, <1>2 DEF ReadBlockhashes, Known, TypeOK
    <2>2. /\ \A inv \in sent' \cup waiting' : inv.hashes \in Known
          /\ \A p \in Nodes : job'[p] # Idle => job'[p].inv.hashes \in Known
          /\ chain' = chain /\ mined' = mined
      BY <1>2 DEF ReadBlockhashes, Known
    <2> QED
      BY <2>1, <2>2, HistoryKept
  <1>3. ASSUME NEW n \in Nodes, BroadcastInv(n)
        PROVE  Numbers' /\ OneHistory'
    <2>1. \A inv \in sent' \cup waiting' : inv.hashes \in Known
      BY <1>3 DEF BroadcastInv, Known
    <2>2. \A p \in Nodes : announced'[p] \in Known \cup {Nothing}
      BY <1>0, <1>3 DEF BroadcastInv, Known, TypeOK
    <2>3. /\ \A p \in Nodes : job'[p] # Idle => job'[p].inv.hashes \in Known
          /\ chain' = chain /\ mined' = mined
      BY <1>3 DEF BroadcastInv, Known
    <2> QED
      BY <2>1, <2>2, <2>3, HistoryKept
  <1>4. ASSUME NEW inv \in sent, Inv(inv) \/ LoseInv(inv)
        PROVE  Numbers' /\ OneHistory'
    <2>1. inv.to \in Nodes
      BY <1>0 DEF TypeOK, Invs
    <2>2. /\ \A i \in sent' \cup waiting' : i.hashes \in Known
          /\ \A p \in Nodes : announced'[p] \in Known
          /\ \A p \in Nodes : job'[p] # Idle => job'[p].inv.hashes \in Known
          /\ chain' = chain /\ mined' = mined
      BY <1>4 DEF Inv, LoseInv, Known
    <2> QED
      BY <2>1, <2>2, HistoryKept
  <1>5. ASSUME NEW inv \in waiting, Reconcile(inv)
        PROVE  Numbers' /\ OneHistory'
    <2>1. inv.to \in Nodes
      BY <1>0 DEF TypeOK, Invs
    <2>2. ASSUME NEW p \in Nodes, job'[p] # Idle
          PROVE  job'[p].inv = inv \/ job'[p] = job[p]
      <3>1. CASE job' = job
        BY <3>1
      <3>2. CASE p # inv.to
        BY <1>0, <1>5, <3>2, ReconcileJob
      <3>3. CASE job' # job /\ p = inv.to
        <4>1. PICK fork \in 0 .. Height(inv.to), phase \in {"rollback", "fetch"} :
                job'[inv.to] = [phase |-> phase, inv |-> inv, height |-> fork,
                                block |-> Genesis]
          BY <1>0, <1>5, <3>3, ReconcileJob
        <4> QED
          BY <3>3, <4>1
      <3> QED
        BY <3>1, <3>2, <3>3
    <2>3. \A p \in Nodes : job'[p] # Idle => job'[p].inv.hashes \in Known
      BY <2>2 DEF Known
    <2>4. /\ \A i \in sent' \cup waiting' : i.hashes \in Known
          /\ \A p \in Nodes : announced'[p] \in Known
          /\ chain' = chain /\ mined' = mined
      BY <1>5 DEF Reconcile, Known
    <2> QED
      BY <2>1, <2>3, <2>4, HistoryKept
  <1>6. ASSUME NEW n \in Nodes,
               RollbackToHeight(n) \/ GetBlock(n) \/ AddBlock(n) \/ GivesUp(n)
        PROVE  Numbers' /\ OneHistory'
    <2>1. job[n] # Idle
      BY <1>0, <1>6, AJobIsNotIdle, GivenUp DEF RollbackToHeight, GetBlock, AddBlock
    <2>2. ASSUME NEW p \in Nodes, job'[p] # Idle
          PROVE  job[p] # Idle /\ job'[p].inv = job[p].inv
      <3>1. job[n].inv = [job[n] EXCEPT !.phase = "fetch"].inv
        BY <1>0, <2>1, JobsType
      <3>2. \A b : job[n].inv = [job[n] EXCEPT !.phase = "add", !.block = b].inv
        BY <1>0, <2>1, JobsType
      <3>3. \A h, b : job[n].inv =
                    [job[n] EXCEPT !.phase = "fetch", !.height = h, !.block = b].inv
        BY <1>0, <2>1, JobsType
      <3>4. CASE RollbackToHeight(n)
        BY <1>0, <2>1, <2>2, <3>1, <3>4, RollbackJob
      <3>5. CASE GetBlock(n)
        <4>1. CASE p # n
          BY <1>0, <2>2, <3>5, <4>1, GetBlockJob
        <4>2. CASE p = n
          <5>1. PICK i \in Served(job[n].inv.from,
                        job[n].inv.hashes[TheirIdx(job[n].inv, job[n].height + 1) + 1]) :
                  job'[n] = [job[n] EXCEPT !.phase = "add", !.block = chain[job[n].inv.from][i]]
            BY <1>0, <2>2, <3>5, <4>2, GetBlockJob
          <5>2. job'[n].inv = job[n].inv
            BY <3>2, <5>1
          <5> QED
            BY <2>1, <4>2, <5>2
        <4> QED
          BY <4>1, <4>2
      <3>6. CASE AddBlock(n)
        <4>1. CASE p # n
          BY <1>0, <2>2, <3>6, <4>1, AddBlockJob
        <4>2. CASE p = n
          <5>1. job'[n] = [job[n] EXCEPT !.phase = "fetch", !.height = job[n].height + 1,
                                         !.block = Genesis]
            BY <1>0, <2>2, <3>6, <4>2, AddBlockJob
          <5>2. job'[n].inv = job[n].inv
            BY <3>3, <5>1
          <5> QED
            BY <2>1, <4>2, <5>2
        <4> QED
          BY <4>1, <4>2
      <3>7. CASE GivesUp(n)
        BY <1>0, <2>2, <3>7, GivenUp
      <3> QED
        BY <1>6, <3>4, <3>5, <3>6, <3>7
    <2>3. \A p \in Nodes : job'[p] # Idle => job'[p].inv.hashes \in Known
      BY <2>2 DEF Known
    <2>4. /\ \A i \in sent' \cup waiting' : i.hashes \in Known
          /\ \A p \in Nodes : announced'[p] \in Known
          /\ mined' = mined
      BY <1>0, <1>6, GivenUp DEF RollbackToHeight, GetBlock, AddBlock, Known
    <2>5. ASSUME NEW p \in Nodes
          PROVE  chain'[p] = chain[p] \/ \E s \in Known : EndOf(Blockhashes(p)', s)
      <3>1. CASE p # n \/ GetBlock(n) \/ GivesUp(n)
        BY <1>0, <1>6, <3>1, RollbackChain, AddBlockChain, GivenUp DEF GetBlock
      <3>2. CASE p = n /\ AddBlock(n)
        <4>1. job[n].inv.hashes \in Known
          BY <2>1 DEF Known
        <4> QED
          BY <3>2, <4>1, AddBlockHashes
      <3>3. CASE p = n /\ RollbackToHeight(n)
        <4>1. /\ chain'[n] \in Seq(Block) /\ chain[n] \in Seq(Block)
              /\ Len(chain'[n]) <= Len(chain[n])
              /\ \A i \in 1 .. Len(chain'[n]) : chain'[n][i] = chain[n][i]
          <5>1. job[n].height \in Nat \ {0} /\ Height(n) \in Nat
            BY <1>0, <2>1, JobsType, ChainType
          <5> QED
            BY <1>0, <3>3, <5>1, RollbackChain, ChainType DEF TypeOK, Height
        <4>2. EndOf(Hashes(chain'[n]), Hashes(chain[n]))
          BY <4>1, HashesOfCut
        <4> QED
          BY <3>3, <4>2 DEF Blockhashes, Known
      <3> QED
        BY <1>6, <3>1, <3>2, <3>3
    <2> QED
      BY <2>3, <2>4, <2>5, HistoryKept
  <1>7. ASSUME UNCHANGED <<chain, mined, announced, sent, waiting, job>>
        PROVE  Numbers' /\ OneHistory'
    <2>1. Known' = Known
      BY <1>7 DEF Known, Blockhashes
    <2> QED
      BY <1>0, <1>7, <2>1 DEF IInv, Numbers, OneHistory
  <1> QED
    BY <1>1, <1>2, <1>3, <1>4, <1>5, <1>6, <1>7 DEF Next, GivesUp

-----------------------------------------------------------------------------
(***************************************************************************)
(* What the jobs do fits.                                                  *)
(***************************************************************************)
LEMMA FitKept ==
    ASSUME JobsFit, NEW p \in Nodes,
           job'[p] = job[p] \/ job'[p] = Idle, chain'[p] = chain[p]
    PROVE  Fits(p)'
  <1>1. CASE job'[p] = Idle
    BY <1>1 DEF Fits
  <1>2. CASE job'[p] = job[p] /\ job[p] # Idle
    <2>1. InList(job[p]) /\ AboveTheFork(p) /\ Fetched(job[p])
      BY <1>2 DEF JobsFit, Fits
    <2>2. InList(job'[p]) /\ Fetched(job'[p])
      BY <1>2, <2>1
    <2>3. AboveTheFork(p)'
      BY <1>2, <2>1 DEF AboveTheFork, Height
    <2> QED
      BY <2>2, <2>3 DEF Fits
  <1> QED
    BY <1>1, <1>2

\* A block of a chain and the hash of a list it has are as far from the end.
LEMMA SamePlace ==
    ASSUME IInv, NEW n \in Nodes, NEW i \in 1 .. Height(n), NEW l \in Known,
           NEW k \in 1 .. Len(l), chain[n][i].hash = l[k]
    PROVE  /\ i - 1 = Len(l) - k
           /\ i > 1 => chain[n][i - 1].hash = l[k + 1]
  <1> DEFINE b == Blockhashes(n)
             j == Height(n) + 1 - i
  <1>1. TypeOK /\ HashLinked /\ OneHistory /\ Numbers
    BY DEF IInv
  <1>2. Height(n) \in Nat /\ l \in Seq(Int) /\ b \in Known
    BY <1>1, ChainType, KnownType DEF Known
  <1>3. /\ Len(b) = Height(n)
        /\ \A m \in 1 .. Height(n) : b[m] = chain[n][Height(n) + 1 - m].hash
    BY <1>1, BlockhashesType
  <1>4. j \in 1 .. Height(n) /\ Height(n) + 1 - j = i
    BY <1>2
  <1>5. b[j] = l[k] /\ j \in 1 .. Len(b)
    BY <1>3, <1>4
  <1>6. /\ Len(b) - j = Len(l) - k
        /\ \A m \in 0 .. Len(b) - j : b[j + m] = l[k + m]
    <2>1. SamePast(b, l)
      BY <1>1, <1>2 DEF OneHistory
    <2> HIDE DEF b, j
    <2> QED
      BY <1>5, <2>1 DEF SamePast
  <1>7. i - 1 = Len(l) - k
    <2>1. Len(b) - j = i - 1
      BY <1>2, <1>3, <1>4
    <2> QED
      BY <1>6, <2>1
  <1>8. ASSUME i > 1
        PROVE  chain[n][i - 1].hash = l[k + 1]
    <2>1. 1 \in 0 .. Len(b) - j /\ j + 1 \in 1 .. Height(n) /\ Height(n) + 1 - (j + 1) = i - 1
      BY <1>2, <1>3, <1>8
    <2>2. b[j + 1] = l[k + 1]
      BY <1>6, <2>1
    <2>3. b[j + 1] = chain[n][Height(n) + 1 - (j + 1)].hash
      BY <1>3, <2>1
    <2> QED
      BY <2>1, <2>2, <2>3
  <1> QED
    BY <1>7, <1>8

LEMMA ReconcileFits ==
    ASSUME IInv, NEW inv \in waiting, NEW n \in Nodes, n = inv.to, chain' = chain,
           inv.height > Height(n), NEW fork \in 0 .. Height(n),
           NEW phase \in {"rollback", "fetch"},
           SearchEndsAt(n, inv, fork), GoesOnFrom(inv, fork),
           job'[n] = [phase |-> phase, inv |-> inv, height |-> fork, block |-> Genesis]
    PROVE  Fits(n)'
  <1>1. TypeOK /\ HashLinked
    BY DEF IInv
  <1>2. /\ Height(n) \in Nat /\ inv.height \in Nat /\ inv.hashes \in Seq(Hash)
        /\ inv.hashes \in Known
        /\ Len(inv.hashes) \in Nat
    <2>1. inv \in Invs /\ inv.hashes \in Known
      BY <1>1 DEF TypeOK, Known
    <2>2. inv.height \in Nat /\ inv.hashes \in Seq(Hash)
      BY <2>1 DEF Invs
    <2> QED
      BY <1>1, <2>1, <2>2, ChainType
  <1>3. InList(job'[n])
    BY <1>2 DEF InList, NextHash, GoesOnFrom, TheirIdx
  <1>4. ASSUME Agrees(inv), NEW i \in fork + 1 .. Height(n), NEW k \in 1 .. Len(inv.hashes)
        PROVE  chain[n][i].hash # inv.hashes[k]
    <2> SUFFICES ASSUME chain[n][i].hash = inv.hashes[k]
                 PROVE  FALSE
      OBVIOUS
    <2>1. i \in 1 .. Height(n)
      BY <1>2
    <2>2. i - 1 = Len(inv.hashes) - k
      BY <1>2, <2>1, SamePlace
    <2>3. TheirIdx(inv, i) + 1 = k
      <3>1. Len(inv.hashes) = inv.height
        BY <1>4 DEF Agrees
      <3>2. inv.height - i + 1 = k
        <4>1. ASSUME NEW t \in Nat, NEW m \in Nat, NEW j \in Nat, m - 1 = t - j
              PROVE  t - m + 1 = j
          BY <4>1
        <4>2. i \in Nat /\ k \in Nat
          BY <1>2, <2>1
        <4> QED
          BY <1>2, <2>2, <3>1, <4>1, <4>2
      <3> QED
        BY <3>2 DEF TheirIdx
    <2>4. ~StopsAt(n, inv, i)
      BY <1>4 DEF SearchEndsAt
    <2>5. chain[n][i].hash # inv.hashes[TheirIdx(inv, i) + 1]
      BY <2>4 DEF StopsAt
    <2> QED
      BY <2>3, <2>5
  <1>5. AboveTheFork(n)'
    BY <1>4 DEF AboveTheFork, Height
  <1>6. Fetched(job'[n])
    BY DEF Fetched
  <1> QED
    BY <1>3, <1>5, <1>6 DEF Fits

LEMMA GetBlockFits ==
    ASSUME IInv, NEW n \in Nodes, GetBlock(n)
    PROVE  Fits(n)'
  <1> DEFINE l == job[n].inv.hashes
             h == NextHash(job[n])
             from == job[n].inv.from
             hash == l[TheirIdx(job[n].inv, job[n].height + 1) + 1]
  <1>1. TypeOK /\ HashLinked /\ JobsFit
    BY DEF IInv
  <1>2. job[n] # Idle
    BY AJobIsNotIdle DEF GetBlock
  <1>3. /\ from \in Nodes /\ l \in Known /\ l \in Seq(Hash)
        /\ job[n].inv.height \in Nat /\ job[n].height \in Nat
    BY <1>1, <1>2, JobsType DEF Invs, Known
  <1>4. h \in 1 .. Len(l) /\ hash = l[h]
    <2>1. InList(job[n])
      BY <1>1, <1>2 DEF JobsFit, Fits
    <2>2. TheirIdx(job[n].inv, job[n].height + 1) + 1 = h
      BY <1>3 DEF TheirIdx, NextHash
    <2> QED
      BY <2>1, <2>2 DEF InList
  <1>5. CASE job'[n] = Idle
    BY <1>5 DEF Fits
  <1>6. ASSUME NEW i \in Served(from, hash),
               job'[n] = [job[n] EXCEPT !.phase = "add", !.block = chain[from][i]]
        PROVE  Fits(n)'
    <2>1. /\ i \in 1 .. Height(from) /\ chain[from][i].hash = l[h]
          /\ Height(from) \in Nat
      BY <1>1, <1>3, <1>4, ChainType DEF Served
    <2>2. /\ i - 1 = Len(l) - h
          /\ i > 1 => chain[from][i - 1].hash = l[h + 1]
      BY <1>3, <1>4, <2>1, SamePlace
    <2>3. /\ job'[n].phase = "add" /\ job'[n].inv = job[n].inv
          /\ job'[n].height = job[n].height /\ job'[n].block = chain[from][i]
      BY <1>1, <1>2, <1>6, JobsType
    <2>4. InList(job'[n]) /\ NextHash(job'[n]) = h
      BY <1>1, <1>2, <2>3 DEF JobsFit, Fits, InList, NextHash
    <2>5. CASE i = 1
      <3>1. chain[from][1] = Genesis /\ h = Len(l)
        BY <1>1, <1>3, <1>4, <2>2, <2>5 DEF HashLinked, Linked
      <3> QED
        BY <2>1, <2>3, <2>4, <2>5, <3>1 DEF Fits, Fetched, AboveTheFork, Genesis
    <2>6. CASE i > 1
      <3>1. chain[from][i].prev = chain[from][i - 1].hash
        BY <1>1, <1>3, <2>1, <2>6 DEF HashLinked, Linked, Height
      <3>2. h # Len(l)
        BY <1>3, <1>4, <2>1, <2>2, <2>6
      <3> QED
        BY <2>1, <2>2, <2>3, <2>4, <2>6, <3>1, <3>2 DEF Fits, Fetched, AboveTheFork
    <2> QED
      BY <2>1, <2>5, <2>6
  <1> QED
    BY <1>1, <1>5, <1>6, GetBlockJob

LEMMA AddBlockFits ==
    ASSUME IInv, NEW n \in Nodes, AddBlock(n)
    PROVE  Fits(n)'
  <1>1. TypeOK /\ JobsFit
    BY DEF IInv
  <1>2. job[n] # Idle
    BY AJobIsNotIdle DEF AddBlock
  <1>3. CASE job'[n] = Idle
    BY <1>3 DEF Fits
  <1>4. CASE /\ MoreToFetch(job[n].height + 1, job[n].inv)
             /\ job'[n] = [job[n] EXCEPT !.phase = "fetch", !.height = job[n].height + 1,
                                         !.block = Genesis]
    <2>1. /\ job'[n].phase = "fetch" /\ job'[n].inv = job[n].inv
          /\ job'[n].height = job[n].height + 1
      BY <1>1, <1>2, <1>4, JobsType
    <2>2. /\ job[n].inv.height \in Nat /\ job[n].height \in Nat
          /\ job[n].inv.hashes \in Seq(Hash)
      BY <1>1, <1>2, JobsType DEF Invs
    <2>3. InList(job[n])
      BY <1>1, <1>2 DEF JobsFit, Fits
    <2>4. InList(job'[n])
      <3>1. job[n].height + 1 < job[n].inv.height
        BY <1>4 DEF MoreToFetch
      <3>2. job[n].inv.height - job[n].height \in 1 .. Len(job[n].inv.hashes)
        BY <2>3 DEF InList, NextHash
      <3>3. job[n].inv.height - (job[n].height + 1) \in 1 .. Len(job[n].inv.hashes)
        <4>1. ASSUME NEW t \in Nat, NEW h \in Nat, NEW k \in Nat,
                     h + 1 < t, t - h \in 1 .. k
              PROVE  t - (h + 1) \in 1 .. k
          BY <4>1
        <4>2. Len(job[n].inv.hashes) \in Nat
          BY <2>2
        <4> QED
          BY <2>2, <3>1, <3>2, <4>1, <4>2
      <3> QED
        BY <2>1, <3>3 DEF InList, NextHash
    <2> QED
      BY <2>1, <2>4 DEF Fits, AboveTheFork, Fetched
  <1> QED
    BY <1>1, <1>3, <1>4, AddBlockJob

LEMMA MineFits ==
    ASSUME IInv, NEW n \in Nodes, Mine(n)
    PROVE  Fits(n)'
  <1>1. TypeOK /\ HashLinked /\ Numbers /\ JobsFit
    BY DEF IInv
  <1>2. job' = job
    BY DEF Mine
  <1> SUFFICES ASSUME job[n] # Idle
               PROVE  InList(job[n])' /\ AboveTheFork(n)' /\ Fetched(job[n])'
    BY <1>2 DEF Fits
  <1>3. InList(job[n]) /\ AboveTheFork(n) /\ Fetched(job[n])
    BY <1>1 DEF JobsFit, Fits
  <1>4. InList(job[n])' /\ Fetched(job[n])'
    BY <1>2, <1>3 DEF InList, Fetched, NextHash
  <1>5. ASSUME job[n].phase = "rollback", Agrees(job[n].inv),
               NEW i \in job[n].height + 1 .. Height(n)', NEW k \in 1 .. Len(job[n].inv.hashes)
        PROVE  chain'[n][i].hash # job[n].inv.hashes[k]
    <2> DEFINE b == [hash |-> mined + 1, prev |-> Tip(n).hash]
    <2>1. /\ chain[n] \in Seq(Block) /\ chain'[n] = Append(chain[n], b)
          /\ job[n].height \in Nat
      BY <1>1, ChainType, MineChain, JobsType
    <2>2. /\ Height(n)' = Height(n) + 1 /\ Height(n) \in Nat
          /\ \A m \in 1 .. Height(n) : chain'[n][m] = chain[n][m]
          /\ chain'[n][Height(n) + 1] = b
      BY <2>1 DEF Height
    <2>3. CASE i <= Height(n)
      <3>1. i \in job[n].height + 1 .. Height(n) /\ i \in 1 .. Height(n)
        BY <2>1, <2>2, <2>3
      <3> QED
        BY <1>3, <1>5, <2>2, <3>1 DEF AboveTheFork
    <2>4. CASE i = Height(n) + 1
      <3>1. job[n].inv.hashes \in Seq(0 .. mined)
        BY <1>1 DEF Numbers, Known
      <3>2. job[n].inv.hashes[k] \in 0 .. mined
        BY <3>1, ElementOfSeq
      <3>3. chain'[n][i].hash = mined + 1 /\ mined \in Nat
        BY <1>1, <2>2, <2>4, BoundsAssumption DEF TypeOK
      <3> QED
        BY <3>2, <3>3
    <2>5. i \in job[n].height + 1 .. Height(n) + 1
      BY <2>2
    <2>6. i <= Height(n) \/ i = Height(n) + 1
      BY <2>1, <2>2, <2>5
    <2> QED
      BY <2>3, <2>4, <2>6
  <1>6. AboveTheFork(n)'
    BY <1>2, <1>5 DEF AboveTheFork
  <1> QED
    BY <1>4, <1>6

LEMMA RollbackFits ==
    ASSUME IInv, NEW n \in Nodes, RollbackToHeight(n)
    PROVE  Fits(n)'
  <1>1. TypeOK /\ JobsFit
    BY DEF IInv
  <1>2. job[n] # Idle
    BY AJobIsNotIdle DEF RollbackToHeight
  <1>3. /\ job'[n].phase = "fetch" /\ job'[n].inv = job[n].inv
        /\ job'[n].height = job[n].height
    BY <1>1, <1>2, RollbackJob, JobsType
  <1>4. InList(job'[n])
    BY <1>1, <1>2, <1>3 DEF JobsFit, Fits, InList, NextHash
  <1> QED
    BY <1>3, <1>4 DEF Fits, AboveTheFork, Fetched

LEMMA JobsNext ==
    ASSUME IInv, Next
    PROVE  JobsFit'
  <1>0. TypeOK /\ HashLinked /\ JobsFit
    BY DEF IInv
  <1>1. ASSUME NEW n \in Nodes, Mine(n) \/ RollbackToHeight(n) \/ GetBlock(n) \/ AddBlock(n)
        PROVE  JobsFit'
    <2>1. Fits(n)'
      BY <1>1, MineFits, RollbackFits, GetBlockFits, AddBlockFits
    <2>2. ASSUME NEW p \in Nodes, p # n
          PROVE  Fits(p)'
      <3>1. chain'[p] = chain[p]
        BY <1>0, <1>1, <2>2, MineChain, RollbackChain, AddBlockChain DEF GetBlock
      <3>2. job'[p] = job[p]
        BY <1>0, <1>1, <2>2, RollbackJob, GetBlockJob, AddBlockJob DEF Mine
      <3> QED
        BY <1>0, <3>1, <3>2, FitKept
    <2> QED
      BY <2>1, <2>2 DEF JobsFit
  <1>2. ASSUME NEW inv \in waiting, Reconcile(inv)
        PROVE  JobsFit'
    <2>1. chain' = chain /\ inv.to \in Nodes
      BY <1>0, <1>2 DEF Reconcile, TypeOK, Invs
    <2>2. ASSUME NEW p \in Nodes
          PROVE  Fits(p)'
      <3>1. CASE job' = job \/ p # inv.to
        <4>1. job'[p] = job[p]
          BY <1>0, <1>2, <3>1, ReconcileJob
        <4> QED
          BY <1>0, <2>1, <4>1, FitKept
      <3>2. CASE job' # job /\ p = inv.to
        <4>1. PICK fork \in 0 .. Height(p), phase \in {"rollback", "fetch"} :
                /\ inv.height > Height(p)
                /\ SearchEndsAt(p, inv, fork) /\ GoesOnFrom(inv, fork)
                /\ job'[p] = [phase |-> phase, inv |-> inv, height |-> fork,
                              block |-> Genesis]
          BY <1>0, <1>2, <3>2, ReconcileJob
        <4> QED
          BY <2>1, <3>2, <4>1, ReconcileFits
      <3> QED
        BY <3>1, <3>2
    <2> QED
      BY <2>2 DEF JobsFit
  <1>3. CASE /\ UNCHANGED chain
             /\ \A p \in Nodes : job'[p] = job[p] \/ job'[p] = Idle
    BY <1>0, <1>3, FitKept DEF JobsFit
  <1>4. ASSUME NEW n \in Nodes, ReadBlockhashes(n) \/ BroadcastInv(n) \/ GivesUp(n)
        PROVE  /\ UNCHANGED chain
               /\ \A p \in Nodes : job'[p] = job[p] \/ job'[p] = Idle
    BY <1>0, <1>4, GivenUp DEF ReadBlockhashes, BroadcastInv
  <1>5. ASSUME NEW inv \in sent, Inv(inv) \/ LoseInv(inv)
        PROVE  UNCHANGED <<chain, job>>
    BY <1>5 DEF Inv, LoseInv
  <1> QED
    BY <1>1, <1>2, <1>3, <1>4, <1>5 DEF Next, GivesUp

-----------------------------------------------------------------------------
(***************************************************************************)
(* The theorems.                                                           *)
(***************************************************************************)
LEMMA Inductive == Spec => []IInv
  <1>1. Init => IInv
    <2> SUFFICES ASSUME Init
                 PROVE  IInv
      OBVIOUS
    <2>1. JobsFit
      BY DEF Init, JobsFit, Fits
    <2> QED
      BY <2>1, TypeInit, LinkedInit, HistoryInit DEF IInv
  <1>2. IInv /\ [Next]_vars => IInv'
    <2> SUFFICES ASSUME IInv, [Next]_vars
                 PROVE  IInv'
      OBVIOUS
    <2>0. TypeOK /\ HashLinked
      BY DEF IInv
    <2>1. CASE Next
      <3>1. TypeOK' /\ HashLinked'
        BY <2>0, <2>1, TypeNext, LinkedNext
      <3>2. Numbers' /\ OneHistory'
        BY <2>1, <3>1, HistoryNext
      <3>3. JobsFit'
        BY <2>1, JobsNext
      <3> QED
        BY <3>1, <3>2, <3>3 DEF IInv
    <2>2. CASE UNCHANGED vars
      <3>1. TypeOK' /\ HashLinked'
        <4>1. PeersTypeOK'
          BY <2>0, <2>2 DEF vars, peerVars, TypeOK, PeersTypeOK
        <4> QED
          BY <2>0, <2>2, <4>1 DEF vars, TypeOK, HashLinked
      <3>2. Known' = Known
        BY <2>2 DEF vars, Known, Blockhashes
      <3>3. Numbers' /\ OneHistory'
        BY <2>2, <3>2 DEF vars, IInv, Numbers, OneHistory
      <3>4. JobsFit'
        BY <2>2, FitKept DEF vars, IInv, JobsFit
      <3> QED
        BY <3>1, <3>3, <3>4 DEF IInv
    <2> QED
      BY <2>1, <2>2
  <1> QED
    BY <1>1, <1>2, PTL DEF Spec

\* Every chain starts at the genesis block and each block names the one before
\* it, on any number of nodes, whatever they mine, fetch and take back between
\* the steps of a reconciliation (blockchains.go:113).
THEOREM ChainsLinked == Spec => []HashLinked
  <1>1. IInv => HashLinked
    BY DEF IInv
  <1> QED
    BY <1>1, Inductive, PTL

\* No rollback takes back a block that the announced chain has too, if the
\* hashes and the height announced are of one chain (node.go:581-602).
THEOREM CommonKept == Spec => CommonBlocksKept
  <1> DEFINE Kept == \A n \in Nodes :
                job[n].phase = "rollback" /\ Agrees(job[n].inv) => KeepsCommon(n, job[n].inv)
  <1>1. IInv /\ [Next]_vars => [Kept]_vars
    <2> SUFFICES ASSUME IInv, [Next]_vars, vars' # vars, NEW n \in Nodes,
                        job[n].phase = "rollback", Agrees(job[n].inv)
                 PROVE  KeepsCommon(n, job[n].inv)
      BY DEF vars
    <2>1. TypeOK /\ HashLinked /\ JobsFit
      BY DEF IInv
    <2>2. job[n] # Idle /\ AboveTheFork(n) /\ job[n].height \in Nat /\ Height(n) \in Nat
      BY <2>1, AJobIsNotIdle, JobsType, ChainType DEF JobsFit, Fits
    <2>3. CASE RollbackToHeight(n)
      <3>1. Height(n)' = IF job[n].height < Height(n) THEN job[n].height ELSE Height(n)
        BY <2>1, <2>3, RollbackChain
      <3>2. \A i \in Height(n)' + 1 .. Height(n) : i \in job[n].height + 1 .. Height(n)
        BY <2>2, <3>1
      <3> QED
        BY <2>2, <3>2 DEF AboveTheFork, KeepsCommon
    <2>4. CASE ~RollbackToHeight(n)
      <3>1. Height(n)' \in Nat /\ Height(n)' >= Height(n)
        <4>1. CASE Mine(n)
          <5> DEFINE b == [hash |-> mined + 1, prev |-> Tip(n).hash]
          <5>1. chain'[n] = Append(chain[n], b) /\ chain[n] \in Seq(Block)
            BY <2>1, <4>1, MineChain, ChainType
          <5>2. Len(Append(chain[n], b)) = Len(chain[n]) + 1
            BY <5>1
          <5> HIDE DEF b
          <5> QED
            BY <2>2, <5>1, <5>2 DEF Height
        <4>2. ~AddBlock(n)
          BY DEF AddBlock
        <4>3. CASE ~Mine(n)
          <5>1. chain'[n] = chain[n]
            <6>1. CASE UNCHANGED chain
              BY <6>1
            <6>2. ASSUME NEW p \in Nodes, p # n, Mine(p) \/ RollbackToHeight(p) \/ AddBlock(p)
                  PROVE  chain'[n] = chain[n]
              BY <2>1, <6>2, MineChain, RollbackChain, AddBlockChain
            <6> QED
              BY <2>4, <4>2, <4>3, <6>1, <6>2, OtherSteps DEF vars
          <5> QED
            BY <2>2, <5>1 DEF Height
        <4> QED
          BY <4>1, <4>3
      <3>2. Height(n)' + 1 .. Height(n) = {}
        BY <2>2, <3>1
      <3> QED
        BY <3>2 DEF KeepsCommon
    <2> QED
      BY <2>3, <2>4
  <1> QED
    BY <1>1, Inductive, PTL DEF Spec, CommonBlocksKept

\* A reconciliation that adds its last block leaves exactly the chain that was
\* announced, whatever happened to both chains meanwhile (node.go:604-622).
THEOREM Adopted == Spec => AdoptsTheAnnounced
  <1> DEFINE Adopts == \A n \in Nodes :
                job[n].phase = "add" /\ job'[n] = Idle /\ chain'[n] # chain[n]
                    => Blockhashes(n)' = job[n].inv.hashes
  <1>1. IInv /\ [Next]_vars => [Adopts]_vars
    <2> SUFFICES ASSUME IInv, [Next]_vars, vars' # vars, NEW n \in Nodes,
                        job[n].phase = "add", job'[n] = Idle, chain'[n] # chain[n]
                 PROVE  Blockhashes(n)' = job[n].inv.hashes
      BY DEF vars
    <2> DEFINE new == Blockhashes(n)'
               l == job[n].inv.hashes
    <2>1. TypeOK /\ HashLinked /\ JobsFit
      BY DEF IInv
    <2>2. job[n] # Idle /\ InList(job[n])
      BY <2>1, AJobIsNotIdle DEF JobsFit, Fits
    <2>3. AddBlock(n)
      <3>1. ~Mine(n)
        BY <2>2 DEF Mine
      <3>2. ~RollbackToHeight(n)
        BY DEF RollbackToHeight
      <3>3. ASSUME NEW p \in Nodes, p # n, Mine(p) \/ RollbackToHeight(p) \/ AddBlock(p)
            PROVE  FALSE
        BY <2>1, <3>3, MineChain, RollbackChain, AddBlockChain
      <3> QED
        BY <3>1, <3>2, <3>3, OtherSteps DEF vars
    <2>4. /\ new \in Seq(Int) /\ EndOf(new, l)
          /\ Len(new) = Len(l) - NextHash(job[n]) + 1
      BY <2>3, AddBlockHashes
    <2>5. NextHash(job[n]) = 1
      <3>1. ~MoreToFetch(job[n].height + 1, job[n].inv)
        <4>1. CASE Extends(job[n].block, Tip(n))
          <5>1. [job[n] EXCEPT !.phase = "fetch", !.height = job[n].height + 1,
                               !.block = Genesis].phase = "fetch"
            BY <2>1, <2>2, JobsType
          <5>2. CASE MoreToFetch(job[n].height + 1, job[n].inv)
            <6>1. job' = [job EXCEPT ![n] =
                    [job[n] EXCEPT !.phase = "fetch", !.height = job[n].height + 1,
                                   !.block = Genesis]]
              BY <2>3, <4>1, <5>2 DEF AddBlock
            <6>2. job'[n] = [job[n] EXCEPT !.phase = "fetch", !.height = job[n].height + 1,
                                           !.block = Genesis]
              BY <2>1, <6>1 DEF TypeOK
            <6>3. job'[n].phase = "fetch"
              BY <5>1, <6>2
            <6> QED
              BY <6>3 DEF Idle
          <5> QED
            BY <5>2
        <4>2. CASE ~Extends(job[n].block, Tip(n))
          BY <2>3, <4>2 DEF AddBlock
        <4> QED
          BY <4>1, <4>2
      <3>2. job[n].inv.height \in Nat /\ job[n].height \in Nat
        BY <2>1, <2>2, JobsType DEF Invs
      <3>3. job[n].inv.height - job[n].height >= 1
        BY <2>2, <3>2 DEF InList, NextHash
      <3> QED
        BY <3>1, <3>2, <3>3 DEF MoreToFetch, NextHash
    <2>6. l \in Seq(Int)
      BY <2>1, <2>2, KnownType DEF IInv, Known
    <2>7. Len(new) = Len(l)
      BY <2>4, <2>5, <2>6
    <2>8. \A i \in 1 .. Len(new) : new[i] = l[i]
      BY <2>4, <2>6, <2>7 DEF EndOf
    <2> HIDE DEF new, l
    <2>9. new = l
      BY <2>4, <2>6, <2>7, <2>8, SeqEqual
    <2> QED
      BY <2>9 DEF new, l
  <1> QED
    BY <1>1, Inductive, PTL DEF Spec, AdoptsTheAnnounced
=============================================================================
