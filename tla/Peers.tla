------------------------------- MODULE Peers -------------------------------
(***************************************************************************)
(* Whom the nodes of the network call (node.go): each keeps a state for    *)
(* every peer it has heard of.  It dials a peer it does not know, or that  *)
(* has failed it, when something is heard from that peer or of it, greets  *)
(* it (VERSION), counts it as active from then on and sends its active     *)
(* peers a list of them (ADDR).  A peer that fails to answer one call is   *)
(* INVALID, and it is not called again until it is heard from.             *)
(*                                                                         *)
(* What else is sent to peers, INV and the requests for blocks, is in      *)
(* Reconcile; an ADDR or a transaction that cannot be delivered does to    *)
(* the state here what an INV that fails does, and is left out.  Of two    *)
(* goroutines of a node that dial one peer at the same time one is kept.   *)
(***************************************************************************)
EXTENDS Integers, Sequences, FiniteSets

CONSTANTS
    Nodes,        \* the nodes
    Seeds,        \* the nodes in each node's seeds.txt
    MaxFailures   \* bound: how many calls fail or bring a block that is refused

VARIABLES
    peers,    \* the state of each peer of each node, UNKNOWN if it is in no map
    dialing,  \* the goroutines of connectPeerIfNew about to dial, <<who, whom>>
    addrs,    \* the ADDR calls on their way
    failures

peerVars == <<peers, dialing, addrs, failures>>

ASSUME PeersAssumption ==
    /\ Seeds \in [Nodes -> SUBSET Nodes]
    /\ MaxFailures \in Nat

PeerStates == {"FOUND", "ACTIVE", "INVALID", "UNKNOWN"}

Live(n, p) == peers[n][p] \in {"ACTIVE", "FOUND"}

ActivePeers(n) == {p \in Nodes : peers[n][p] = "ACTIVE"}

\* Mutant: a peer that is in the map is not new, whatever its state.
NewPeers_NotInMap(n, ips) == {p \in ips \ {n} : peers[n][p] = "UNKNOWN"}

NewPeers(n, ips) == {p \in ips \ {n} : ~Live(n, p)}

\* connectPeerIfNew as far as the dialing: new peers are FOUND.
ConnectPeersIfNew(n, ips) ==
    /\ peers' = [peers EXCEPT ![n] =
                    [p \in Nodes |-> IF p \in NewPeers(n, ips) THEN "FOUND" ELSE @[p]]]
    /\ dialing' = dialing \cup ({n} \X NewPeers(n, ips))

\* A node starts by dialing its seeds.
PeersInit ==
    /\ peers = [n \in Nodes |->
                    [p \in Nodes |-> IF p \in Seeds[n] \ {n} THEN "FOUND" ELSE "UNKNOWN"]]
    /\ dialing = {c \in Nodes \X Nodes : c[2] \in Seeds[c[1]] \ {c[1]}}
    /\ addrs = {}
    /\ failures = 0

\* handleRpcReply and the error of Dial.
CallFails(n, p) ==
    /\ failures < MaxFailures
    /\ failures' = failures + 1
    /\ peers' = [peers EXCEPT ![n][p] = "INVALID"]

(***************************************************************************)
(* The peer is dialed and called, and is ACTIVE when it has answered; our  *)
(* active peers are sent a list of them.  In its handler the peer connects *)
(* to us in its turn if we are new to it.  Here it may still be about to   *)
(* when we have its answer, which is at the latest when its dialing ends.  *)
(***************************************************************************)
\* getAddrArgs reads who is active after this step.
BroadcastAddr(n) ==
    addrs' = addrs \cup
        {[from |-> n, to |-> q, ips |-> ActivePeers(n)'] : q \in ActivePeers(n)'}

Version(n, p) ==
    /\ <<n, p>> \in dialing
    /\ dialing' = (dialing \ {<<n, p>>}) \cup ({p} \X NewPeers(p, {n}))
    /\ peers' = [peers EXCEPT ![n][p] = "ACTIVE",
                             ![p][n] = IF n \in NewPeers(p, {n}) THEN "FOUND" ELSE @]
    /\ BroadcastAddr(n)
    /\ UNCHANGED failures

\* The peer answers the dialing but not the call: INVALID, and ACTIVE all the same.
VersionFails(n, p) ==
    /\ <<n, p>> \in dialing
    /\ failures < MaxFailures
    /\ failures' = failures + 1
    /\ dialing' = dialing \ {<<n, p>>}
    /\ peers' = [peers EXCEPT ![n][p] = "ACTIVE"]
    /\ BroadcastAddr(n)

\* Nobody answers the dialing.
DialFails(n, p) ==
    /\ <<n, p>> \in dialing
    /\ CallFails(n, p)
    /\ dialing' = dialing \ {<<n, p>>}
    /\ UNCHANGED addrs

\* Who is not live for us is connected to, and the list is left aside.
Addr(m) ==
    /\ m \in addrs
    /\ addrs' = addrs \ {m}
    /\ ConnectPeersIfNew(m.to, IF Live(m.to, m.from) THEN m.ips ELSE {m.from})
    /\ UNCHANGED failures

PeersNext ==
    \/ \E c \in dialing :
        \/ Version(c[1], c[2])
        \/ DialFails(c[1], c[2])
        \/ VersionFails(c[1], c[2])
    \/ \E m \in addrs : Addr(m)

AddrFrom(n, p) == \E m \in addrs : m.from = n /\ m.to = p /\ Addr(m)

Addrs == [from : Nodes, to : Nodes, ips : SUBSET Nodes]

\* The types of this module's part of the state.
PeersTypeOK ==
    /\ peers \in [Nodes -> [Nodes -> PeerStates]]
    /\ dialing \subseteq Nodes \X Nodes
    /\ addrs \subseteq Addrs
    /\ failures \in 0 .. MaxFailures
=============================================================================
