------------------------------- MODULE Peers -------------------------------
(***************************************************************************)
(* The life of a CNode in net.cpp: the threads that open, accept, serve    *)
(* and close connections share vNodes, hold plain pointers into it, and    *)
(* delete a node only when its references are gone and a time has passed.  *)
(*                                                                         *)
(* What is done under one lock of cs_vNodes is one step; a step ends where *)
(* the lock is given up with a pointer still in hand.                      *)
(***************************************************************************)
EXTENDS Integers, FiniteSets

CONSTANTS
  Nodes,       \* bound on the CNode objects that are ever made
  Addresses,   \* addresses to connect to
  Openers,     \* ThreadOpenConnections and ThreadOpenAddedConnections
  MaxOutbound, \* slots of semOutbound
  MaxInbound   \* nodes accepted at a time

ASSUME PeersAssumption ==
  {MaxOutbound, MaxInbound} \subseteq Nat /\ IsFiniteSet(Openers) /\ "none" \notin Nodes

VARIABLES
  vNodes, vNodesDisconnected, deleted, \* where each node that was made is
  nRefCount, nodeAddr,
  fDisconnect, fInbound, fNetworkNode, \* nodes with the flag
  kept,          \* disconnected nodes whose nReleaseTime is not over
  slots,         \* value of semOutbound
  hasGrant,      \* nodes whose grantOutbound holds a slot
  opener,        \* where each opener is, with its address and its node
  socketAt, socketNodes,   \* the socket thread and its vNodesCopy
  messageAt, messageNodes, \* the message thread and its vNodesCopy
  stopping       \* "no", "posting", "waiting" or "stopped": StopNode

nodeSets == <<vNodes, vNodesDisconnected, deleted, nodeAddr>>
flags == <<fDisconnect, fInbound, fNetworkNode, kept>>
outbound == <<slots, hasGrant, opener>>
socketThread == <<socketAt, socketNodes>>
messageThread == <<messageAt, messageNodes>>
peerVars == <<nodeSets, nRefCount, flags, outbound, socketThread, messageThread, stopping>>

Made == vNodes \cup vNodesDisconnected \cup deleted
fShutdownNow == stopping # "no"
Idle == [at |-> "wait", addr |-> "none", node |-> "none"]

PeerInit ==
  /\ vNodes = {} /\ vNodesDisconnected = {} /\ deleted = {}
  /\ nRefCount = [n \in Nodes |-> 0] /\ nodeAddr = [n \in Nodes |-> "none"]
  /\ fDisconnect = {} /\ fInbound = {} /\ fNetworkNode = {} /\ kept = {}
  /\ slots = MaxOutbound /\ hasGrant = {} /\ opener = [o \in Openers |-> Idle]
  /\ socketAt = "disconnect" /\ socketNodes = {}
  /\ messageAt = "copy" /\ messageNodes = {}
  /\ stopping = "no"

AddRefs(ns) == nRefCount' = [n \in Nodes |-> IF n \in ns THEN nRefCount[n] + 1 ELSE nRefCount[n]]
Releases(ns) == nRefCount' = [n \in Nodes |-> IF n \in ns THEN nRefCount[n] - 1 ELSE nRefCount[n]]

\* A new node, with the reference its maker takes.
MakeNode(n, a) ==
  /\ n \in Nodes \ Made
  /\ vNodes' = vNodes \cup {n}
  /\ nodeAddr' = [nodeAddr EXCEPT ![n] = a]
  /\ AddRefs({n})
  /\ UNCHANGED <<vNodesDisconnected, deleted>>

----------------------------------------------------------------------------
(* The socket thread. *)

\* Mutant: the release time is left out.
DeletableAtOnce(n) == nRefCount[n] <= 0

\* A disconnected node is deleted when nobody refers to it any more.
Deletable(n) == nRefCount[n] <= 0 /\ n \notin kept

\* Nodes to disconnect leave vNodes and lose the reference of their maker; any of
\* the deletable ones whose locks are free are deleted.
SocketDisconnects ==
  /\ socketAt = "disconnect"
  /\ \E gone \in {{n \in vNodes : n \in fDisconnect \/ nRefCount[n] <= 0}},
        freed \in SUBSET {n \in vNodesDisconnected : Deletable(n)} :
       /\ vNodes' = vNodes \ gone
       /\ vNodesDisconnected' = (vNodesDisconnected \cup gone) \ freed
       /\ deleted' = deleted \cup freed
       /\ slots' = slots + Cardinality(hasGrant \cap (gone \cup freed))
       /\ hasGrant' = hasGrant \ (gone \cup freed)
       /\ fDisconnect' = fDisconnect \cup gone
       /\ kept' = kept \cup gone
       /\ Releases(gone \cap (fNetworkNode \cup fInbound))
  /\ socketAt' = "select"
  /\ UNCHANGED <<nodeAddr, fInbound, fNetworkNode, opener, socketNodes, messageThread, stopping>>

SocketSelects ==
  /\ socketAt = "select"
  /\ socketAt' = IF fShutdownNow THEN "ended" ELSE "copy"
  /\ UNCHANGED <<nodeSets, nRefCount, flags, outbound, socketNodes, messageThread, stopping>>

SocketAccepts(n, a) ==
  /\ socketAt = "copy"
  /\ Cardinality(vNodes \cap fInbound) < MaxInbound
  /\ MakeNode(n, a)
  /\ fInbound' = fInbound \cup {n}
  /\ UNCHANGED <<fDisconnect, fNetworkNode, kept, outbound, socketThread, messageThread, stopping>>

SocketCopies ==
  /\ socketAt = "copy"
  /\ socketNodes' = vNodes
  /\ AddRefs(vNodes)
  /\ socketAt' = "serve"
  /\ UNCHANGED <<nodeSets, flags, outbound, messageThread, stopping>>

\* Sockets that were closed, failed, or have been silent too long.
SocketServes ==
  /\ socketAt = "serve"
  /\ IF fShutdownNow THEN socketAt' = "ended" /\ UNCHANGED fDisconnect
     ELSE /\ \E lost \in SUBSET socketNodes : fDisconnect' = fDisconnect \cup lost
          /\ socketAt' = "release"
  /\ UNCHANGED <<nodeSets, nRefCount, fInbound, fNetworkNode, kept, outbound, socketNodes,
                 messageThread, stopping>>

SocketReleases ==
  /\ socketAt = "release"
  /\ Releases(socketNodes)
  /\ socketNodes' = {}
  /\ socketAt' = "disconnect"
  /\ UNCHANGED <<nodeSets, flags, outbound, messageThread, stopping>>

SocketThread == SocketDisconnects \/ SocketSelects \/ SocketCopies \/ SocketServes \/ SocketReleases

----------------------------------------------------------------------------
(* The message thread.  It is counted in vnThreadsRunning unless it sleeps. *)

MessageCopies ==
  /\ messageAt = "copy"
  /\ messageNodes' = vNodes
  /\ AddRefs(vNodes)
  /\ messageAt' = "handle"
  /\ UNCHANGED <<nodeSets, flags, outbound, socketThread, stopping>>

\* Handlers give up on some of the peers.
MessageHandles ==
  /\ messageAt = "handle"
  /\ IF fShutdownNow THEN messageAt' = "ended" /\ UNCHANGED fDisconnect
     ELSE /\ \E bad \in SUBSET messageNodes : fDisconnect' = fDisconnect \cup bad
          /\ messageAt' = "release"
  /\ UNCHANGED <<nodeSets, nRefCount, fInbound, fNetworkNode, kept, outbound,
                 socketThread, messageNodes, stopping>>

MessageReleases ==
  /\ messageAt = "release"
  /\ Releases(messageNodes)
  /\ messageNodes' = {}
  /\ messageAt' = "sleep"
  /\ UNCHANGED <<nodeSets, flags, outbound, socketThread, stopping>>

WakesUpTo == IF fShutdownNow THEN "ended" ELSE "copy"

MessageWakes ==
  /\ messageAt = "sleep"
  /\ messageAt' = WakesUpTo
  /\ UNCHANGED <<nodeSets, nRefCount, flags, outbound, socketThread, messageNodes, stopping>>

MessageThread == MessageCopies \/ MessageHandles \/ MessageReleases \/ MessageWakes

----------------------------------------------------------------------------
(* The threads that open connections. *)

At(o, where) == opener[o].at = where
Moves(o, where) == opener' = [opener EXCEPT ![o].at = where]

OpenerGetsSlot(o) ==
  /\ At(o, "wait") /\ slots > 0
  /\ slots' = slots - 1
  /\ Moves(o, "choose")
  /\ UNCHANGED <<nodeSets, nRefCount, flags, hasGrant, socketThread, messageThread, stopping>>

\* The grant gives its slot back when it goes out of scope.
DropsGrant(o) ==
  /\ slots' = slots + 1
  /\ opener' = [opener EXCEPT ![o] = [Idle EXCEPT !.at = IF fShutdownNow THEN "ended" ELSE "wait"]]

\* OpenNetworkConnection wants an address nobody in vNodes has.
OpenerChooses(o) ==
  /\ At(o, "choose")
  /\ \/ /\ ~fShutdownNow
        /\ \E a \in Addresses :
             /\ \A n \in vNodes : nodeAddr[n] # a
             /\ opener' = [opener EXCEPT ![o] = [at |-> "connect", addr |-> a, node |-> "none"]]
        /\ UNCHANGED slots
     \/ DropsGrant(o)
  /\ UNCHANGED <<nodeSets, nRefCount, flags, hasGrant, socketThread, messageThread, stopping>>

\* ConnectNode looks again, and finds a node that was made since.
OpenerFinds(o) ==
  /\ At(o, "connect")
  /\ \E n \in vNodes : nodeAddr[n] = opener[o].addr
       /\ opener' = [opener EXCEPT ![o].at = "found", ![o].node = n]
  /\ UNCHANGED <<nodeSets, nRefCount, flags, slots, hasGrant, socketThread, messageThread, stopping>>

OpenerAddsRef(o) ==
  /\ At(o, "found")
  /\ AddRefs({opener[o].node})
  /\ Moves(o, "opened")
  /\ UNCHANGED <<nodeSets, flags, slots, hasGrant, socketThread, messageThread, stopping>>

\* The connection fails, or a new node joins vNodes; another opener may have
\* connected to the address meanwhile.
OpenerConnects(o) ==
  /\ At(o, "connect")
  /\ \E n \in Nodes :
       /\ MakeNode(n, opener[o].addr)
       /\ opener' = [opener EXCEPT ![o].at = "opened", ![o].node = n]
  /\ UNCHANGED <<flags, slots, hasGrant, socketThread, messageThread, stopping>>

OpenerFails(o) ==
  /\ At(o, "connect")
  /\ DropsGrant(o)
  /\ UNCHANGED <<nodeSets, nRefCount, flags, hasGrant, socketThread, messageThread, stopping>>

\* The slot moves to the node, which gives up the one it may have had.
OpenerMovesGrant(o) ==
  /\ At(o, "opened")
  /\ IF fShutdownNow THEN DropsGrant(o) /\ UNCHANGED <<hasGrant, fNetworkNode>>
     ELSE LET n == opener[o].node IN
          /\ slots' = IF n \in hasGrant THEN slots + 1 ELSE slots
          /\ hasGrant' = hasGrant \cup {n}
          /\ fNetworkNode' = fNetworkNode \cup {n}
          /\ opener' = [opener EXCEPT ![o] = Idle]
  /\ UNCHANGED <<nodeSets, nRefCount, fDisconnect, fInbound, kept, socketThread, messageThread, stopping>>

OpenerThread(o) ==
  \/ OpenerGetsSlot(o) \/ OpenerChooses(o) \/ OpenerFinds(o) \/ OpenerAddsRef(o)
  \/ OpenerConnects(o) \/ OpenerFails(o) \/ OpenerMovesGrant(o)

----------------------------------------------------------------------------

\* A quarter of an hour passes: no thread takes that long between reading a
\* pointer under the lock and taking its reference.
ReleaseTimePasses ==
  /\ kept # {}
  /\ \A o \in Openers : ~At(o, "found")
  /\ kept' = {}
  /\ UNCHANGED <<nodeSets, nRefCount, fDisconnect, fInbound, fNetworkNode, outbound,
                 socketThread, messageThread, stopping>>

\* Mutant: nobody who waits for a slot is woken.
StopNodeWakesNone ==
  /\ stopping = "no"
  /\ stopping' = "waiting"
  /\ UNCHANGED <<nodeSets, nRefCount, flags, outbound, socketThread, messageThread>>

\* StopNode sets the flag and posts a slot for whoever may be waiting.
StopNodePosts ==
  /\ stopping = "no"
  /\ stopping' = "waiting"
  /\ slots' = slots + MaxOutbound
  /\ UNCHANGED <<nodeSets, nRefCount, flags, hasGrant, opener, socketThread, messageThread>>

\* After twenty seconds it waits only for the message thread to be done or asleep.
StopNodeReturns ==
  /\ stopping = "waiting"
  /\ messageAt \in {"sleep", "ended"}
  /\ stopping' = "stopped"
  /\ UNCHANGED <<nodeSets, nRefCount, flags, outbound, socketThread, messageThread>>

PeerNext ==
  \/ SocketThread \/ \E n \in Nodes, a \in Addresses : SocketAccepts(n, a)
  \/ MessageThread
  \/ \E o \in Openers : OpenerThread(o)
  \/ ReleaseTimePasses \/ StopNodePosts \/ StopNodeReturns

PeerFairness ==
  /\ WF_peerVars(SocketThread) /\ WF_peerVars(MessageThread)
  /\ \A o \in Openers : WF_peerVars(OpenerThread(o))
  /\ WF_peerVars(ReleaseTimePasses) /\ WF_peerVars(StopNodeReturns)

PeerSpec == PeerInit /\ [][PeerNext]_peerVars /\ PeerFairness

----------------------------------------------------------------------------

\* A node is not deleted while a thread has a pointer to it, with or without a
\* reference.
NotUsedAfterDelete ==
  deleted \cap (socketNodes \cup messageNodes \cup {opener[o].node : o \in Openers}) = {}

\* When StopNode has returned, the message thread handles nothing any more (net.cpp:1972).
QuietAfterStop ==
  stopping = "stopped" => messageAt \in {"sleep", "ended"}

\* StopNode returns, and the threads end behind it, those that wait for a
\* slot included.
StopNodeEnds ==
  fShutdownNow ~> /\ stopping = "stopped"
                  /\ socketAt = "ended" /\ messageAt = "ended"
                  /\ \A o \in Openers : At(o, "ended")

\* A node that was taken out of vNodes gives its slot back.  It does not when the
\* socket thread disconnects it before its opener hands the slot over (net.cpp:1620).
SlotComesBack ==
  \A n \in Nodes : (n \in hasGrant \cap vNodesDisconnected) ~> n \notin hasGrant
=============================================================================
