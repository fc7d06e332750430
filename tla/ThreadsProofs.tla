--------------------------- MODULE ThreadsProofs ---------------------------
(***************************************************************************)
(* The threads of the node, for any number of nodes, openers, miners and   *)
(* database handles: no node is used after it was deleted, no two blocks   *)
(* pay one key, no database is used after it was closed, the files are     *)
(* whole when they are said to be, and the wallet loses no key.            *)
(***************************************************************************)
EXTENDS MCThreads, FiniteSetTheorems, WellFoundedInduction, TLAPS

----------------------------------------------------------------------------
(* Peers.  What may refer to a node: the threads' copies of vNodes, the     *)
(* openers that hold a reference, and vNodes itself for a node whose maker's *)
(* reference it gives up when the node leaves it.                            *)

Opened(n) == {o \in Openers : At(o, "opened") /\ opener[o].node = n}

Owned == vNodes \cap (fNetworkNode \cup fInbound)

\* The references to a node that are known: it may have more, as ConnectNode
\* never gives up the one it takes on a node it found.
Refs(n) ==
  Cardinality(Opened(n)) + (IF n \in socketNodes THEN 1 ELSE 0)
    + (IF n \in messageNodes THEN 1 ELSE 0) + (IF n \in Owned THEN 1 ELSE 0)

Alive == vNodes \cup vNodesDisconnected

PlacesInv ==
  /\ Alive \cup deleted \subseteq Nodes
  /\ vNodes \cap vNodesDisconnected = {}
  /\ Alive \cap deleted = {}
  /\ fNetworkNode \cup fInbound \subseteq Made
  /\ socketNodes \cup messageNodes \subseteq Alive

\* Between reading a pointer and taking the reference a node is at least kept.
OpenersInv ==
  /\ DOMAIN opener = Openers
  /\ \A o \in Openers :
       /\ At(o, "opened") => opener[o].node \in Alive
       /\ At(o, "found") => opener[o].node \in vNodes \cup (vNodesDisconnected \cap kept)
       /\ ~ At(o, "opened") /\ ~ At(o, "found") => opener[o].node = "none"

CopiesInv ==
  /\ socketAt \in {"disconnect", "select", "copy"} => socketNodes = {}
  /\ messageAt \in {"copy", "sleep"} => messageNodes = {}

RefsInv ==
  /\ nRefCount \in [Nodes -> Int]
  /\ \A n \in Nodes : nRefCount[n] >= Refs(n)

PeersInv == PlacesInv /\ OpenersInv /\ CopiesInv /\ RefsInv

\* A node that nobody refers to has a count of zero or more.
LEMMA RefsType ==
  ASSUME NEW n
  PROVE  IsFiniteSet(Opened(n)) /\ Cardinality(Opened(n)) \in Nat /\ Refs(n) \in Nat
<1>1. IsFiniteSet(Opened(n))
  BY PeersAssumption, FS_Subset DEF Opened
<1> QED
  BY <1>1, FS_CardinalityType DEF Refs

LEMMA RefsPositive ==
  ASSUME NEW n, n \in socketNodes \cup messageNodes \/ \E o \in Openers : o \in Opened(n)
  PROVE  Refs(n) >= 1
<1>1. IsFiniteSet(Opened(n)) /\ Cardinality(Opened(n)) \in Nat
  BY RefsType
<1>2. Opened(n) # {} => Cardinality(Opened(n)) # 0
  BY <1>1, FS_EmptySet
<1> QED
  BY <1>1, <1>2 DEF Refs

LEMMA PeersInit == PeerInit => PeersInv
<1> SUFFICES ASSUME PeerInit PROVE PeersInv
  OBVIOUS
<1> USE DEF PeerInit
<1>1. PlacesInv /\ OpenersInv /\ CopiesInv
  BY DEF PlacesInv, OpenersInv, CopiesInv, Alive, Made, At, Idle
<1>2. \A n \in Nodes : Opened(n) = {}
  BY DEF Opened, At, Idle
<1>3. \A n \in Nodes : Refs(n) = 0
  BY <1>2, FS_EmptySet DEF Refs, Owned
<1> QED
  BY <1>1, <1>3 DEF PeersInv, RefsInv

\* What a node's known references become, from what happens to each holder.
LEMMA RefsChange ==
  ASSUME NEW n,
         Opened(n)' = Opened(n)
  PROVE  Refs(n)' - Refs(n) =
           (IF n \in socketNodes' THEN 1 ELSE 0) - (IF n \in socketNodes THEN 1 ELSE 0)
           + (IF n \in messageNodes' THEN 1 ELSE 0) - (IF n \in messageNodes THEN 1 ELSE 0)
           + (IF n \in Owned' THEN 1 ELSE 0) - (IF n \in Owned THEN 1 ELSE 0)
<1>1. Cardinality(Opened(n)) \in Nat
  BY RefsType
<1> QED
  BY <1>1 DEF Refs

\* A step that leaves the nodes, their references and the openers alone.
LEMMA PeersUnchanged ==
  ASSUME PlacesInv, OpenersInv, RefsInv,
         UNCHANGED <<nodeSets, nRefCount, fInbound, fNetworkNode, kept, opener,
                     socketNodes, messageNodes>>
  PROVE  PlacesInv' /\ OpenersInv' /\ RefsInv'
<1>1. PlacesInv' /\ OpenersInv'
  BY DEF PlacesInv, OpenersInv, Alive, Made, nodeSets, At
<1>2. \A n : Refs(n)' = Refs(n)
  <2> TAKE n
  <2>1. Opened(n)' = Opened(n)
    BY DEF Opened, At
  <2> QED
    BY <2>1 DEF Refs, Owned, nodeSets
<1> QED
  BY <1>1, <1>2 DEF RefsInv

\* The socket thread disconnects, deletes, and serves its copy.
LEMMA SocketStep ==
  ASSUME PeersInv, SocketThread
  PROVE  PeersInv'
<1> USE DEF PeersInv
<1>1. /\ opener' = opener /\ messageNodes' = messageNodes /\ messageAt' = messageAt
      /\ \A n : Opened(n)' = Opened(n)
  BY DEF SocketThread, SocketDisconnects, SocketSelects, SocketCopies, SocketServes,
         SocketReleases, outbound, messageThread, Opened, At
<1>2. CASE SocketDisconnects
  <2>1. PICK gone \in {{n \in vNodes : n \in fDisconnect \/ nRefCount[n] <= 0}},
             freed \in SUBSET {n \in vNodesDisconnected : Deletable(n)} :
       /\ vNodes' = vNodes \ gone
       /\ vNodesDisconnected' = (vNodesDisconnected \cup gone) \ freed
       /\ deleted' = deleted \cup freed
       /\ kept' = kept \cup gone
       /\ Releases(gone \cap (fNetworkNode \cup fInbound))
    BY <1>2 DEF SocketDisconnects
  <2>2. /\ socketAt = "disconnect" /\ socketAt' = "select"
        /\ UNCHANGED <<fInbound, fNetworkNode, socketNodes>>
    BY <1>2 DEF SocketDisconnects
  <2>3. \A n \in freed : n \notin kept /\ n \notin socketNodes \cup messageNodes
                         /\ \A o \in Openers : ~ (At(o, "opened") /\ opener[o].node = n)
    <3> SUFFICES ASSUME NEW n \in freed
                 PROVE  n \notin kept /\ n \notin socketNodes \cup messageNodes
                        /\ \A o \in Openers : ~ (At(o, "opened") /\ opener[o].node = n)
      OBVIOUS
    <3>1. n \in Nodes /\ nRefCount[n] <= 0 /\ n \notin kept
      BY <2>1 DEF Deletable, PlacesInv, Alive
    <3>2. Refs(n) <= 0
      BY <3>1, RefsType DEF RefsInv
    <3>3. ~ (n \in socketNodes \cup messageNodes \/ \E o \in Openers : o \in Opened(n))
      <4> SUFFICES ASSUME n \in socketNodes \cup messageNodes \/ \E o \in Openers : o \in Opened(n)
                   PROVE  FALSE
        OBVIOUS
      <4>1. Refs(n) >= 1 /\ Refs(n) \in Nat
        BY RefsType, RefsPositive
      <4> QED
        BY <3>2, <4>1
    <3> QED
      BY <3>1, <3>3 DEF Opened
  <2>4. PlacesInv'
    BY <1>1, <2>1, <2>2, <2>3 DEF PlacesInv, Alive, Made
  <2>5. OpenersInv'
    <3>1. \A o \in Openers : At(o, "opened") => opener[o].node \in Alive'
      BY <2>1, <2>3 DEF OpenersInv, Alive
    <3>2. \A o \in Openers : At(o, "found") =>
             opener[o].node \in vNodes' \cup (vNodesDisconnected' \cap kept')
      BY <2>1, <2>3 DEF OpenersInv, PlacesInv
    <3> QED
      BY <1>1, <3>1, <3>2 DEF OpenersInv, At
  <2>6. RefsInv'
    <3> SUFFICES ASSUME NEW n \in Nodes PROVE nRefCount'[n] >= Refs(n)'
      BY <2>1 DEF RefsInv, Releases
    <3>1. /\ Refs(n)' - Refs(n) = (IF n \in Owned' THEN 1 ELSE 0) - (IF n \in Owned THEN 1 ELSE 0)
          /\ Refs(n) \in Nat
      BY <1>1, <2>2, RefsChange, RefsType
    <3>2. /\ nRefCount[n] \in Int /\ nRefCount[n] >= Refs(n)
          /\ nRefCount'[n] = IF n \in gone \cap (fNetworkNode \cup fInbound)
                             THEN nRefCount[n] - 1 ELSE nRefCount[n]
      BY <2>1 DEF RefsInv, Releases
    <3>3. /\ n \in Owned' => n \in Owned
          /\ n \in gone \cap (fNetworkNode \cup fInbound) => n \in Owned /\ n \notin Owned'
      BY <2>1, <2>2 DEF Owned
    <3>4. Refs(n)' \in Int
      BY <1>1, RefsType DEF Refs
    <3> QED
      BY <3>1, <3>2, <3>3, <3>4
  <2> QED
    BY <1>1, <2>2, <2>4, <2>5, <2>6 DEF CopiesInv
<1>3. CASE SocketSelects
  <2>1. UNCHANGED <<nodeSets, nRefCount, flags, socketNodes>>
    BY <1>3 DEF SocketSelects
  <2> QED
    BY <1>1, <1>3, <2>1, PeersUnchanged DEF SocketSelects, CopiesInv, flags
<1>4. CASE SocketCopies
  <2>1. /\ UNCHANGED <<nodeSets, flags>> /\ socketNodes = {} /\ socketNodes' = vNodes
        /\ socketAt' = "serve"
        /\ AddRefs(vNodes)
    BY <1>4 DEF SocketCopies, CopiesInv
  <2>2. PlacesInv' /\ OpenersInv' /\ CopiesInv'
    BY <1>1, <2>1 DEF PlacesInv, OpenersInv, CopiesInv, Alive, Made, nodeSets, flags, At
  <2>3. RefsInv'
    <3> SUFFICES ASSUME NEW n \in Nodes PROVE nRefCount'[n] >= Refs(n)'
      BY <2>1 DEF RefsInv, AddRefs
    <3>1. /\ Refs(n)' - Refs(n) = IF n \in vNodes THEN 1 ELSE 0
          /\ Refs(n) \in Nat /\ Refs(n)' \in Int
      BY <1>1, <2>1, RefsChange, RefsType DEF Owned, nodeSets, flags, Refs
    <3> QED
      BY <2>1, <3>1 DEF RefsInv, AddRefs
  <2> QED
    BY <2>2, <2>3
<1>5. CASE SocketServes
  <2>1. UNCHANGED <<nodeSets, nRefCount, fInbound, fNetworkNode, kept, socketNodes>>
    BY <1>5 DEF SocketServes
  <2>2. socketAt' \notin {"disconnect", "select", "copy"}
    BY <1>5 DEF SocketServes
  <2> QED
    BY <1>1, <2>1, <2>2, PeersUnchanged DEF CopiesInv
<1>6. CASE SocketReleases
  <2>1. /\ UNCHANGED <<nodeSets, flags>> /\ socketNodes' = {}
        /\ Releases(socketNodes)
    BY <1>6 DEF SocketReleases
  <2>2. PlacesInv' /\ OpenersInv' /\ CopiesInv'
    BY <1>1, <2>1 DEF PlacesInv, OpenersInv, CopiesInv, Alive, Made, nodeSets, flags, At
  <2>3. RefsInv'
    <3> SUFFICES ASSUME NEW n \in Nodes PROVE nRefCount'[n] >= Refs(n)'
      BY <2>1 DEF RefsInv, Releases
    <3>1. /\ Refs(n)' - Refs(n) = IF n \in socketNodes THEN -1 ELSE 0
          /\ Refs(n) \in Nat /\ Refs(n)' \in Int
      BY <1>1, <2>1, RefsChange, RefsType DEF Owned, nodeSets, flags, Refs
    <3> QED
      BY <2>1, <3>1 DEF RefsInv, Releases
  <2> QED
    BY <2>2, <2>3
<1> QED
  BY <1>2, <1>3, <1>4, <1>5, <1>6 DEF SocketThread

\* The message thread does the same with its copy.
LEMMA MessageStep ==
  ASSUME PeersInv, MessageThread
  PROVE  PeersInv'
<1> USE DEF PeersInv
<1>1. /\ opener' = opener /\ socketNodes' = socketNodes /\ socketAt' = socketAt
      /\ \A n : Opened(n)' = Opened(n)
      /\ UNCHANGED <<nodeSets, fInbound, fNetworkNode, kept>>
  BY DEF MessageThread, MessageCopies, MessageHandles, MessageReleases, MessageWakes,
         outbound, socketThread, flags, Opened, At
<1>2. CASE MessageCopies
  <2>1. messageNodes = {} /\ messageNodes' = vNodes /\ messageAt' = "handle" /\ AddRefs(vNodes)
    BY <1>2 DEF MessageCopies, CopiesInv
  <2>2. PlacesInv' /\ OpenersInv' /\ CopiesInv'
    BY <1>1, <2>1 DEF PlacesInv, OpenersInv, CopiesInv, Alive, Made, nodeSets, flags, At
  <2>3. RefsInv'
    <3> SUFFICES ASSUME NEW n \in Nodes PROVE nRefCount'[n] >= Refs(n)'
      BY <2>1 DEF RefsInv, AddRefs
    <3>1. /\ Refs(n)' - Refs(n) = IF n \in vNodes THEN 1 ELSE 0
          /\ Refs(n) \in Nat /\ Refs(n)' \in Int
      BY <1>1, <2>1, RefsChange, RefsType DEF Owned, nodeSets, flags, Refs
    <3> QED
      BY <2>1, <3>1 DEF RefsInv, AddRefs
  <2> QED
    BY <2>2, <2>3
<1>3. CASE MessageHandles \/ MessageWakes
  <2>1. UNCHANGED <<nRefCount, messageNodes>>
    BY <1>3 DEF MessageHandles, MessageWakes
  <2>2. messageAt' \in {"copy", "sleep"} => messageAt = "sleep"
    BY <1>3 DEF MessageHandles, MessageWakes, WakesUpTo
  <2> QED
    BY <1>1, <2>1, <2>2, PeersUnchanged DEF CopiesInv
<1>4. CASE MessageReleases
  <2>1. messageNodes' = {} /\ Releases(messageNodes)
    BY <1>4 DEF MessageReleases
  <2>2. PlacesInv' /\ OpenersInv' /\ CopiesInv'
    BY <1>1, <2>1 DEF PlacesInv, OpenersInv, CopiesInv, Alive, Made, nodeSets, flags, At
  <2>3. RefsInv'
    <3> SUFFICES ASSUME NEW n \in Nodes PROVE nRefCount'[n] >= Refs(n)'
      BY <2>1 DEF RefsInv, Releases
    <3>1. /\ Refs(n)' - Refs(n) = IF n \in messageNodes THEN -1 ELSE 0
          /\ Refs(n) \in Nat /\ Refs(n)' \in Int
      BY <1>1, <2>1, RefsChange, RefsType DEF Owned, nodeSets, flags, Refs
    <3> QED
      BY <2>1, <3>1 DEF RefsInv, Releases
  <2> QED
    BY <2>2, <2>3
<1> QED
  BY <1>2, <1>3, <1>4 DEF MessageThread

\* A new node joins vNodes, with one reference: of the socket thread's node from
\* the start, of an opener's node once it is a network node.
LEMMA MakeNodePlaces ==
  ASSUME PlacesInv, RefsInv, NEW n, NEW a, MakeNode(n, a),
         UNCHANGED <<fNetworkNode, socketNodes, messageNodes>>,
         fInbound' \subseteq fInbound \cup {n}
  PROVE  /\ PlacesInv'
         /\ n \in Nodes /\ n \notin Alive /\ n \notin Owned
         /\ n \notin socketNodes \cup messageNodes
         /\ Alive' = Alive \cup {n} /\ n \in vNodes'
         /\ nRefCount' = [m \in Nodes |-> IF m = n THEN nRefCount[m] + 1 ELSE nRefCount[m]]
BY DEF MakeNode, PlacesInv, Made, Alive, Owned, AddRefs

LEMMA AcceptStep ==
  ASSUME PeersInv, NEW n \in Nodes, NEW a \in Addresses, SocketAccepts(n, a)
  PROVE  PeersInv'
<1> USE DEF PeersInv
<1>1. /\ MakeNode(n, a) /\ fInbound' = fInbound \cup {n}
      /\ UNCHANGED <<fNetworkNode, kept, opener, socketNodes, messageNodes, socketAt, messageAt>>
  BY DEF SocketAccepts, outbound, socketThread, messageThread
<1>2. /\ PlacesInv'
      /\ n \notin Alive /\ n \notin Owned
      /\ n \notin socketNodes \cup messageNodes
      /\ Alive' = Alive \cup {n}
      /\ nRefCount' = [m \in Nodes |-> IF m = n THEN nRefCount[m] + 1 ELSE nRefCount[m]]
  BY <1>1, MakeNodePlaces
<1>3. OpenersInv' /\ CopiesInv'
  BY <1>1, <1>2 DEF OpenersInv, CopiesInv, MakeNode, At
<1>4. RefsInv'
  <2> SUFFICES ASSUME NEW m \in Nodes PROVE nRefCount'[m] >= Refs(m)'
    BY <1>2 DEF RefsInv
  <2>1. Opened(m)' = Opened(m)
    BY <1>1 DEF Opened, At
  <2>2. m # n => (m \in Owned' <=> m \in Owned)
    BY <1>1 DEF Owned, MakeNode
  <2>3. /\ Refs(m)' - Refs(m) <= IF m = n THEN 1 ELSE 0
        /\ Refs(m) \in Nat /\ Refs(m)' \in Int
    BY <1>1, <1>2, <2>1, <2>2, RefsChange, RefsType DEF Refs
  <2> QED
    BY <1>2, <2>3 DEF RefsInv
<1> QED
  BY <1>2, <1>3, <1>4

\* The set of openers that hold a node, when one of them moves.
LEMMA OpenedChange ==
  ASSUME OpenersInv, NEW o \in Openers, NEW r, opener' = [opener EXCEPT ![o] = r], NEW n
  PROVE  /\ Opened(n)' = IF r.at = "opened" /\ r.node = n THEN Opened(n) \cup {o}
                         ELSE Opened(n) \ {o}
         /\ Cardinality(Opened(n)') - Cardinality(Opened(n)) =
              (IF r.at = "opened" /\ r.node = n THEN 1 ELSE 0)
              - (IF At(o, "opened") /\ opener[o].node = n THEN 1 ELSE 0)
<1>1. Opened(n)' = IF r.at = "opened" /\ r.node = n THEN Opened(n) \cup {o}
                   ELSE Opened(n) \ {o}
  BY DEF OpenersInv, Opened, At
<1>2. o \in Opened(n) <=> At(o, "opened") /\ opener[o].node = n
  BY DEF Opened
<1>3. IsFiniteSet(Opened(n)) /\ Cardinality(Opened(n)) \in Nat
  BY RefsType
<1>4. /\ Cardinality(Opened(n) \cup {o}) = IF o \in Opened(n) THEN Cardinality(Opened(n))
                                              ELSE Cardinality(Opened(n)) + 1
      /\ Cardinality(Opened(n) \ {o}) = IF o \in Opened(n) THEN Cardinality(Opened(n)) - 1
                                         ELSE Cardinality(Opened(n))
  BY <1>3, FS_AddElement, FS_RemoveElement
<1> QED
  BY <1>1, <1>2, <1>3, <1>4

\* What an opener's step does to the node it had and to the one it has then.
LEMMA OpenerStep ==
  ASSUME PeersInv, NEW o \in Openers, OpenerThread(o)
  PROVE  PeersInv'
<1> USE DEF PeersInv
<1>1. /\ UNCHANGED <<fInbound, kept, socketNodes, messageNodes, socketAt, messageAt>>
      /\ opener' = [opener EXCEPT ![o] = opener'[o]]
  BY DEF OpenerThread, OpenerGetsSlot, OpenerChooses, OpenerFinds, OpenerAddsRef, OpenerConnects,
         OpenerFails, OpenerMovesGrant, DropsGrant, Moves, flags, socketThread, messageThread,
         OpenersInv
<1>2. CopiesInv'
  BY <1>1 DEF CopiesInv
<1> DEFINE Is == IF At(o, "opened") THEN {opener[o].node} ELSE {}
           Will == IF opener'[o].at = "opened" THEN {opener'[o].node} ELSE {}
<1>3. \A n : Cardinality(Opened(n)') - Cardinality(Opened(n)) =
              (IF n \in Will THEN 1 ELSE 0) - (IF n \in Is THEN 1 ELSE 0)
  BY <1>1, OpenedChange
<1>4. \A n : /\ Refs(n) \in Nat /\ Refs(n)' \in Int
             /\ Refs(n)' - Refs(n) =
                  (IF n \in Will THEN 1 ELSE 0) - (IF n \in Is THEN 1 ELSE 0)
                  + (IF n \in Owned' THEN 1 ELSE 0) - (IF n \in Owned THEN 1 ELSE 0)
  <2> TAKE n
  <2>1. Refs(n) \in Nat /\ Cardinality(Opened(n)) \in Nat
    BY RefsType
  <2>2. Cardinality(Opened(n)') \in Int
    <3>1. IsFiniteSet(Opened(n))
      BY RefsType
    <3>2. IsFiniteSet(Opened(n)')
      BY <1>1, <3>1, OpenedChange, FS_AddElement, FS_RemoveElement
    <3> QED
      BY <3>2, FS_CardinalityType
  <2> QED
    BY <1>1, <1>3, <2>1, <2>2 DEF Refs
<1>5. ASSUME PlacesInv', vNodes \subseteq vNodes', Alive' = Alive \/ Alive \subseteq Alive',
             vNodesDisconnected' = vNodesDisconnected,
             /\ opener'[o].at = "opened" => opener'[o].node \in Alive'
             /\ opener'[o].at = "found" => opener'[o].node \in vNodes'
             /\ opener'[o].at \notin {"opened", "found"} => opener'[o].node = "none"
      PROVE  OpenersInv'
  <2>1. DOMAIN opener' = Openers
    BY <1>1 DEF OpenersInv
  <2>2. \A p \in Openers \ {o} : opener'[p] = opener[p]
    BY <1>1 DEF OpenersInv
  <2> QED
    BY <1>1, <1>5, <2>1, <2>2 DEF OpenersInv, At
<1>6. CASE OpenerGetsSlot(o) \/ OpenerChooses(o) \/ OpenerFinds(o) \/ OpenerFails(o)
  <2>1. /\ UNCHANGED <<nodeSets, nRefCount, fNetworkNode>>
        /\ ~ At(o, "opened") /\ opener'[o].at # "opened"
        /\ opener'[o].at = "found" => opener'[o].node \in vNodes'
        /\ opener'[o].at # "found" => opener'[o].node = "none"
    <3>1. CASE OpenerGetsSlot(o)
      BY <3>1 DEF OpenerGetsSlot, Moves, At, flags, OpenersInv
    <3>2. CASE OpenerChooses(o)
      BY <3>2 DEF OpenerChooses, DropsGrant, Idle, At, flags, OpenersInv
    <3>3. CASE OpenerFinds(o)
      <4>1. PICK n \in vNodes : opener' = [opener EXCEPT ![o].at = "found", ![o].node = n]
        BY <3>3 DEF OpenerFinds
      <4>2. At(o, "connect") /\ UNCHANGED <<nodeSets, nRefCount, fNetworkNode>>
        BY <3>3 DEF OpenerFinds, flags
      <4>3. opener'[o].at = "found" /\ opener'[o].node = n
        BY <4>1 DEF OpenersInv
      <4> QED
        BY <4>2, <4>3 DEF At, nodeSets
    <3>4. CASE OpenerFails(o)
      BY <3>4 DEF OpenerFails, DropsGrant, Idle, At, flags, OpenersInv
    <3> QED
      BY <1>6, <3>1, <3>2, <3>3, <3>4
  <2>2. PlacesInv' /\ Owned' = Owned /\ Alive' = Alive
    BY <1>1, <2>1 DEF PlacesInv, Alive, Made, Owned, nodeSets
  <2>3. \A n : Refs(n)' = Refs(n)
    <3> TAKE n
    <3>1. Refs(n) \in Nat /\ Refs(n)' \in Int /\ Refs(n)' - Refs(n) = 0
      BY <1>4, <2>1, <2>2
    <3> QED
      BY <3>1
  <2>4. OpenersInv'
    BY <1>5, <2>1, <2>2 DEF nodeSets
  <2> QED
    BY <1>2, <2>1, <2>2, <2>3, <2>4 DEF RefsInv
<1>7. CASE OpenerAddsRef(o)
  <2> DEFINE n == opener[o].node
  <2>1. /\ UNCHANGED <<nodeSets, fNetworkNode>> /\ AddRefs({n})
        /\ At(o, "found") /\ n \in Alive /\ n \in Nodes
        /\ opener'[o].at = "opened" /\ opener'[o].node = n
    BY <1>7 DEF OpenerAddsRef, Moves, At, flags, OpenersInv, Alive, PlacesInv
  <2> HIDE DEF n
  <2>2. PlacesInv' /\ Owned' = Owned /\ Alive' = Alive
    BY <1>1, <2>1 DEF PlacesInv, Alive, Made, Owned, nodeSets
  <2>3. Is = {} /\ Will = {n}
    BY <2>1 DEF At
  <2>4. RefsInv'
    <3> SUFFICES ASSUME NEW m \in Nodes PROVE nRefCount'[m] >= Refs(m)'
      BY <2>1 DEF RefsInv, AddRefs
    <3>1. /\ Refs(m) \in Nat /\ Refs(m)' \in Int
          /\ Refs(m)' - Refs(m) = IF m = n THEN 1 ELSE 0
      BY <1>4, <2>2, <2>3
    <3> QED
      BY <2>1, <3>1 DEF RefsInv, AddRefs
  <2>5. OpenersInv'
    BY <1>5, <2>1, <2>2 DEF nodeSets
  <2> QED
    BY <1>2, <2>2, <2>4, <2>5
<1>8. CASE OpenerConnects(o)
  <2>1. PICK n \in Nodes : /\ MakeNode(n, opener[o].addr)
                           /\ opener' = [opener EXCEPT ![o].at = "opened", ![o].node = n]
    BY <1>8 DEF OpenerConnects
  <2>2. At(o, "connect") /\ opener'[o].at = "opened" /\ opener'[o].node = n
        /\ fNetworkNode' = fNetworkNode
    <3>1. opener'[o].at = "opened" /\ opener'[o].node = n
      BY <2>1 DEF OpenersInv
    <3> QED
      BY <1>8, <3>1 DEF OpenerConnects, flags
  <2>3. /\ PlacesInv'
        /\ n \notin Alive /\ n \notin Owned
        /\ Alive' = Alive \cup {n}
        /\ nRefCount' = [m \in Nodes |-> IF m = n THEN nRefCount[m] + 1 ELSE nRefCount[m]]
    BY <1>1, <2>1, <2>2, MakeNodePlaces
  <2>4. Is = {} /\ Will = {n}
    BY <2>2 DEF At
  <2>5. Owned' = Owned
    BY <1>1, <2>1, <2>2 DEF Owned, MakeNode, PlacesInv, Made
  <2>6. RefsInv'
    <3> SUFFICES ASSUME NEW m \in Nodes PROVE nRefCount'[m] >= Refs(m)'
      BY <2>3 DEF RefsInv
    <3>1. /\ Refs(m) \in Nat /\ Refs(m)' \in Int
          /\ Refs(m)' - Refs(m) = IF m = n THEN 1 ELSE 0
      BY <1>4, <2>4, <2>5
    <3> QED
      BY <2>3, <3>1 DEF RefsInv
  <2>7. OpenersInv'
    <3>1. vNodes \subseteq vNodes' /\ vNodesDisconnected' = vNodesDisconnected /\ n \in Alive'
      BY <2>1, <2>3 DEF MakeNode
    <3> QED
      BY <1>5, <2>2, <2>3, <3>1
  <2> QED
    BY <1>2, <2>3, <2>6, <2>7
<1>9. CASE OpenerMovesGrant(o)
  <2> DEFINE n == opener[o].node
  <2>1. /\ UNCHANGED <<nodeSets, nRefCount>>
        /\ At(o, "opened") /\ n \in Alive
        /\ opener'[o].at \notin {"opened", "found"} /\ opener'[o].node = "none"
        /\ fNetworkNode \subseteq fNetworkNode' /\ fNetworkNode' \subseteq fNetworkNode \cup {n}
    BY <1>9 DEF OpenerMovesGrant, DropsGrant, Idle, At, OpenersInv
  <2> HIDE DEF n
  <2>2. /\ PlacesInv' /\ Alive' = Alive
        /\ \A m : (m \in Owned => m \in Owned') /\ (m \in Owned' => m \in Owned \/ m = n)
    BY <1>1, <2>1 DEF PlacesInv, Alive, Made, Owned, nodeSets
  <2>3. Is = {n} /\ Will = {}
    BY <2>1 DEF At, n
  <2>4. RefsInv'
    <3> SUFFICES ASSUME NEW m \in Nodes PROVE nRefCount'[m] >= Refs(m)'
      BY <2>1 DEF RefsInv
    <3>1. /\ Refs(m) \in Nat /\ Refs(m)' \in Int
          /\ Refs(m)' - Refs(m) =
               0 - (IF m \in {n} THEN 1 ELSE 0)
               + (IF m \in Owned' THEN 1 ELSE 0) - (IF m \in Owned THEN 1 ELSE 0)
      <4> HIDE DEF Is, Will
      <4>1. m \notin {}
        OBVIOUS
      <4> QED
        BY <1>4, <2>3, <4>1
    <3>2. m \in Owned => m \in Owned'
      BY <2>2
    <3>3. m \in Owned' => m \in Owned \/ m = n
      BY <2>2
    <3>4. Refs(m)' - Refs(m) <= 0
      BY <3>1, <3>2, <3>3
    <3> QED
      BY <2>1, <3>1, <3>4 DEF RefsInv
  <2>5. OpenersInv'
    BY <1>5, <2>1, <2>2 DEF nodeSets
  <2> QED
    BY <1>2, <2>2, <2>4, <2>5
<1> QED
  BY <1>6, <1>7, <1>8, <1>9 DEF OpenerThread

\* Time passes only when nobody has read a pointer without taking a reference.
LEMMA PeersStep ==
  ASSUME PeersInv, [PeerNext]_peerVars
  PROVE  PeersInv'
<1> USE DEF PeersInv
<1>1. CASE ReleaseTimePasses
  <2>1. UNCHANGED <<nodeSets, nRefCount, fInbound, fNetworkNode, opener, socketNodes,
                    messageNodes, socketAt, messageAt>>
    BY <1>1 DEF ReleaseTimePasses, outbound, socketThread, messageThread
  <2>2. PlacesInv' /\ CopiesInv'
    BY <2>1 DEF PlacesInv, CopiesInv, Alive, Made, nodeSets
  <2>3. OpenersInv'
    BY <1>1, <2>1 DEF ReleaseTimePasses, OpenersInv, Alive, nodeSets, At
  <2>4. RefsInv'
    <3>1. \A n : Refs(n)' = Refs(n)
      <4> TAKE n
      <4>1. Opened(n)' = Opened(n)
        BY <2>1 DEF Opened, At
      <4> QED
        BY <2>1, <4>1 DEF Refs, Owned, nodeSets
    <3> QED
      BY <2>1, <3>1 DEF RefsInv
  <2> QED
    BY <2>2, <2>3, <2>4
<1>2. CASE StopNodePosts \/ StopNodeReturns
  <2>1. UNCHANGED <<nodeSets, nRefCount, fInbound, fNetworkNode, kept, opener, socketNodes,
                    messageNodes, socketAt, messageAt>>
    BY <1>2 DEF StopNodePosts, StopNodeReturns, outbound, socketThread, messageThread, flags
  <2> QED
    BY <2>1, PeersUnchanged DEF CopiesInv
<1>3. CASE UNCHANGED peerVars
  <2>1. UNCHANGED <<nodeSets, nRefCount, fInbound, fNetworkNode, kept, opener, socketNodes,
                    messageNodes, socketAt, messageAt>>
    BY <1>3 DEF peerVars, outbound, socketThread, messageThread, flags
  <2> QED
    BY <2>1, PeersUnchanged DEF CopiesInv
<1> QED
  BY <1>1, <1>2, <1>3, SocketStep, MessageStep, AcceptStep, OpenerStep DEF PeerNext

LEMMA PeersInvariance == PeerInit /\ [][PeerNext]_peerVars => []PeersInv
<1>1. PeersInv /\ [PeerNext]_peerVars => PeersInv'
  BY PeersStep
<1> QED
  BY <1>1, PeersInit, PTL

\* A node that is alive is not deleted, and "none" is no node.
LEMMA PeersKeepNodes == PeersInv => NotUsedAfterDelete
<1> SUFFICES ASSUME PeersInv PROVE NotUsedAfterDelete
  OBVIOUS
<1>1. deleted \subseteq Nodes /\ Alive \cap deleted = {} /\ "none" \notin deleted
  BY PeersAssumption DEF PeersInv, PlacesInv
<1>2. socketNodes \cup messageNodes \subseteq Alive
  BY DEF PeersInv, PlacesInv
<1>3. \A o \in Openers : opener[o].node \in Alive \cup {"none"}
  BY DEF PeersInv, OpenersInv, Alive
<1> QED
  BY <1>1, <1>2, <1>3 DEF NotUsedAfterDelete

----------------------------------------------------------------------------
(* Miners.  Until the pool is drained, the keys of it that the threads hold   *)
(* are apart from each other and from those that were paid.                   *)

PaidKeys == BagToSet(paid)

KeysApart ==
  /\ \A k \in PaidKeys : k # 0 => paid[k] = 1
  /\ \A t \in Threads : reserved[t] # 0 => reserved[t] \notin PaidKeys
  /\ \A t, u \in Threads : reserved[t] = reserved[u] /\ reserved[t] # 0 => t = u

MinersInv ==
  /\ reserved \in [Threads -> Nat]
  /\ PaidKeys \subseteq Nat /\ IsFiniteSet(PaidKeys)
  /\ ~drained => KeysApart

\* Every set of numbers has a least one.
LEMMA LeastKey ==
  ASSUME NEW T, T \subseteq Nat, T # {}
  PROVE  \E n \in T : \A m \in T : n <= m
<1> DEFINE Less == {pair \in Nat \X Nat : pair[1] < pair[2]}
<1>1. IsWellFoundedOn(Less, Nat)
  BY NatLessThanWellFounded, Zenon DEF OpToRel
<1>2. PICK n \in T : \A m \in T : <<m, n>> \notin Less
  BY <1>1, WFMin
<1>3. \A m \in T : ~ (m < n)
  <2> SUFFICES ASSUME NEW m \in T, m < n PROVE FALSE
    OBVIOUS
  <2>1. <<m, n>> \in Nat \X Nat /\ <<m, n>>[1] = m /\ <<m, n>>[2] = n
    OBVIOUS
  <2> QED
    BY <1>2, <2>1
<1> QED
  BY <1>3

\* A finite set of keys leaves one free among the first: the key pool has it.
LEMMA FreeKeyExists ==
  ASSUME NEW taken, IsFiniteSet(taken)
  PROVE  \E k \in 1..(Cardinality(taken) + 1) : k \notin taken /\ 1..(k - 1) \subseteq taken
<1> DEFINE n == Cardinality(taken) + 1
<1>1. n \in Nat \ {0} /\ Cardinality(taken) \in Nat
  BY FS_CardinalityType
<1>2. ~ (1..n \subseteq taken)
  <2> SUFFICES ASSUME 1..n \subseteq taken PROVE FALSE
    OBVIOUS
  <2>1. Cardinality(1..n) <= Cardinality(taken)
    BY FS_Subset
  <2>2. Cardinality(1..n) = n
    BY <1>1, FS_Interval
  <2> QED
    BY <1>1, <2>1, <2>2
<1>3. PICK m \in 1..n : m \notin taken
  BY <1>2
<1> DEFINE S == {i \in 1..n : i \notin taken}
<1>4. S \in SUBSET Nat /\ S # {}
  BY <1>1, <1>3
<1>5. PICK k \in S : \A i \in S : k <= i
  <2> HIDE DEF S
  <2> QED
    BY <1>4, LeastKey
<1>6. \A i \in 1..(k - 1) : i \in taken
  <2> TAKE i \in 1..(k - 1)
  <2>1. i \in 1..n /\ i < k
    BY <1>1
  <2> QED
    BY <1>1, <1>5, <2>1
<1> QED
  BY <1>5, <1>6

\* The key a new block gets is held by no thread and was not paid.
LEMMA NextKeyIsFree ==
  ASSUME MinersInv
  PROVE  /\ NextKey \in Nat \ {0}
         /\ NextKey \notin PaidKeys
         /\ \A t \in Threads : reserved[t] # NextKey
<1> DEFINE held == {reserved[t] : t \in Threads}
           taken == held \cup PaidKeys
<1>1. IsFiniteSet(held)
  <2>1. reserved \in Surjection(Threads, held)
    BY DEF MinersInv, Surjection
  <2> HIDE DEF held
  <2> QED
    BY <2>1, FS_Surjection, MinerAssumption
<1>2. IsFiniteSet(taken)
  <2> HIDE DEF held
  <2> QED
    BY <1>1, FS_Union DEF MinersInv
<1>3. \E k \in 1..(Cardinality(taken) + 1) : k \notin taken /\ 1..(k - 1) \subseteq taken
  <2> HIDE DEF taken
  <2> QED
    BY <1>2, FreeKeyExists
<1>4. NextKey \in 1..(Cardinality(taken) + 1) /\ NextKey \notin taken
  BY <1>3 DEF NextKey, TakenKeys, PaidKeys
<1>5. Cardinality(taken) \in Nat
  <2> HIDE DEF taken
  <2> QED
    BY <1>2, FS_CardinalityType
<1> QED
  BY <1>4, <1>5

LEMMA MinersInit == MinerInit => MinersInv
BY FS_EmptySet
   DEF MinerInit, MinersInv, KeysApart, PaidKeys, vchDefaultKey, EmptyBag, SetToBag, BagToSet

\* A block takes the key of its thread; a thread that ends returns it.
LEMMA MinersStep ==
  ASSUME MinersInv, [MinerNext]_minerVars
  PROVE  MinersInv'
<1>1. ASSUME NEW t \in Threads, CreateNewBlock(t) PROVE MinersInv'
  <2>1. PICK k \in ReservedKeys :
          reserved' = [reserved EXCEPT ![t] = IF reserved[t] # 0 THEN reserved[t] ELSE k]
    BY <1>1 DEF CreateNewBlock, vchDefaultKey
  <2>2. UNCHANGED <<paid, drained>>
    BY <1>1 DEF CreateNewBlock
  <2>3. /\ NextKey \in Nat \ {0}
        /\ NextKey \notin PaidKeys
        /\ \A u \in Threads : reserved[u] # NextKey
    BY NextKeyIsFree
  <2>4. k \in Nat
    BY <2>3 DEF ReservedKeys, TakenKeys, vchDefaultKey, MinersInv, PaidKeys
  <2>5. ~drained => k = 0 \/ k = NextKey
    BY DEF ReservedKeys, vchDefaultKey
  <2>6. ASSUME ~drained, KeysApart PROVE KeysApart'
    <3> HIDE DEF NextKey
    <3> QED
      BY <2>1, <2>2, <2>3, <2>5, <2>6 DEF MinersInv, KeysApart, PaidKeys
  <2> QED
    BY <2>1, <2>2, <2>4, <2>6 DEF MinersInv, PaidKeys
<1>2. ASSUME NEW t \in Threads, Finds(t) PROVE MinersInv'
  <2>1. UNCHANGED drained
    BY <1>2 DEF Finds
  <2>2. CASE UNCHANGED <<reserved, paid>>
    BY <2>1, <2>2 DEF MinersInv, KeysApart, PaidKeys
  <2>3. CASE KeepsKey(t)
    <3> DEFINE k == reserved[t]
    <3>1. k \in Nat
      BY DEF MinersInv
    <3>2. /\ DOMAIN paid' = DOMAIN paid \cup {k}
          /\ \A x \in DOMAIN paid \ {k} : paid'[x] = paid[x] + 0
          /\ k \notin DOMAIN paid => paid'[k] = 0 + 1
      BY <2>3, <3>1 DEF KeepsKey, SetToBag, (+), BagToSet
    <3>3. IsFiniteSet(PaidKeys') /\ PaidKeys' = PaidKeys \cup {k}
      BY <3>2, FS_AddElement DEF MinersInv, PaidKeys, BagToSet
    <3>4. reserved' = [reserved EXCEPT ![t] = 0]
      BY <2>3 DEF KeepsKey, vchDefaultKey
    <3>5. ASSUME KeysApart PROVE KeysApart'
      <4>1. k # 0 => k \notin PaidKeys
        BY <3>5 DEF KeysApart
      <4>2. \A x \in PaidKeys' : x # 0 => paid'[x] = 1
        BY <3>1, <3>2, <3>5, <4>1 DEF KeysApart, PaidKeys, BagToSet
      <4>3. \A u \in Threads : reserved'[u] # 0 => u # t /\ reserved'[u] = reserved[u]
        BY <3>4 DEF MinersInv
      <4>4. \A u \in Threads : reserved'[u] # 0 => reserved'[u] \notin PaidKeys'
        BY <3>3, <3>5, <4>3 DEF KeysApart
      <4>5. \A u, v \in Threads : reserved'[u] = reserved'[v] /\ reserved'[u] # 0 => u = v
        BY <3>5, <4>3 DEF KeysApart
      <4> QED
        BY <4>2, <4>4, <4>5 DEF KeysApart
    <3> QED
      BY <2>1, <3>1, <3>3, <3>4, <3>5 DEF MinersInv
  <2> QED
    BY <1>2, <2>2, <2>3 DEF Finds
<1>3. ASSUME NEW t \in Threads, StopsAtLoop(t) \/ StopsSearching(t) PROVE MinersInv'
  BY <1>3
     DEF StopsAtLoop, StopsSearching, ThreadEnds, MinersInv, KeysApart, PaidKeys, vchDefaultKey
<1>4. ASSUME NEW t \in Threads, CreateNewBlockThrows(t) PROVE MinersInv'
  BY <1>4 DEF CreateNewBlockThrows, MinersInv, KeysApart, PaidKeys, vchDefaultKey
<1>5. CASE UNCHANGED keys
  BY <1>5 DEF keys, MinersInv, KeysApart, PaidKeys
<1>6. ASSUME NEW t \in Threads,
             ThreadStarts(t) \/ ReadsTip(t) \/ IncrementExtraNonce(t) \/ Rebuilds(t)
      PROVE  UNCHANGED keys
  BY <1>6 DEF ThreadStarts, ReadsTip, IncrementExtraNonce, Rebuilds, keys
<1>7. ASSUME NEW f, NEW limit, GenerateBitcoins(f, limit) PROVE UNCHANGED keys
  BY <1>7 DEF GenerateBitcoins
<1>8. TipChanges \/ PoolChanges \/ PeersChange \/ ShutsDown \/ UNCHANGED minerVars => UNCHANGED keys
  BY DEF TipChanges, PoolChanges, PeersChange, ShutsDown, minerVars, keys
<1>9. CASE PoolDrains
  BY <1>9 DEF PoolDrains, MinersInv, PaidKeys
<1> QED
  BY <1>1, <1>2, <1>3, <1>4, <1>5, <1>6, <1>7, <1>8, <1>9 DEF MinerNext, MinerThread

LEMMA MinersInvariance == MinerInit /\ [][MinerNext]_minerVars => []MinersInv
<1>1. MinersInv /\ [MinerNext]_minerVars => MinersInv'
  BY MinersStep
<1> QED
  BY <1>1, MinersInit, PTL

LEMMA MinersPayOnce == MinersInv => PaidOnce
BY DEF MinersInv, KeysApart, PaidKeys, PaidOnce, vchDefaultKey

----------------------------------------------------------------------------
(* The database environment.                                               *)

\* The handles that count as a use of a file.
Users(f) == {t \in DbThreads : handle[t].file = f /\ handle[t].use \in {"open", "closed"}}

HandlesInv ==
  /\ handle \in [DbThreads -> [file : DbFiles \cup {""}, use : {"none", "open", "closed"},
                                txn : BOOLEAN, puts : Nat]]
  /\ \A t \in DbThreads :
       /\ handle[t].use # "none" => handle[t].file \in DbFiles
       /\ handle[t].use # "open" => handle[t].puts = 0

\* A file has an entry with at least as many uses as it has handles.
UsesInv ==
  /\ DOMAIN mapFileUseCount \subseteq DbFiles
  /\ \A f \in DbFiles : Uses(f) \in Int /\ Uses(f) >= Cardinality(Users(f))

\* A file without an entry needs no log; a wallet that was flushed last when its
\* updates had the present count has none that are still in a transaction.
WholeInv ==
  /\ records \in [DbFiles -> Nat] /\ dat \in [DbFiles -> Nat]
  /\ nWalletDBUpdated \in Nat /\ nLastFlushed \in Nat /\ nLastFlushed <= nWalletDBUpdated
  /\ \A f \in DbFiles \ DOMAIN mapFileUseCount : dat[f] = records[f]
  /\ WalletFile \notin DOMAIN mapFileUseCount => WalletFile \in selfContained
  /\ nLastFlushed = nWalletDBUpdated =>
       /\ dat[WalletFile] = records[WalletFile] /\ WalletFile \in selfContained
       /\ \A t \in DbThreads : handle[t].file = WalletFile => handle[t].puts = 0
  /\ backup.copied = backup.committed
  /\ shutdown = "exited" => DOMAIN mapFileUseCount = {}

DbInv == HandlesInv /\ UsesInv /\ WholeInv

LEMMA UsersType ==
  ASSUME NEW f
  PROVE  IsFiniteSet(Users(f)) /\ Cardinality(Users(f)) \in Nat
<1>1. IsFiniteSet(Users(f))
  BY DbEnvAssumption, FS_Subset DEF Users
<1> QED
  BY <1>1, FS_CardinalityType

\* A file that is not used has no handle, and one with a handle has an entry.
LEMMA UnusedHasNoUser ==
  ASSUME DbInv, NEW f \in DbFiles
  PROVE  /\ Unused(f) => Users(f) = {}
         /\ Users(f) # {} => f \in DOMAIN mapFileUseCount /\ Uses(f) >= 1
<1>1. IsFiniteSet(Users(f)) /\ Cardinality(Users(f)) \in Nat
  BY UsersType
<1>2. Users(f) # {} => Cardinality(Users(f)) # 0
  BY <1>1, FS_EmptySet
<1> QED
  BY <1>1, <1>2 DEF DbInv, UsesInv, Unused, Uses

LEMMA DbInit == DbEnvInit => DbInv
<1> SUFFICES ASSUME DbEnvInit PROVE DbInv
  OBVIOUS
<1> USE DEF DbEnvInit
<1>1. \A f : Users(f) = {}
  BY DEF Users, NoHandle
<1>2. DOMAIN mapFileUseCount = {}
  OBVIOUS
<1>3. HandlesInv
  BY DEF HandlesInv, NoHandle
<1>4. UsesInv
  BY <1>1, <1>2, FS_EmptySet DEF UsesInv, Uses
<1>5. WholeInv
  <2>1. records \in [DbFiles -> Nat] /\ dat \in [DbFiles -> Nat] /\ dat = records
    OBVIOUS
  <2>2. nWalletDBUpdated = 0 /\ nLastFlushed = 0 /\ \A t \in DbThreads : handle[t].puts = 0
    BY DEF NoHandle
  <2>3. WalletFile \in selfContained
    BY DEF DbFiles
  <2>4. backup.copied = backup.committed /\ shutdown # "exited"
    BY DEF NoBackup
  <2> QED
    BY <2>1, <2>2, <2>3, <2>4 DEF WholeInv
<1> QED
  BY <1>3, <1>4, <1>5 DEF DbInv

\* The uses of files change with a handle's file and use only.
LEMMA UsersChange ==
  ASSUME HandlesInv, NEW t \in DbThreads, NEW h, handle' = [handle EXCEPT ![t] = h], NEW f
  PROVE  Cardinality(Users(f)') - Cardinality(Users(f)) =
           (IF h.file = f /\ h.use \in {"open", "closed"} THEN 1 ELSE 0)
           - (IF t \in Users(f) THEN 1 ELSE 0)
<1>1. Users(f)' = IF h.file = f /\ h.use \in {"open", "closed"} THEN Users(f) \cup {t}
                  ELSE Users(f) \ {t}
  BY DEF HandlesInv, Users
<1>2. IsFiniteSet(Users(f)) /\ Cardinality(Users(f)) \in Nat
  BY UsersType
<1>3. /\ Cardinality(Users(f) \cup {t}) = IF t \in Users(f) THEN Cardinality(Users(f))
                                          ELSE Cardinality(Users(f)) + 1
      /\ Cardinality(Users(f) \ {t}) = IF t \in Users(f) THEN Cardinality(Users(f)) - 1
                                       ELSE Cardinality(Users(f))
  BY <1>2, FS_AddElement, FS_RemoveElement
<1> QED
  BY <1>1, <1>2, <1>3

\* A step that gives up no handle and takes none.
LEMMA UsesKept ==
  ASSUME UsesInv, UNCHANGED mapFileUseCount,
         \A u \in DbThreads : /\ handle'[u].file = handle[u].file
                              /\ handle'[u].use \in {"open", "closed"} <=>
                                 handle[u].use \in {"open", "closed"}
  PROVE  UsesInv'
<1>1. \A f : Users(f)' = Users(f)
  BY DEF Users
<1>2. \A f : Uses(f)' = Uses(f)
  BY DEF Uses
<1> QED
  BY <1>1, <1>2 DEF UsesInv

\* Steps of one handle.
LEMMA HandleStep ==
  ASSUME DbInv, NEW t \in DbThreads,
         \/ \E f \in DbFiles : OpenDb(t, f)
         \/ TxnBegin(t) \/ WriteRecord(t) \/ TxnCommit(t) \/ Close(t) \/ CountOff(t)
  PROVE  DbInv'
<1> USE DEF DbInv
<1> DEFINE file == handle[t].file
<1>1. /\ DOMAIN handle = DbThreads
      /\ handle[t] \in [file : DbFiles \cup {""}, use : {"none", "open", "closed"},
                         txn : BOOLEAN, puts : Nat]
      /\ handle[t].use # "none" => file \in DbFiles
  BY DEF HandlesInv
<1>2. \A f \in DbFiles : /\ Cardinality(Users(f)) \in Nat
                         /\ Uses(f) \in Int /\ Uses(f) >= Cardinality(Users(f))
  BY UsersType DEF UsesInv
<1>3. handle[t].use \in {"open", "closed"} => file \in DOMAIN mapFileUseCount /\ Uses(file) >= 1
  BY <1>1, UnusedHasNoUser DEF Users
<1>4. ASSUME NEW f \in DbFiles, OpenDb(t, f) PROVE DbInv'
  <2> DEFINE h == [NoHandle EXCEPT !.file = f, !.use = "open"]
  <2>0. /\ h \in [file : DbFiles \cup {""}, use : {"none", "open", "closed"},
                 txn : BOOLEAN, puts : Nat]
        /\ h.file = f /\ h.use = "open" /\ h.puts = 0
        /\ NoHandle.use = "none"
    BY DEF NoHandle
  <2>1. /\ handle' = [handle EXCEPT ![t] = h] /\ handle[t].use = "none"
        /\ mapFileUseCount' = [g \in DOMAIN mapFileUseCount \cup {f} |->
                                 IF g = f THEN Uses(f) + 1 ELSE Uses(g)]
        /\ UNCHANGED <<nWalletDBUpdated, nLastFlushed, records, dat, selfContained, backup, shutdown>>
        /\ shutdown # "exited"
    BY <1>4, <2>0 DEF OpenDb, fDbEnvInit
  <2> HIDE DEF h
  <2>2. HandlesInv'
    BY <1>1, <2>0, <2>1 DEF HandlesInv
  <2>3. UsesInv'
    <3>1. DOMAIN mapFileUseCount' \subseteq DbFiles
      BY <2>1 DEF UsesInv
    <3>2. ASSUME NEW g \in DbFiles PROVE Uses(g)' = IF g = f THEN Uses(g) + 1 ELSE Uses(g)
      BY <2>1 DEF Uses
    <3>3. ASSUME NEW g \in DbFiles
          PROVE  Cardinality(Users(g)') - Cardinality(Users(g)) = IF g = f THEN 1 ELSE 0
      <4>1. t \notin Users(g)
        BY <2>1 DEF Users
      <4>2. Cardinality(Users(g)') - Cardinality(Users(g)) =
              (IF h.file = g /\ h.use \in {"open", "closed"} THEN 1 ELSE 0)
              - (IF t \in Users(g) THEN 1 ELSE 0)
        BY <2>1, UsersChange
      <4>3. h.file = g /\ h.use \in {"open", "closed"} <=> g = f
        BY <2>0
      <4> QED
        BY <4>1, <4>2, <4>3
    <3>4. ASSUME NEW g \in DbFiles PROVE Cardinality(Users(g)') \in Int
      <4>1. Users(g)' \subseteq DbThreads
        BY DEF Users
      <4> QED
        BY <4>1, DbEnvAssumption, FS_Subset, FS_CardinalityType
    <3> QED
      BY <1>2, <3>1, <3>2, <3>3, <3>4 DEF UsesInv
  <2>4. WholeInv'
    BY <1>1, <2>0, <2>1 DEF WholeInv
  <2> QED
    BY <2>2, <2>3, <2>4
<1>5. CASE TxnBegin(t)
  <2>1. /\ handle' = [handle EXCEPT ![t].txn = TRUE]
        /\ UNCHANGED <<mapFileUseCount, nWalletDBUpdated, nLastFlushed, records, dat,
                       selfContained, backup, shutdown>>
    BY <1>5 DEF TxnBegin
  <2>2. /\ HandlesInv'
        /\ \A u \in DbThreads : /\ handle'[u].file = handle[u].file
                                /\ handle'[u].use = handle[u].use
                                /\ handle'[u].puts = handle[u].puts
    BY <1>1, <2>1 DEF HandlesInv
  <2>3. UsesInv'
    BY <2>1, <2>2, UsesKept
  <2>4. WholeInv'
    BY <2>1, <2>2 DEF WholeInv
  <2> QED
    BY <2>2, <2>3, <2>4
<1>6. CASE WriteRecord(t)
  <2>1. /\ handle[t].use = "open" /\ file \in DbFiles
        /\ UNCHANGED <<mapFileUseCount, nLastFlushed, dat, backup, shutdown>>
        /\ nWalletDBUpdated' = IF file = WalletFile THEN nWalletDBUpdated + 1 ELSE nWalletDBUpdated
    BY <1>1, <1>6 DEF WriteRecord, InUse
  <2>2. \/ /\ handle' = [handle EXCEPT ![t].puts = @ + 1]
           /\ UNCHANGED <<records, selfContained>>
        \/ /\ records' = [records EXCEPT ![file] = @ + 1]
           /\ selfContained' = selfContained \ {file}
           /\ handle' = handle
    BY <1>6 DEF WriteRecord
  <2>3. CASE /\ handle' = [handle EXCEPT ![t].puts = @ + 1]
             /\ UNCHANGED <<records, selfContained>>
    <3>1. /\ HandlesInv'
          /\ \A u \in DbThreads : /\ handle'[u].file = handle[u].file
                                  /\ handle'[u].use = handle[u].use
                                  /\ u # t => handle'[u].puts = handle[u].puts
      <4>0. handle[t].puts \in Nat
        BY <1>1
      <4>1. handle[t].puts + 1 \in Nat
        BY <4>0
      <4>2. handle' = [handle EXCEPT ![t] = [handle[t] EXCEPT !.puts = handle[t].puts + 1]]
        BY <2>3
      <4>3. [handle[t] EXCEPT !.puts = handle[t].puts + 1]
              \in [file : DbFiles \cup {""}, use : {"none", "open", "closed"},
                   txn : BOOLEAN, puts : Nat]
        BY <1>1, <4>1
      <4>4. \A u \in DbThreads : /\ handle'[u].file = handle[u].file
                                 /\ handle'[u].use = handle[u].use
                                 /\ u # t => handle'[u].puts = handle[u].puts
        BY <1>1, <4>2 DEF HandlesInv
      <4>5. handle' \in [DbThreads -> [file : DbFiles \cup {""}, use : {"none", "open", "closed"},
                                       txn : BOOLEAN, puts : Nat]]
        BY <4>2, <4>3 DEF HandlesInv
      <4> QED
        BY <2>1, <4>4, <4>5 DEF HandlesInv
    <3>2. UsesInv'
      BY <2>1, <3>1, UsesKept
    <3>3. WholeInv'
      BY <2>1, <2>3, <3>1 DEF WholeInv
    <3> QED
      BY <3>1, <3>2, <3>3
  <2>4. CASE /\ records' = [records EXCEPT ![file] = @ + 1]
             /\ selfContained' = selfContained \ {file}
             /\ handle' = handle
    <3>1. HandlesInv' /\ UsesInv'
      BY <2>1, <2>4, UsesKept DEF HandlesInv
    <3>2. WholeInv'
      <4>1. CASE file = WalletFile
        BY <1>3, <2>1, <2>4, <4>1 DEF WholeInv
      <4>2. CASE file # WalletFile
        BY <1>3, <2>1, <2>4, <4>2 DEF WholeInv
      <4> QED
        BY <4>1, <4>2
    <3> QED
      BY <3>1, <3>2
  <2> QED
    BY <2>2, <2>3, <2>4
<1>7. CASE TxnCommit(t)
  <2>1. /\ handle[t].use = "open" /\ file \in DbFiles
        /\ handle' = [handle EXCEPT ![t].txn = FALSE, ![t].puts = 0]
        /\ records' = [records EXCEPT ![file] = @ + handle[t].puts]
        /\ selfContained' = IF handle[t].puts > 0 THEN selfContained \ {file} ELSE selfContained
        /\ UNCHANGED <<mapFileUseCount, nWalletDBUpdated, nLastFlushed, dat, backup, shutdown>>
    BY <1>1, <1>7 DEF TxnCommit, InUse
  <2>2. /\ HandlesInv'
        /\ \A u \in DbThreads : /\ handle'[u].file = handle[u].file
                                /\ handle'[u].use = handle[u].use
                                /\ handle'[u].puts = IF u = t THEN 0 ELSE handle[u].puts
    BY <1>1, <2>1 DEF HandlesInv
  <2>3. UsesInv'
    BY <2>1, <2>2, UsesKept
  <2>4. WholeInv'
    <3>1. handle[t].puts \in Nat
      BY <1>1
    <3>2. records' \in [DbFiles -> Nat]
      BY <2>1, <3>1 DEF WholeInv
    <3>3. handle[t].puts = 0 \/ file # WalletFile =>
            /\ records'[WalletFile] = records[WalletFile]
            /\ WalletFile \in selfContained => WalletFile \in selfContained'
      BY <2>1, <3>1 DEF WholeInv, DbFiles
    <3>4. \A f \in DbFiles \ {file} : records'[f] = records[f]
      BY <2>1 DEF WholeInv
    <3> QED
      BY <1>3, <2>1, <2>2, <3>2, <3>3, <3>4 DEF WholeInv
  <2> QED
    BY <2>2, <2>3, <2>4
<1>8. CASE Close(t)
  <2> DEFINE h == [NoHandle EXCEPT !.file = handle[t].file, !.use = "closed"]
  <2>0. /\ h \in [file : DbFiles \cup {""}, use : {"none", "open", "closed"},
                 txn : BOOLEAN, puts : Nat]
        /\ h.file = file /\ h.use = "closed" /\ h.puts = 0
    BY <1>1 DEF NoHandle
  <2>1. /\ handle[t].use = "open" /\ file \in DbFiles
        /\ handle' = [handle EXCEPT ![t] = h]
        /\ dat' = records \/ dat' = dat
        /\ UNCHANGED <<mapFileUseCount, nWalletDBUpdated, nLastFlushed, records, selfContained,
                       backup, shutdown>>
    BY <1>1, <1>8 DEF Close, InUse
  <2> HIDE DEF h
  <2>2. /\ HandlesInv'
        /\ \A u \in DbThreads : /\ handle'[u].file = handle[u].file
                                /\ handle'[u].use \in {"open", "closed"} <=>
                                   handle[u].use \in {"open", "closed"}
                                /\ handle'[u].puts = IF u = t THEN 0 ELSE handle[u].puts
    BY <1>1, <2>0, <2>1 DEF HandlesInv
  <2>3. UsesInv'
    BY <2>1, <2>2, UsesKept
  <2>4. WholeInv'
    BY <2>1, <2>2 DEF WholeInv
  <2> QED
    BY <2>2, <2>3, <2>4
<1>9. CASE CountOff(t)
  <2>0. /\ NoHandle \in [file : DbFiles \cup {""}, use : {"none", "open", "closed"},
                         txn : BOOLEAN, puts : Nat]
        /\ NoHandle.use = "none" /\ NoHandle.puts = 0
    BY DEF NoHandle
  <2>1. /\ handle[t].use = "closed" /\ file \in DbFiles
        /\ file \in DOMAIN mapFileUseCount
        /\ handle' = [handle EXCEPT ![t] = NoHandle]
        /\ mapFileUseCount' = [mapFileUseCount EXCEPT ![file] = @ - 1]
        /\ UNCHANGED <<nWalletDBUpdated, nLastFlushed, records, dat, selfContained, backup, shutdown>>
    BY <1>1, <1>3, <1>9 DEF CountOff
  <2>2. HandlesInv'
    BY <1>1, <2>0, <2>1 DEF HandlesInv
  <2>3. UsesInv'
    <3>1. DOMAIN mapFileUseCount' \subseteq DbFiles
      BY <2>1 DEF UsesInv
    <3>2. ASSUME NEW g \in DbFiles PROVE Uses(g)' = IF g = file THEN Uses(g) - 1 ELSE Uses(g)
      <4>1. DOMAIN mapFileUseCount' = DOMAIN mapFileUseCount
        BY <2>1
      <4>2. g \in DOMAIN mapFileUseCount =>
              mapFileUseCount'[g] = IF g = file THEN mapFileUseCount[g] - 1 ELSE mapFileUseCount[g]
        BY <2>1
      <4> QED
        BY <2>1, <4>1, <4>2 DEF Uses
    <3>3. ASSUME NEW g \in DbFiles
          PROVE  Cardinality(Users(g)') - Cardinality(Users(g)) = IF g = file THEN -1 ELSE 0
      <4>1. t \in Users(g) <=> g = file
        BY <2>1 DEF Users
      <4>2. Cardinality(Users(g)') - Cardinality(Users(g)) =
              (IF NoHandle.file = g /\ NoHandle.use \in {"open", "closed"} THEN 1 ELSE 0)
              - (IF t \in Users(g) THEN 1 ELSE 0)
        BY <2>1, UsersChange
      <4>3. ~ (NoHandle.file = g /\ NoHandle.use \in {"open", "closed"})
        BY <2>0
      <4> QED
        BY <4>1, <4>2, <4>3
    <3>4. ASSUME NEW g \in DbFiles PROVE Cardinality(Users(g)') \in Int
      <4>1. Users(g)' \subseteq DbThreads
        BY DEF Users
      <4> QED
        BY <4>1, DbEnvAssumption, FS_Subset, FS_CardinalityType
    <3> QED
      BY <1>2, <3>1, <3>2, <3>3, <3>4 DEF UsesInv
  <2>4. WholeInv'
    <3>1. DOMAIN mapFileUseCount' = DOMAIN mapFileUseCount
      BY <2>1
    <3>2. \A u \in DbThreads : handle'[u].puts = 0 \/ handle'[u] = handle[u]
      BY <1>1, <2>0, <2>1
    <3> QED
      BY <2>1, <3>1, <3>2 DEF WholeInv
  <2> QED
    BY <2>2, <2>3, <2>4
<1> QED
  BY <1>4, <1>5, <1>6, <1>7, <1>8, <1>9

\* Files nobody uses are closed: no handle of theirs dangles.
LEMMA DetachStep ==
  ASSUME DbInv, NEW fs, fs \subseteq DbFiles, NEW detached, detached \subseteq DbFiles,
         \A f \in fs : Unused(f),
         Detach(fs, detached)
  PROVE  /\ HandlesInv' /\ UsesInv' /\ handle' = handle
         /\ DOMAIN mapFileUseCount' = DOMAIN mapFileUseCount \ fs
         /\ dat' = IF fs = {} THEN dat ELSE records
         /\ selfContained' = selfContained \cup detached
<1>1. /\ mapFileUseCount' = [f \in DOMAIN mapFileUseCount \ fs |-> mapFileUseCount[f]]
      /\ dat' = IF fs = {} THEN dat ELSE records
      /\ selfContained' = selfContained \cup detached
  BY DEF Detach, Restrict
<1>2. \A t \in DbThreads : ~ (handle[t].use = "open" /\ handle[t].file \in fs)
  BY UnusedHasNoUser DEF Users
<1>3. handle' = handle
  <2>1. handle' = [t \in DbThreads |-> handle[t]]
    BY <1>2 DEF Detach, CloseDb
  <2> QED
    BY <2>1 DEF DbInv, HandlesInv
<1>4. UsesInv'
  <2> SUFFICES ASSUME NEW f \in DbFiles
               PROVE  Uses(f)' \in Int /\ Uses(f)' >= Cardinality(Users(f)')
    BY <1>1 DEF DbInv, UsesInv
  <2>1. Users(f)' = Users(f)
    BY <1>3 DEF Users
  <2>2. CASE f \notin fs
    <3>1. Uses(f)' = Uses(f)
      BY <1>1, <2>2 DEF Uses
    <3> QED
      BY <2>1, <3>1 DEF DbInv, UsesInv
  <2>3. CASE f \in fs
    <3>1. Uses(f)' = 0 /\ Users(f) = {}
      BY <1>1, <2>3, UnusedHasNoUser DEF Uses
    <3> QED
      BY <2>1, <3>1, FS_EmptySet
  <2> QED
    BY <2>2, <2>3
<1> QED
  BY <1>1, <1>3, <1>4 DEF DbInv, HandlesInv

\* The flush thread, backups, rewrites and Shutdown.
LEMMA CloseStep ==
  ASSUME DbInv, FlushWallet \/ BackupWallet \/ RewriteWallet \/ Shutdown
  PROVE  DbInv'
<1> USE DEF DbInv
<1>0. WalletFile \in DbFiles
  BY DEF DbFiles
<1>1. CASE FlushWallet \/ BackupWallet \/ RewriteWallet
  <2>1. Detach({WalletFile}, {WalletFile}) /\ Unused(WalletFile)
    BY <1>1 DEF FlushWallet, BackupWallet, RewriteWallet
  <2>2. /\ HandlesInv' /\ UsesInv' /\ handle' = handle
        /\ DOMAIN mapFileUseCount' = DOMAIN mapFileUseCount \ {WalletFile}
        /\ dat' = records
        /\ selfContained' = selfContained \cup {WalletFile}
    <3> DEFINE fs == {WalletFile}
    <3>1. fs \subseteq DbFiles /\ fs # {} /\ Detach(fs, fs) /\ \A f \in fs : Unused(f)
      BY <1>0, <2>1
    <3> HIDE DEF fs
    <3>2. /\ HandlesInv' /\ UsesInv' /\ handle' = handle
          /\ DOMAIN mapFileUseCount' = DOMAIN mapFileUseCount \ fs
          /\ dat' = IF fs = {} THEN dat ELSE records
          /\ selfContained' = selfContained \cup fs
      BY <3>1, DetachStep
    <3> QED
      BY <3>1, <3>2 DEF fs
  <2>3. /\ UNCHANGED <<nWalletDBUpdated, records, shutdown>>
        /\ nLastFlushed' \in {nLastFlushed, nWalletDBUpdated}
        /\ backup' = backup \/ backup' = [copied |-> dat'[WalletFile], committed |-> records[WalletFile]]
        /\ shutdown # "exited"
    BY <1>1 DEF FlushWallet, BackupWallet, RewriteWallet
  <2>4. backup'.copied = backup'.committed
    BY <2>2, <2>3 DEF WholeInv
  <2>5. \A t \in DbThreads : handle[t].file = WalletFile => handle[t].puts = 0
    <3> SUFFICES ASSUME NEW t \in DbThreads, handle[t].file = WalletFile PROVE handle[t].puts = 0
      OBVIOUS
    <3>1. Users(WalletFile) = {}
      BY <1>0, <2>1, UnusedHasNoUser
    <3>2. handle[t].use \notin {"open", "closed"}
      BY <3>1 DEF Users
    <3>3. handle[t].use = "none"
      BY <3>2 DEF HandlesInv
    <3> QED
      BY <3>3 DEF HandlesInv
  <2>6. WholeInv'
    BY <2>2, <2>3, <2>4, <2>5 DEF WholeInv
  <2> QED
    BY <2>2, <2>6
<1>2. ASSUME Flush, UNCHANGED <<nWalletDBUpdated, nLastFlushed, records, backup>>,
             shutdown' = "exited" => mapFileUseCount' = <<>>
      PROVE  DbInv'
  <2> DEFINE fs == {f \in DOMAIN mapFileUseCount : Unused(f)}
             detached == {f \in fs : f = WalletFile \/ fDetachDB}
  <2>1. Detach(fs, detached) /\ fs \subseteq DbFiles /\ detached \subseteq DbFiles
        /\ \A f \in fs : Unused(f)
    BY <1>2 DEF Flush, UsesInv
  <2>2. WalletFile \in DOMAIN mapFileUseCount /\ WalletFile \in fs => WalletFile \in detached
    OBVIOUS
  <2>3. fs \subseteq DOMAIN mapFileUseCount
    OBVIOUS
  <2> HIDE DEF fs, detached
  <2>4. /\ HandlesInv' /\ UsesInv' /\ handle' = handle
        /\ DOMAIN mapFileUseCount' = DOMAIN mapFileUseCount \ fs
        /\ dat' = IF fs = {} THEN dat ELSE records
        /\ selfContained' = selfContained \cup detached
    BY <2>1, DetachStep
  <2>5. shutdown' = "exited" => DOMAIN mapFileUseCount' = {}
    BY <1>2
  <2>6. WholeInv'
    BY <1>2, <2>2, <2>3, <2>4, <2>5 DEF WholeInv
  <2> QED
    BY <2>4, <2>6
<1>3. CASE Shutdown
  <2>1. CASE Flush
    BY <1>2, <1>3, <2>1 DEF Shutdown
  <2>2. CASE ~ Flush
    <3>1. /\ shutdown' = "flushing"
          /\ UNCHANGED <<mapFileUseCount, handle, dat, selfContained, nWalletDBUpdated,
                         nLastFlushed, records, backup>>
      BY <1>3, <2>2 DEF Shutdown
    <3>2. UsesInv'
      BY <3>1, UsesKept
    <3> QED
      BY <3>1, <3>2 DEF HandlesInv, WholeInv
  <2> QED
    BY <2>1, <2>2
<1> QED
  BY <1>1, <1>3

LEMMA DbStep ==
  ASSUME DbInv, [DbEnvNext]_dbVars
  PROVE  DbInv'
<1>1. CASE UNCHANGED dbVars
  BY <1>1, UsesKept DEF dbVars, DbInv, HandlesInv, WholeInv
<1> QED
  BY <1>1, HandleStep, CloseStep DEF DbEnvNext

LEMMA DbInvariance == DbEnvInit /\ [][DbEnvNext]_dbVars => []DbInv
<1>1. DbInv /\ [DbEnvNext]_dbVars => DbInv'
  BY DbStep
<1> QED
  BY <1>1, DbInit, PTL

\* No handle dangles, and the wallet is whole when it was flushed, copied or
\* closed for good.
LEMMA DbInvImplies == DbInv => NotUsedAfterClose /\ FilesAreWhole
<1> SUFFICES ASSUME DbInv PROVE NotUsedAfterClose /\ FilesAreWhole
  OBVIOUS
<1>1. NotUsedAfterClose
  BY DEF DbInv, HandlesInv, NotUsedAfterClose
<1>2. shutdown = "exited" => dat = records /\ WalletFile \in selfContained
  BY DEF DbInv, WholeInv
<1> QED
  BY <1>1, <1>2 DEF FilesAreWhole, DbInv, WholeInv

----------------------------------------------------------------------------
(* WalletKeys.  Records of files, by number or by key.                     *)

Maps(K, V) == UNION {[D -> V] : D \in SUBSET K}

LEMMA MapIs ==
  ASSUME NEW K, NEW V, NEW f
  PROVE  f \in Maps(K, V) <=> f \in [DOMAIN f -> V] /\ DOMAIN f \subseteq K
BY DEF Maps

LEMMA MapEmpty ==
  ASSUME NEW K, NEW V
  PROVE  /\ <<>> \in Maps(K, V) /\ DOMAIN <<>> = {}
         /\ \A f \in Maps(K, V) : DOMAIN f = {} <=> f = <<>>
<1>1. DOMAIN <<>> = {}
  OBVIOUS
<1>2. <<>> = [x \in {} |-> x]
  OBVIOUS
<1>3. <<>> \in [{} -> V]
  BY <1>2
<1>4. ASSUME NEW f \in Maps(K, V), DOMAIN f = {} PROVE f = <<>>
  <2>1. f = [x \in DOMAIN f |-> f[x]]
    BY MapIs
  <2> QED
    BY <1>2, <1>4, <2>1
<1> QED
  BY <1>1, <1>3, <1>4 DEF Maps

LEMMA MapOver ==
  ASSUME NEW K, NEW V, NEW f \in Maps(K, V), NEW g \in Maps(K, V)
  PROVE  Over(f, g) \in Maps(K, V)
<1>1. f \in [DOMAIN f -> V] /\ DOMAIN f \subseteq K /\ g \in [DOMAIN g -> V] /\ DOMAIN g \subseteq K
  BY MapIs
<1>2. Over(f, g) \in [DOMAIN f \cup DOMAIN g -> V]
  BY <1>1 DEF Over
<1> QED
  BY <1>1, <1>2 DEF Maps

LEMMA MapPut ==
  ASSUME NEW K, NEW V, NEW f \in Maps(K, V), NEW x \in K, NEW v \in V
  PROVE  Put(f, x, v) \in Maps(K, V)
<1>1. f \in [DOMAIN f -> V] /\ DOMAIN f \subseteq K
  BY MapIs
<1>2. Put(f, x, v) \in [DOMAIN f \cup {x} -> V]
  BY <1>1 DEF Put
<1> QED
  BY <1>1, <1>2 DEF Maps

LEMMA MapWithout ==
  ASSUME NEW K, NEW V, NEW f \in Maps(K, V), NEW S
  PROVE  Without(f, S) \in Maps(K, V)
<1>1. f \in [DOMAIN f -> V] /\ DOMAIN f \subseteq K
  BY MapIs
<1>2. Without(f, S) \in [DOMAIN f \ S -> V]
  BY <1>1 DEF Without
<1> QED
  BY <1>1, <1>2 DEF Maps

Master == [master : Nat, phrase : Phrases]

Masters == {f \in Maps(Nat, Master) : IsFiniteSet(DOMAIN f)}

LEMMA MastersPut ==
  ASSUME NEW f \in Masters, NEW id \in Nat, NEW mk \in Master
  PROVE  Put(f, id, mk) \in Masters
<1>1. Put(f, id, mk) \in Maps(Nat, Master)
  BY MapPut DEF Masters
<1>2. DOMAIN Put(f, id, mk) = DOMAIN f \cup {id}
  BY DEF Put
<1>3. IsFiniteSet(DOMAIN f \cup {id})
  BY FS_AddElement DEF Masters
<1> QED
  BY <1>1, <1>2, <1>3 DEF Masters

LEMMA MastersOver ==
  ASSUME NEW f \in Masters, NEW g \in Masters
  PROVE  Over(f, g) \in Masters
<1>1. Over(f, g) \in Maps(Nat, Master)
  BY MapOver DEF Masters
<1>2. DOMAIN Over(f, g) = DOMAIN f \cup DOMAIN g
  BY DEF Over
<1>3. IsFiniteSet(DOMAIN f \cup DOMAIN g)
  BY FS_Union DEF Masters
<1> QED
  BY <1>1, <1>2, <1>3 DEF Masters

\* The numbers of master keys are counted.
LEMMA NextNumber ==
  ASSUME NEW f \in Masters
  PROVE  /\ Cardinality(DOMAIN f) + 1 \in Nat
         /\ DOMAIN f = {} => Cardinality(DOMAIN f) + 1 = 1
         /\ \A id : DOMAIN f = {id} => Cardinality(DOMAIN f) + 1 = 2
         /\ Cardinality(DOMAIN f) = 1 => \E id \in DOMAIN f : DOMAIN f = {id}
<1>1. Cardinality(DOMAIN f) \in Nat
  BY FS_CardinalityType DEF Masters
<1>2. DOMAIN f = {} => Cardinality(DOMAIN f) = 0
  BY FS_EmptySet
<1>3. ASSUME NEW id, DOMAIN f = {id} PROVE Cardinality(DOMAIN f) = 1
  BY <1>3, FS_Singleton, Zenon
<1>4. Cardinality(DOMAIN f) = 1 => \E id : DOMAIN f = {id}
  BY FS_Singleton DEF Masters
<1>5. \A id : DOMAIN f = {id} => Cardinality(DOMAIN f) + 1 = 2
  <2>1. ASSUME NEW id, DOMAIN f = {id} PROVE Cardinality(DOMAIN f) + 1 = 2
    <3>1. Cardinality(DOMAIN f) = 1
      BY <1>3, <2>1
    <3> QED
      BY <3>1
  <2> QED
    BY <2>1
<1>6. Cardinality(DOMAIN f) = 1 => \E id \in DOMAIN f : DOMAIN f = {id}
  BY <1>4
<1>7. DOMAIN f = {} => Cardinality(DOMAIN f) + 1 = 1
  BY <1>2
<1>8. Cardinality(DOMAIN f) + 1 \in Nat
  BY <1>1
<1> QED
  BY <1>5, <1>6, <1>7, <1>8

KeyStore == [plain : SUBSET Nat, crypted : Maps(Nat, Nat), masters : Masters,
             fUseCrypto : BOOLEAN, vMasterKey : Nat]

KeyFile == [plain : SUBSET Nat, crypted : Maps(Nat, Nat), mkeys : Masters, slack : SUBSET Nat]

Disk == Maps({"wallet", "rewrite", "bak"}, KeyFile)

----------------------------------------------------------------------------
(* What the files are like.                                                *)

\* Every encrypted key is under a master key that is there.
Openable(crypted, masters) ==
  \A k \in DOMAIN crypted : \E id \in DOMAIN masters : masters[id].master = crypted[k]

\* The wallet has plain keys or encrypted ones.  A copy that a crash left behind
\* comes from the first encryption as long as there may be another one, which
\* is when the wallet was salvaged at most once, and its master key has number 1.
GoodDisk(d) ==
  /\ d \in Disk
  /\ "wallet" \in DOMAIN d
  /\ (d["wallet"].plain = {}) # (d["wallet"].crypted = <<>>)
  /\ \A f \in DOMAIN d \cap {"wallet", "rewrite"} : Openable(d[f].crypted, d[f].mkeys)
  /\ "rewrite" \in DOMAIN d => d["rewrite"].plain = {} /\ d["rewrite"].slack = {}
  /\ "bak" \notin DOMAIN d /\ d["wallet"].crypted = <<>> =>
       DOMAIN d["wallet"].mkeys = {} /\ "rewrite" \notin DOMAIN d
  /\ "rewrite" \in DOMAIN d /\ ("bak" \notin DOMAIN d \/ d["wallet"].crypted = <<>>) =>
       /\ DOMAIN d["rewrite"].mkeys = {1} /\ DOMAIN d["wallet"].mkeys = {1}
       /\ d["rewrite"].mkeys[1].master = d["wallet"].mkeys[1].master

\* A lone master key opens with the passphrase p.
Phrased(masters, p) ==
  \A id \in DOMAIN masters : DOMAIN masters = {id} => masters[id].phrase = p

Keeps(d, some) ==
  \A key \in some : \E f \in DOMAIN d \ {"rewrite"} : Usable(d[f], key)

FilesInv ==
  /\ GoodDisk(files)
  /\ "write" \notin keyFaults /\ files["wallet"].crypted # <<>> => Phrased(files["wallet"].mkeys, phrase)
  /\ Keeps(files, issued)
  /\ cleaned => files["wallet"].plain = {} /\ files["wallet"].slack = {}

\* Memory against the file, while the wallet is open.
OpenInv ==
  /\ wallet \in KeyStore
  /\ IF wallet.fUseCrypto
     THEN /\ handles = 0 /\ files["wallet"].plain = {} /\ wallet.crypted # <<>>
          /\ Openable(wallet.crypted, wallet.masters)
          /\ wallet.vMasterKey # 0 =>
               \E id \in DOMAIN wallet.masters : wallet.masters[id].master = wallet.vMasterKey
     ELSE /\ files["wallet"].crypted = <<>> /\ files["wallet"].plain \subseteq wallet.plain
          /\ wallet.vMasterKey = 0
  /\ handles = 0 =>
       /\ DOMAIN wallet.masters = DOMAIN files["wallet"].mkeys
       /\ \A id \in DOMAIN wallet.masters :
            /\ wallet.masters[id].master = files["wallet"].mkeys[id].master
            /\ "write" \notin keyFaults /\ DOMAIN wallet.masters = {id} =>
                 wallet.masters[id].phrase = files["wallet"].mkeys[id].phrase

KeysInv ==
  "unnamed" \notin keyFaults =>
    /\ drawn \in [keys : Nat, masters : Nat] /\ handles \in Nat /\ phrase \in Phrases
    /\ FilesInv
    /\ process = "running" => OpenInv
    /\ process = "stopped" => handles = 0

----------------------------------------------------------------------------
(* What the writes of an operation make of them.                           *)

\* A store with the states that the files went through.
Work == [w : KeyStore, disks : Seq(Disk) \ {<<>>}]

LEMMA LastDisk ==
  ASSUME NEW s \in Seq(Disk) \ {<<>>}
  PROVE  Last(s) \in Disk /\ Last(s) \in ToSet(s) /\ ToSet(s) \subseteq Disk
<1>1. Len(s) \in DOMAIN s
  OBVIOUS
<1> QED
  BY <1>1 DEF Last, ToSet

LEMMA AppendDisk ==
  ASSUME NEW s \in Seq(Disk) \ {<<>>}, NEW d \in Disk
  PROVE  /\ Append(s, d) \in Seq(Disk) \ {<<>>}
         /\ Last(Append(s, d)) = d
         /\ ToSet(Append(s, d)) = ToSet(s) \cup {d}
<1> DEFINE r == Append(s, d)
<1>1. /\ r \in Seq(Disk) /\ Len(r) = Len(s) + 1 /\ r # <<>> /\ Len(s) \in Nat
      /\ DOMAIN r = 1..(Len(s) + 1) /\ DOMAIN s = 1..Len(s)
      /\ r[Len(s) + 1] = d /\ \A i \in 1..Len(s) : r[i] = s[i]
  OBVIOUS
<1> HIDE DEF r
<1>2. Last(r) = d
  BY <1>1 DEF Last
<1>3. ToSet(r) \subseteq ToSet(s) \cup {d}
  BY <1>1 DEF ToSet
<1>4. ToSet(s) \cup {d} \subseteq ToSet(r)
  BY <1>1 DEF ToSet
<1> QED
  BY <1>1, <1>2, <1>3, <1>4 DEF r

LEMMA DiskIs ==
  ASSUME NEW d \in Disk
  PROVE  /\ d \in [DOMAIN d -> KeyFile] /\ DOMAIN d \subseteq {"wallet", "rewrite", "bak"}
         /\ \A f \in DOMAIN d : d[f] \in KeyFile
<1>1. d \in [DOMAIN d -> KeyFile] /\ DOMAIN d \subseteq {"wallet", "rewrite", "bak"}
  BY MapIs DEF Disk
<1> QED
  BY <1>1

\* d with another wallet file.
Rewritten(d, c, e) ==
  /\ e \in Disk /\ DOMAIN e = DOMAIN d
  /\ e["wallet"] = c
  /\ \A f \in DOMAIN d \ {"wallet"} : e[f] = d[f]

LEMMA WritesDisk ==
  ASSUME NEW m \in Work, NEW c \in KeyFile, "wallet" \in DOMAIN Last(m.disks)
  PROVE  LET r == Writes(m, c) IN
         /\ r \in Work /\ r.w = m.w
         /\ ToSet(r.disks) = ToSet(m.disks) \cup {Last(r.disks)}
         /\ Rewritten(Last(m.disks), c, Last(r.disks))
<1> DEFINE d == Last(m.disks)
           e == [d EXCEPT !["wallet"] = c]
<1>1. m.w \in KeyStore /\ m.disks \in Seq(Disk) \ {<<>>}
  BY DEF Work
<1>2. d \in Disk /\ d \in [DOMAIN d -> KeyFile]
  BY <1>1, LastDisk, DiskIs
<1>3. e \in [DOMAIN d -> KeyFile] /\ DOMAIN d \in SUBSET {"wallet", "rewrite", "bak"}
  BY <1>2, DiskIs
<1>4. e \in Disk /\ Rewritten(d, c, e)
  BY <1>2, <1>3 DEF Disk, Maps, Rewritten
<1>5. Writes(m, c) \in Work /\ Writes(m, c).w = m.w /\ Writes(m, c).disks = Append(m.disks, e)
  BY <1>1, <1>4, AppendDisk DEF Work, Writes
<1> QED
  BY <1>1, <1>4, <1>5, AppendDisk

\* A key in memory and in the file.
LEMMA AddKeyWork ==
  ASSUME NEW m \in Work, NEW key \in Nat, "wallet" \in DOMAIN Last(m.disks)
  PROVE  LET r == AddKey(m, key) IN
         /\ r \in Work
         /\ ToSet(r.disks) = ToSet(m.disks) \cup {Last(r.disks)}
         /\ Wallet(r) \in KeyFile
         /\ Rewritten(Last(m.disks), Wallet(r), Last(r.disks))
         /\ Wallet(r).mkeys = Wallet(m).mkeys /\ Wallet(r).slack = Wallet(m).slack
         /\ r.w.masters = m.w.masters /\ r.w.fUseCrypto = m.w.fUseCrypto
         /\ r.w.vMasterKey = m.w.vMasterKey
         /\ m.w.fUseCrypto =>
              /\ r.w.plain = m.w.plain /\ Wallet(r).plain = Wallet(m).plain
              /\ r.w.crypted = Put(m.w.crypted, key, m.w.vMasterKey)
              /\ Wallet(r).crypted = Put(Wallet(m).crypted, key, m.w.vMasterKey)
         /\ ~ m.w.fUseCrypto =>
              /\ r.w.crypted = m.w.crypted /\ Wallet(r).crypted = Wallet(m).crypted
              /\ r.w.plain = m.w.plain \cup {key}
              /\ Wallet(r).plain = Wallet(m).plain \cup {key}
<1> DEFINE v == m.w.vMasterKey
           c == Wallet(m)
<1>1. /\ m.w \in KeyStore /\ m.disks \in Seq(Disk) \ {<<>>} /\ v \in Nat
      /\ m.w.crypted \in Maps(Nat, Nat) /\ m.w.plain \in SUBSET Nat
  BY DEF Work, KeyStore
<1>2. c \in KeyFile /\ c.crypted \in Maps(Nat, Nat) /\ c.plain \in SUBSET Nat
  BY <1>1, LastDisk, DiskIs DEF Wallet, KeyFile
<1>3. CASE m.w.fUseCrypto
  <2> DEFINE n == [m EXCEPT !.w.crypted = Put(@, key, v)]
             f == [c EXCEPT !.crypted = Put(@, key, v)]
  <2>1. Put(m.w.crypted, key, v) \in Maps(Nat, Nat) /\ Put(c.crypted, key, v) \in Maps(Nat, Nat)
    BY <1>1, <1>2, MapPut
  <2>2. /\ f \in KeyFile /\ f.mkeys = c.mkeys /\ f.slack = c.slack /\ f.plain = c.plain
        /\ f.crypted = Put(c.crypted, key, v)
    BY <1>2, <2>1 DEF KeyFile
  <2>3. /\ n \in Work /\ n.disks = m.disks
        /\ n.w.masters = m.w.masters /\ n.w.fUseCrypto = m.w.fUseCrypto
        /\ n.w.vMasterKey = m.w.vMasterKey /\ n.w.plain = m.w.plain
        /\ n.w.crypted = Put(m.w.crypted, key, v)
    BY <1>1, <2>1 DEF KeyStore, Work
  <2>4. AddKey(m, key) = Writes(n, f)
    BY <1>3 DEF AddKey
  <2> HIDE DEF n, f
  <2>5. LET r == Writes(n, f) IN
          /\ r \in Work /\ r.w = n.w
          /\ ToSet(r.disks) = ToSet(n.disks) \cup {Last(r.disks)}
          /\ Rewritten(Last(n.disks), f, Last(r.disks))
    BY <2>2, <2>3, WritesDisk
  <2>6. Wallet(Writes(n, f)) = f
    BY <2>5 DEF Rewritten, Wallet
  <2> QED
    BY <1>3, <2>2, <2>3, <2>4, <2>5, <2>6
<1>4. CASE ~ m.w.fUseCrypto
  <2> DEFINE n == [m EXCEPT !.w.plain = @ \cup {key}]
             f == [c EXCEPT !.plain = @ \cup {key}]
  <2>2. /\ f \in KeyFile /\ f.mkeys = c.mkeys /\ f.slack = c.slack /\ f.crypted = c.crypted
        /\ f.plain = c.plain \cup {key}
    BY <1>2 DEF KeyFile
  <2>3. /\ n \in Work /\ n.disks = m.disks
        /\ n.w.masters = m.w.masters /\ n.w.fUseCrypto = m.w.fUseCrypto
        /\ n.w.vMasterKey = m.w.vMasterKey /\ n.w.crypted = m.w.crypted
        /\ n.w.plain = m.w.plain \cup {key}
    BY <1>1 DEF KeyStore, Work
  <2>4. AddKey(m, key) = Writes(n, f)
    BY <1>4 DEF AddKey
  <2> HIDE DEF n, f
  <2>5. LET r == Writes(n, f) IN
          /\ r \in Work /\ r.w = n.w
          /\ ToSet(r.disks) = ToSet(n.disks) \cup {Last(r.disks)}
          /\ Rewritten(Last(n.disks), f, Last(r.disks))
    BY <2>2, <2>3, WritesDisk
  <2>6. Wallet(Writes(n, f)) = f
    BY <2>5 DEF Rewritten, Wallet
  <2> QED
    BY <1>4, <2>2, <2>3, <2>4, <2>5, <2>6
<1> QED
  BY <1>3, <1>4

\* The first key is there.
LEMMA FirstKey ==
  ASSUME NEW w \in KeyStore, w.crypted # <<>>
  PROVE  First(w) \in DOMAIN w.crypted
<1>1. w.crypted \in Maps(Nat, Nat)
  BY DEF KeyStore
<1>2. DOMAIN w.crypted \subseteq Nat /\ DOMAIN w.crypted # {}
  BY <1>1, MapIs, MapEmpty
<1>3. \E n \in DOMAIN w.crypted : \A k \in DOMAIN w.crypted : n <= k
  BY <1>2, LeastKey
<1> QED
  BY <1>3 DEF First

\* One file with its state of writes.
LEMMA OneDisk ==
  ASSUME NEW w \in KeyStore, NEW d \in Disk
  PROVE  LET m == [w |-> w, disks |-> <<d>>] IN
         m \in Work /\ Last(m.disks) = d /\ ToSet(m.disks) = {d}
BY DEF Work, Last, ToSet

LEMMA UsableIs ==
  ASSUME NEW c, Openable(c.crypted, c.mkeys), NEW k
  PROVE  Usable(c, k) <=> k \in c.plain \cup DOMAIN c.crypted
BY DEF Usable, Openable

LEMMA KeepsRewritten ==
  ASSUME NEW d, NEW c, NEW e, Rewritten(d, c, e), "wallet" \in DOMAIN d,
         NEW some, Keeps(d, some), \A k \in some : Usable(d["wallet"], k) => Usable(c, k)
  PROVE  Keeps(e, some)
BY DEF Keeps, Rewritten

\* The same master keys in the file, under the same numbers.
LEMMA GoodRewritten ==
  ASSUME NEW d, NEW c \in KeyFile, NEW e, GoodDisk(d), Rewritten(d, c, e),
         (c.plain = {}) # (c.crypted = <<>>),
         Openable(c.crypted, c.mkeys),
         c.crypted = <<>> => d["wallet"].crypted = <<>>,
         DOMAIN c.mkeys = DOMAIN d["wallet"].mkeys,
         \A id \in DOMAIN c.mkeys : c.mkeys[id].master = d["wallet"].mkeys[id].master
  PROVE  GoodDisk(e)
<1>1. /\ e \in Disk /\ DOMAIN e = DOMAIN d /\ "wallet" \in DOMAIN d
      /\ e["wallet"] = c
      /\ "rewrite" \in DOMAIN d => e["rewrite"] = d["rewrite"]
  BY DEF GoodDisk, Rewritten
<1>2. \A f \in DOMAIN e \cap {"wallet", "rewrite"} : Openable(e[f].crypted, e[f].mkeys)
  BY <1>1 DEF GoodDisk
<1>3. "rewrite" \in DOMAIN e /\ ("bak" \notin DOMAIN e \/ c.crypted = <<>>) =>
        /\ DOMAIN e["rewrite"].mkeys = {1} /\ DOMAIN c.mkeys = {1}
        /\ e["rewrite"].mkeys[1].master = c.mkeys[1].master
  BY <1>1 DEF GoodDisk
<1>4. "bak" \notin DOMAIN e /\ c.crypted = <<>> =>
        DOMAIN c.mkeys = {} /\ "rewrite" \notin DOMAIN e
  BY <1>1 DEF GoodDisk
<1>5. "rewrite" \in DOMAIN e => e["rewrite"].plain = {} /\ e["rewrite"].slack = {}
  BY <1>1 DEF GoodDisk
<1> QED
  BY <1>1, <1>2, <1>3, <1>4, <1>5 DEF GoodDisk

\* Putting an entry leaves something.
LEMMA PutNotEmpty ==
  ASSUME NEW f \in Maps(Nat, Nat), NEW x \in Nat, NEW v \in Nat
  PROVE  /\ Put(f, x, v) # <<>> /\ x \in DOMAIN Put(f, x, v)
         /\ Put(f, x, v) \in Maps(Nat, Nat)
<1>1. Put(f, x, v) \in Maps(Nat, Nat)
  BY MapPut
<1>2. x \in DOMAIN Put(f, x, v)
  BY DEF Put
<1> QED
  BY <1>1, <1>2, MapEmpty

\* A key more, encrypted under an open master key that the file has too, or plain.
LEMMA AddKeyKeeps ==
  ASSUME FilesInv, OpenInv, ~ IsLocked(wallet), NEW key \in Nat
  PROVE  LET r == AddKey([w |-> wallet, disks |-> <<files>>], key)
             e == Last(r.disks)
         IN  /\ r.w \in KeyStore /\ e \in Disk
             /\ GoodDisk(e)
             /\ Keeps(e, issued \cup {key})
             /\ e["wallet"].mkeys = files["wallet"].mkeys
             /\ cleaned => e["wallet"].plain = {} /\ e["wallet"].slack = {}
             /\ e["wallet"].crypted # <<>> => files["wallet"].crypted # <<>>
             /\ r.w.masters = wallet.masters /\ r.w.fUseCrypto = wallet.fUseCrypto
             /\ r.w.vMasterKey = wallet.vMasterKey
             /\ wallet.fUseCrypto => /\ Openable(r.w.crypted, r.w.masters)
                                     /\ r.w.crypted # <<>> /\ e["wallet"].plain = {}
             /\ ~ wallet.fUseCrypto =>
                  /\ e["wallet"].crypted = <<>> /\ e["wallet"].plain \subseteq r.w.plain
                  /\ files["wallet"].plain \subseteq r.w.plain
<1> DEFINE m == [w |-> wallet, disks |-> <<files>>]
           r == AddKey(m, key)
           e == Last(r.disks)
           c == files["wallet"]
           v == wallet.vMasterKey
<1>1. /\ GoodDisk(files) /\ files \in Disk /\ "wallet" \in DOMAIN files
      /\ wallet \in KeyStore /\ v \in Nat
      /\ c \in KeyFile /\ c.crypted \in Maps(Nat, Nat) /\ wallet.crypted \in Maps(Nat, Nat)
  BY DiskIs DEF FilesInv, GoodDisk, OpenInv, KeyStore, KeyFile
<1>2. m \in Work /\ Last(m.disks) = files /\ ToSet(m.disks) = {files} /\ m.w = wallet
  BY <1>1, OneDisk
<1> HIDE DEF m
<1>3. /\ r \in Work
      /\ Wallet(r) \in KeyFile
      /\ Rewritten(files, Wallet(r), e)
      /\ Wallet(r).mkeys = c.mkeys /\ Wallet(r).slack = c.slack
      /\ r.w.masters = wallet.masters /\ r.w.fUseCrypto = wallet.fUseCrypto
      /\ r.w.vMasterKey = wallet.vMasterKey
      /\ wallet.fUseCrypto =>
           /\ r.w.plain = wallet.plain /\ Wallet(r).plain = c.plain
           /\ r.w.crypted = Put(wallet.crypted, key, v)
           /\ Wallet(r).crypted = Put(c.crypted, key, v)
      /\ ~ wallet.fUseCrypto =>
           /\ r.w.crypted = wallet.crypted /\ Wallet(r).crypted = c.crypted
           /\ r.w.plain = wallet.plain \cup {key}
           /\ Wallet(r).plain = c.plain \cup {key}
  BY <1>1, <1>2, AddKeyWork DEF Wallet
<1> HIDE DEF r
<1>4. e \in Disk /\ DOMAIN e = DOMAIN files /\ e["wallet"] = Wallet(r) /\ r.w \in KeyStore
  BY <1>3 DEF Rewritten, Work
<1> DEFINE b == Wallet(r)
<1>5. \A k \in issued \cup {key} : Usable(b, k) => \E f \in DOMAIN e \ {"rewrite"} : Usable(e[f], k)
  BY <1>1, <1>4
<1> DEFINE Crypted == /\ Openable(r.w.crypted, r.w.masters)
                      /\ r.w.crypted # <<>> /\ e["wallet"].plain = {}
           Plain == /\ e["wallet"].crypted = <<>> /\ e["wallet"].plain \subseteq r.w.plain
                    /\ files["wallet"].plain \subseteq r.w.plain
           Both == /\ GoodDisk(e) /\ Keeps(e, issued \cup {key})
                   /\ cleaned => e["wallet"].plain = {} /\ e["wallet"].slack = {}
                   /\ e["wallet"].crypted # <<>> => files["wallet"].crypted # <<>>
<1>6. ASSUME wallet.fUseCrypto PROVE Both /\ Crypted
  <2>1. /\ v # 0 /\ handles = 0 /\ c.plain = {} /\ c.crypted # <<>>
        /\ \E id \in DOMAIN wallet.masters : wallet.masters[id].master = v
        /\ Openable(wallet.crypted, wallet.masters)
    BY <1>1, <1>6 DEF OpenInv, IsLocked, GoodDisk
  <2>2. \E id \in DOMAIN c.mkeys : c.mkeys[id].master = v
    BY <2>1 DEF OpenInv
  <2>3. /\ b.crypted # <<>> /\ r.w.crypted # <<>>
        /\ \A k \in DOMAIN b.crypted : k = key \/ k \in DOMAIN c.crypted
        /\ \A k \in DOMAIN b.crypted : b.crypted[k] = IF k = key THEN v ELSE c.crypted[k]
        /\ \A k \in DOMAIN c.crypted : k \in DOMAIN b.crypted
        /\ key \in DOMAIN b.crypted
        /\ \A k \in DOMAIN r.w.crypted : k = key \/ k \in DOMAIN wallet.crypted
        /\ \A k \in DOMAIN r.w.crypted : r.w.crypted[k] = IF k = key THEN v ELSE wallet.crypted[k]
    <3>1. Put(c.crypted, key, v) # <<>>
      BY <1>1, PutNotEmpty
    <3>2. Put(wallet.crypted, key, v) # <<>>
      BY <1>1, PutNotEmpty
    <3>3. b.crypted # <<>> /\ r.w.crypted # <<>>
      BY <1>3, <1>6, <3>1, <3>2
    <3> QED
      BY <1>3, <1>6, <3>3 DEF Put
  <2>4. Openable(c.crypted, c.mkeys)
    BY <1>1 DEF GoodDisk
  <2>5. Openable(b.crypted, b.mkeys) /\ Openable(r.w.crypted, r.w.masters)
    BY <1>3, <2>1, <2>2, <2>3, <2>4 DEF Openable
  <2>6. GoodDisk(e)
    <3>1. /\ (b.plain = {}) # (b.crypted = <<>>)
          /\ b.crypted = <<>> => c.crypted = <<>>
          /\ DOMAIN b.mkeys = DOMAIN c.mkeys
          /\ \A id \in DOMAIN b.mkeys : b.mkeys[id].master = c.mkeys[id].master
      BY <1>3, <1>6, <2>1, <2>3
    <3> QED
      BY <1>1, <1>3, <2>5, <3>1, GoodRewritten
  <2>7. Keeps(e, issued)
    BY <1>1, <1>3, <2>1, <2>3, <2>4, <2>5, UsableIs, KeepsRewritten DEF FilesInv
  <2>8. Usable(b, key)
    BY <2>3, <2>5, UsableIs
  <2>9. Keeps(e, issued \cup {key})
    BY <1>5, <2>7, <2>8 DEF Keeps
  <2>10. cleaned => e["wallet"].plain = {} /\ e["wallet"].slack = {}
    BY <1>3, <1>4, <1>6, <2>1 DEF FilesInv
  <2>11. e["wallet"].mkeys = c.mkeys /\ c.crypted # <<>> /\ e["wallet"].plain = {}
    BY <1>3, <1>4, <1>6, <2>1
  <2> QED
    BY <2>3, <2>5, <2>6, <2>9, <2>10, <2>11
<1>7. ASSUME ~ wallet.fUseCrypto PROVE Both /\ Plain
  <2>1. c.crypted = <<>> /\ c.plain \subseteq wallet.plain /\ c.plain # {}
    BY <1>1, <1>7 DEF OpenInv, GoodDisk
  <2>2. Openable(c.crypted, c.mkeys) /\ Openable(b.crypted, b.mkeys)
    BY <1>1, <1>3, <1>7 DEF GoodDisk
  <2>3. GoodDisk(e)
    <3>1. /\ (b.plain = {}) # (b.crypted = <<>>)
          /\ b.crypted = <<>> => c.crypted = <<>>
          /\ DOMAIN b.mkeys = DOMAIN c.mkeys
          /\ \A id \in DOMAIN b.mkeys : b.mkeys[id].master = c.mkeys[id].master
      BY <1>3, <1>7, <2>1
    <3> QED
      BY <1>1, <1>3, <2>2, <3>1, GoodRewritten
  <2>4. Keeps(e, issued)
    BY <1>1, <1>3, <1>7, <2>2, UsableIs, KeepsRewritten DEF FilesInv
  <2>5. Usable(b, key)
    BY <1>3, <1>7 DEF Usable
  <2>6. Keeps(e, issued \cup {key})
    BY <1>5, <2>4, <2>5 DEF Keeps
  <2>7. ~ cleaned
    BY <2>1 DEF FilesInv
  <2>8. /\ e["wallet"].mkeys = c.mkeys /\ e["wallet"].crypted = <<>>
        /\ e["wallet"].plain \subseteq r.w.plain /\ c.plain \subseteq r.w.plain
    BY <1>3, <1>4, <1>7, <2>1
  <2> QED
    BY <2>3, <2>6, <2>7, <2>8
<1>8. e["wallet"].mkeys = files["wallet"].mkeys
  BY <1>3, <1>4
<1> HIDE DEF e, c, v
<1>9. /\ r.w.masters = wallet.masters /\ r.w.fUseCrypto = wallet.fUseCrypto
      /\ r.w.vMasterKey = wallet.vMasterKey
  BY <1>3 DEF v
<1> HIDE DEF Crypted, Plain, Both, b
<1>10. /\ r.w \in KeyStore /\ e \in Disk /\ e["wallet"].mkeys = files["wallet"].mkeys
       /\ r.w.masters = wallet.masters /\ r.w.fUseCrypto = wallet.fUseCrypto
       /\ r.w.vMasterKey = wallet.vMasterKey
       /\ Both /\ (wallet.fUseCrypto => Crypted) /\ (~ wallet.fUseCrypto => Plain)
  BY <1>4, <1>6, <1>7, <1>8, <1>9
<1> QED
  BY <1>10 DEF m, r, e, Crypted, Plain, Both

----------------------------------------------------------------------------
(* What EncryptWallet does to them.                                        *)

\* Every key of the wallet, and maybe the first one of a new pool, encrypted
\* under a new master key, which the file has with its number.
SealedAs(f, id, mk) ==
  /\ f \in KeyFile /\ f.plain = {}
  /\ wallet.plain \subseteq DOMAIN f.crypted
  /\ \A k \in DOMAIN f.crypted : f.crypted[k] = mk.master
  /\ f.mkeys = Put(files["wallet"].mkeys, id, mk)

SealedDisk(d, id, mk) == Rewritten(files, d["wallet"], d) /\ SealedAs(d["wallet"], id, mk)

SealedWork(m, id, mk) ==
  /\ m \in Work
  /\ SealedDisk(Last(m.disks), id, mk)
  /\ \A d \in ToSet(m.disks) : d = files \/ SealedDisk(d, id, mk)
  /\ m.w.plain = {} /\ m.w.fUseCrypto /\ m.w.vMasterKey \in {0, mk.master}
  /\ m.w.crypted = Wallet(m).crypted
  /\ DOMAIN m.w.crypted \subseteq wallet.plain \cup {drawn.keys + 1}
  /\ m.w.masters = Put(wallet.masters, id, mk)

LEMMA PlainWallet ==
  ASSUME FilesInv, OpenInv, ~ wallet.fUseCrypto
  PROVE  LET c == files["wallet"] IN
         /\ files \in Disk /\ "wallet" \in DOMAIN files /\ c \in KeyFile
         /\ c.crypted = <<>> /\ c.plain # {} /\ c.plain \subseteq wallet.plain
         /\ c.mkeys \in Masters /\ wallet \in KeyStore /\ wallet.masters \in Masters
         /\ ~ cleaned
<1>1. files \in Disk /\ "wallet" \in DOMAIN files /\ wallet \in KeyStore
  BY DEF FilesInv, GoodDisk, OpenInv
<1>2. files["wallet"] \in KeyFile
  BY <1>1, DiskIs
<1>3. files["wallet"].crypted = <<>> /\ files["wallet"].plain \subseteq wallet.plain
  BY DEF OpenInv
<1>4. files["wallet"].plain # {}
  BY <1>3 DEF FilesInv, GoodDisk
<1>5. ~ cleaned
  BY <1>4 DEF FilesInv
<1>6. files["wallet"].mkeys \in Masters /\ wallet.masters \in Masters
  BY <1>1, <1>2 DEF KeyFile, KeyStore
<1> QED
  BY <1>1, <1>2, <1>3, <1>4, <1>5, <1>6

\* The files after encryption are good, and the new passphrase opens them.
LEMMA SealedDiskGood ==
  ASSUME FilesInv, OpenInv, ~ wallet.fUseCrypto,
         NEW id \in Nat, NEW mk \in Master, NEW d, SealedDisk(d, id, mk)
  PROVE  /\ GoodDisk(d) /\ d["wallet"].crypted # <<>> /\ d["wallet"].plain = {}
         /\ Openable(d["wallet"].crypted, d["wallet"].mkeys)
         /\ Keeps(d, issued \cup DOMAIN d["wallet"].crypted)
         /\ Phrased(d["wallet"].mkeys, mk.phrase)
<1> DEFINE c == files["wallet"]
           f == d["wallet"]
<1>1. /\ files \in Disk /\ "wallet" \in DOMAIN files /\ c \in KeyFile /\ GoodDisk(files)
      /\ c.crypted = <<>> /\ c.plain # {} /\ c.plain \subseteq wallet.plain
  BY PlainWallet DEF FilesInv
<1>2. /\ d \in Disk /\ DOMAIN d = DOMAIN files
      /\ \A g \in DOMAIN files \ {"wallet"} : d[g] = files[g]
  BY DEF SealedDisk, Rewritten
<1>3. /\ f \in KeyFile /\ f.plain = {} /\ wallet.plain \subseteq DOMAIN f.crypted
      /\ \A k \in DOMAIN f.crypted : f.crypted[k] = mk.master
      /\ f.mkeys = Put(c.mkeys, id, mk)
  BY DEF SealedDisk, SealedAs
<1>4. id \in DOMAIN f.mkeys /\ f.mkeys[id] = mk /\ DOMAIN f.mkeys = DOMAIN c.mkeys \cup {id}
  BY <1>3 DEF Put
<1>5. Openable(f.crypted, f.mkeys)
  BY <1>3, <1>4 DEF Openable
<1>6. f.crypted # <<>>
  BY <1>1, <1>3, MapEmpty
<1>7. "rewrite" \in DOMAIN d => "bak" \in DOMAIN d
  BY <1>1, <1>2 DEF GoodDisk
<1>8. GoodDisk(d)
  <2>1. "rewrite" \in DOMAIN d =>
          /\ d["rewrite"] = files["rewrite"]
          /\ d["rewrite"].plain = {} /\ d["rewrite"].slack = {}
          /\ Openable(d["rewrite"].crypted, d["rewrite"].mkeys)
    BY <1>1, <1>2 DEF GoodDisk
  <2>2. \A g \in DOMAIN d \cap {"wallet", "rewrite"} : Openable(d[g].crypted, d[g].mkeys)
    BY <1>5, <2>1
  <2> QED
    BY <1>1, <1>2, <1>3, <1>6, <1>7, <2>1, <2>2 DEF GoodDisk
<1>9. Keeps(d, issued \cup DOMAIN f.crypted)
  <2>1. Keeps(d, issued)
    <3>1. \A k : Usable(c, k) => k \in c.plain
      BY <1>1, MapEmpty DEF Usable
    <3>2. \A k : Usable(c, k) => Usable(f, k)
      BY <1>1, <1>3, <1>5, <3>1, UsableIs
    <3> QED
      BY <1>1, <3>2, KeepsRewritten DEF SealedDisk, FilesInv
  <2>2. \A k \in DOMAIN f.crypted : Usable(f, k)
    BY <1>5, UsableIs
  <2> QED
    BY <1>1, <1>2, <2>1, <2>2 DEF Keeps
<1>10. Phrased(f.mkeys, mk.phrase)
  BY <1>4 DEF Phrased
<1> QED
  BY <1>3, <1>5, <1>6, <1>8, <1>9, <1>10

LEMMA EncryptedIs ==
  ASSUME FilesInv, OpenInv, ~ wallet.fUseCrypto,
         NEW id \in Nat, NEW mk \in Master,
         NEW begun \in KeyStore, begun = [wallet EXCEPT !.masters = Put(@, id, mk)]
  PROVE  SealedWork(Encrypted([w |-> begun, disks |-> <<files>>], id), id, mk)
<1> DEFINE m == [w |-> begun, disks |-> <<files>>]
           c == files["wallet"]
           w == SealedWallet(m, id)
           n == [m EXCEPT !.w = w]
           f == WithMaster(SealedFile(m, id), m, id)
<1>1. /\ files \in Disk /\ "wallet" \in DOMAIN files /\ c \in KeyFile
      /\ c.plain # {} /\ c.plain \subseteq wallet.plain /\ c.mkeys \in Masters
      /\ wallet \in KeyStore /\ wallet.plain \in SUBSET Nat /\ wallet.vMasterKey = 0
  BY PlainWallet DEF OpenInv, KeyStore
<1>2. /\ begun.plain = wallet.plain /\ begun.masters = Put(wallet.masters, id, mk)
      /\ begun.vMasterKey = 0
  BY <1>1 DEF KeyStore
<1>3. begun.masters[id] = mk /\ mk.master \in Nat
  BY <1>2 DEF Put, Master
<1>4. m \in Work /\ Last(m.disks) = files /\ ToSet(m.disks) = {files} /\ m.w = begun
  BY <1>1, OneDisk
<1>5. Wallet(m) = c
  BY <1>4 DEF Wallet
<1>6. Sealed(m, id) = [key \in wallet.plain |-> mk.master]
  <2>1. m.w.plain = wallet.plain /\ m.w.masters[id].master = mk.master
    BY <1>2, <1>3, <1>4
  <2> HIDE DEF m
  <2> QED
    BY <2>1 DEF Sealed
<1>7. /\ Sealed(m, id) \in Maps(Nat, Nat) /\ DOMAIN Sealed(m, id) = wallet.plain
      /\ \A k \in wallet.plain : Sealed(m, id)[k] = mk.master
  BY <1>1, <1>3, <1>6 DEF Maps
<1> DEFINE s == Sealed(m, id)
<1>8. Put(c.mkeys, id, mk) \in Masters
  BY <1>1, MastersPut
<1>9. f = [[c EXCEPT !.crypted = s, !.plain = @ \ begun.plain, !.slack = @ \cup c.plain]
             EXCEPT !.mkeys = Put(@, id, mk)]
  BY <1>3, <1>4, <1>5 DEF WithMaster, SealedFile
<1>10. w = [begun EXCEPT !.plain = {}, !.crypted = s, !.fUseCrypto = TRUE]
  BY DEF SealedWallet
<1>11. Encrypted(m, id) = Writes(n, f)
  BY DEF Encrypted
<1> HIDE DEF s, f, w
<1>12. /\ f \in KeyFile /\ f.plain = {} /\ f.crypted = s /\ f.mkeys = Put(c.mkeys, id, mk)
  BY <1>1, <1>2, <1>7, <1>8, <1>9 DEF KeyFile, s
<1>13. /\ w \in KeyStore /\ w.plain = {} /\ w.crypted = s /\ w.fUseCrypto = TRUE
       /\ w.masters = Put(wallet.masters, id, mk) /\ w.vMasterKey = 0
  BY <1>2, <1>7, <1>10 DEF KeyStore, s
<1>14. n \in Work /\ n.w = w /\ n.disks = m.disks
  BY <1>4, <1>13 DEF Work
<1> HIDE DEF n
<1>15. LET r == Writes(n, f) IN
         /\ r \in Work /\ r.w = n.w
         /\ ToSet(r.disks) = ToSet(n.disks) \cup {Last(r.disks)}
         /\ Rewritten(Last(n.disks), f, Last(r.disks))
  BY <1>1, <1>4, <1>12, <1>14, WritesDisk
<1> DEFINE r == Writes(n, f)
<1> HIDE DEF r
<1>16. /\ r \in Work /\ r.w = w /\ ToSet(r.disks) = {files, Last(r.disks)}
       /\ Rewritten(files, f, Last(r.disks)) /\ Last(r.disks)["wallet"] = f
  BY <1>4, <1>14, <1>15 DEF r, Rewritten
<1>17. SealedAs(f, id, mk)
  BY <1>7, <1>12 DEF SealedAs, s
<1>18. SealedDisk(Last(r.disks), id, mk)
  BY <1>16, <1>17 DEF SealedDisk
<1>19. /\ Wallet(r) = f /\ DOMAIN r.w.crypted \subseteq wallet.plain
       /\ r.w.plain = {} /\ r.w.fUseCrypto /\ r.w.vMasterKey = 0
       /\ r.w.crypted = Wallet(r).crypted
       /\ r.w.masters = Put(wallet.masters, id, mk)
  BY <1>7, <1>12, <1>13, <1>16 DEF Wallet, s
<1>20. SealedWork(r, id, mk)
  BY <1>16, <1>18, <1>19 DEF SealedWork
<1> QED
  BY <1>11, <1>20 DEF r, m

\* Opening and locking it change no key.
LEMMA SealedStore ==
  ASSUME NEW id \in Nat, NEW mk \in Master, NEW m, SealedWork(m, id, mk),
         NEW v, v \in {0, mk.master}
  PROVE  SealedWork([m EXCEPT !.w = [@ EXCEPT !.vMasterKey = v]], id, mk)
<1> DEFINE w == [m.w EXCEPT !.vMasterKey = v]
           n == [m EXCEPT !.w = w]
<1>1. m \in Work /\ m.w \in KeyStore /\ mk.master \in Nat /\ v \in Nat
  BY DEF SealedWork, Work, Master
<1>2. /\ w \in KeyStore /\ w.plain = m.w.plain /\ w.crypted = m.w.crypted
      /\ w.fUseCrypto = m.w.fUseCrypto /\ w.vMasterKey = v /\ w.masters = m.w.masters
  BY <1>1 DEF KeyStore
<1>3. n = [m EXCEPT !.w = [@ EXCEPT !.vMasterKey = v]]
  OBVIOUS
<1> HIDE DEF w
<1>4. n \in Work /\ n.w = w /\ n.disks = m.disks
  BY <1>1, <1>2 DEF Work
<1> HIDE DEF n
<1>5. Wallet(n) = Wallet(m)
  BY <1>4 DEF Wallet
<1>6. SealedWork(n, id, mk)
  BY <1>2, <1>4, <1>5 DEF SealedWork
<1> QED
  BY <1>3, <1>6

LEMMA PooledIs ==
  ASSUME FilesInv, OpenInv, ~ wallet.fUseCrypto, drawn.keys \in Nat,
         NEW id \in Nat, NEW mk \in Master, NEW m, SealedWork(m, id, mk)
  PROVE  SealedWork(NewKeyPool(m), id, mk)
<1> DEFINE key == drawn.keys + 1
           r == AddKey(m, key)
<1>1. CASE NewKeyPool(m) = m
  BY <1>1
<1>2. CASE NewKeyPool(m) # m
  <2>1. ~ IsLocked(m.w) /\ NewKeyPool(m) = r /\ key \in Nat
    BY <1>2 DEF NewKeyPool
  <2>2. /\ m \in Work /\ m.w.fUseCrypto /\ m.w.plain = {} /\ m.w.crypted = Wallet(m).crypted
        /\ m.w.masters = Put(wallet.masters, id, mk) /\ m.w.vMasterKey \in {0, mk.master}
        /\ DOMAIN m.w.crypted \subseteq wallet.plain \cup {key}
    BY DEF SealedWork
  <2>3. m.w.vMasterKey = mk.master
    BY <2>1, <2>2 DEF IsLocked
  <2> DEFINE d == Last(m.disks)
  <2>4. /\ Rewritten(files, Wallet(m), d) /\ SealedAs(Wallet(m), id, mk) /\ "wallet" \in DOMAIN d
        /\ \A e \in ToSet(m.disks) : e = files \/ SealedDisk(e, id, mk)
    BY PlainWallet DEF SealedWork, SealedDisk, Wallet, Rewritten
  <2>5. /\ r \in Work /\ ToSet(r.disks) = ToSet(m.disks) \cup {Last(r.disks)}
        /\ Wallet(r) \in KeyFile /\ Rewritten(d, Wallet(r), Last(r.disks))
        /\ Wallet(r).mkeys = Wallet(m).mkeys
        /\ r.w.masters = m.w.masters /\ r.w.fUseCrypto = m.w.fUseCrypto
        /\ r.w.vMasterKey = m.w.vMasterKey
        /\ r.w.plain = m.w.plain /\ Wallet(r).plain = Wallet(m).plain
        /\ r.w.crypted = Put(m.w.crypted, key, mk.master)
        /\ Wallet(r).crypted = Put(Wallet(m).crypted, key, mk.master)
    <3>1. /\ r \in Work /\ ToSet(r.disks) = ToSet(m.disks) \cup {Last(r.disks)}
          /\ Wallet(r) \in KeyFile /\ Rewritten(d, Wallet(r), Last(r.disks))
          /\ Wallet(r).mkeys = Wallet(m).mkeys
          /\ r.w.masters = m.w.masters /\ r.w.fUseCrypto = m.w.fUseCrypto
          /\ r.w.vMasterKey = m.w.vMasterKey
          /\ m.w.fUseCrypto =>
              /\ r.w.plain = m.w.plain /\ Wallet(r).plain = Wallet(m).plain
              /\ r.w.crypted = Put(m.w.crypted, key, m.w.vMasterKey)
              /\ Wallet(r).crypted = Put(Wallet(m).crypted, key, m.w.vMasterKey)
      BY <2>1, <2>2, <2>4, AddKeyWork
    <3> HIDE DEF r, d
    <3> QED
      BY <2>2, <2>3, <3>1
  <2> HIDE DEF r
  <2>6. SealedAs(Wallet(r), id, mk)
    <3>1. /\ DOMAIN Wallet(r).crypted = DOMAIN Wallet(m).crypted \cup {key}
          /\ \A k \in DOMAIN Wallet(r).crypted :
               Wallet(r).crypted[k] = IF k = key THEN mk.master ELSE Wallet(m).crypted[k]
      BY <2>5 DEF Put
    <3> QED
      BY <2>4, <2>5, <3>1 DEF SealedAs
  <2>7. Rewritten(files, Wallet(r), Last(r.disks)) /\ Wallet(r) = Last(r.disks)["wallet"]
    BY <2>4, <2>5 DEF Rewritten, Wallet
  <2>8. SealedDisk(Last(r.disks), id, mk)
    BY <2>6, <2>7 DEF SealedDisk
  <2>9. DOMAIN r.w.crypted = DOMAIN m.w.crypted \cup {key}
    BY <2>5 DEF Put
  <2>10. SealedWork(r, id, mk)
    BY <2>2, <2>4, <2>5, <2>8, <2>9 DEF SealedWork
  <2> QED
    BY <2>1, <2>10
<1> QED
  BY <1>1, <1>2

LEMMA ThreeMore ==
  ASSUME NEW s \in Seq(Disk) \ {<<>>}, NEW a, NEW b, NEW c
  PROVE  /\ Last(s \o <<a, b, c>>) = c
         /\ ToSet(s \o <<a, b, c>>) = ToSet(s) \cup {a, b, c}
<1> DEFINE r == s \o <<a, b, c>>
           n == Len(s)
<1>1. n \in Nat /\ DOMAIN s = 1..n
  OBVIOUS
<1>2. /\ Len(r) = n + 3 /\ DOMAIN r = 1..(n + 3)
      /\ \A i \in 1..n : r[i] = s[i]
      /\ r[n + 1] = a /\ r[n + 2] = b /\ r[n + 3] = c
  OBVIOUS
<1> HIDE DEF r, n
<1>3. Last(r) = c
  BY <1>2 DEF Last
<1>4. ToSet(r) \subseteq ToSet(s) \cup {a, b, c}
  <2> SUFFICES ASSUME NEW i \in 1..(n + 3)
               PROVE  r[i] \in ToSet(s) \cup {a, b, c}
    BY <1>2 DEF ToSet
  <2>1. i \in 1..n \/ i = n + 1 \/ i = n + 2 \/ i = n + 3
    BY <1>1
  <2> QED
    BY <1>1, <1>2, <2>1 DEF ToSet
<1>5. ToSet(s) \cup {a, b, c} \subseteq ToSet(r)
  <2>1. ToSet(s) \subseteq ToSet(r)
    BY <1>1, <1>2 DEF ToSet
  <2>2. n + 1 \in DOMAIN r /\ n + 2 \in DOMAIN r /\ n + 3 \in DOMAIN r
    BY <1>1, <1>2
  <2> QED
    BY <1>2, <2>1, <2>2 DEF ToSet
<1> QED
  BY <1>3, <1>4, <1>5 DEF r

\* A wallet that was copied into a new file, and which took the place of the old.
Replaced(d, some, id, mk) ==
  LET c == d["wallet"] IN
  /\ GoodDisk(d) /\ c.crypted # <<>> /\ c.plain = {}
  /\ Keeps(d, issued \cup some)
  /\ DOMAIN c.mkeys = DOMAIN wallet.masters \cup {id} /\ c.mkeys[id] = mk
  /\ \A i \in DOMAIN wallet.masters \ {id} : c.mkeys[i].master = wallet.masters[i].master

LEMMA ReplacedPhrase ==
  ASSUME NEW d, NEW some, NEW id, NEW mk, Replaced(d, some, id, mk)
  PROVE  Phrased(d["wallet"].mkeys, mk.phrase)
BY DEF Replaced, Phrased

\* A copy of the encrypted wallet c.
CopyOf(c, copy, id, mk) ==
  /\ copy \in KeyFile
  /\ copy.plain = {} /\ copy.slack = {} /\ copy.crypted # <<>>
  /\ Openable(copy.crypted, copy.mkeys)
  /\ DOMAIN c.crypted \subseteq DOMAIN copy.crypted
  /\ DOMAIN copy.mkeys = DOMAIN wallet.masters \cup {id}
  /\ copy.mkeys[id] = mk
  /\ \A i \in DOMAIN wallet.masters \ {id} : copy.mkeys[i].master = wallet.masters[i].master

\* What a crash left of the last copy.
Left(d) == IF "rewrite" \in DOMAIN d THEN d["rewrite"] ELSE EmptyFile

\* The copy has what the encrypted wallet has, whatever a crash left behind.
LEMMA CopyIs ==
  ASSUME FilesInv, OpenInv, ~ wallet.fUseCrypto, handles = 0,
         NEW id, id = Cardinality(DOMAIN wallet.masters) + 1,
         NEW mk \in Master, NEW d, SealedDisk(d, id, mk)
  PROVE  id \in Nat /\ CopyOf(d["wallet"], Copy(d["wallet"], Left(d)), id, mk)
<1> DEFINE c == files["wallet"]
           f == d["wallet"]
           left == Left(d)
           copy == Copy(f, left)
<1>1. /\ files \in Disk /\ "wallet" \in DOMAIN files /\ c \in KeyFile /\ c.mkeys \in Masters
      /\ c.crypted = <<>> /\ GoodDisk(files)
      /\ wallet.masters \in Masters
  BY PlainWallet DEF FilesInv
<1>2. /\ id \in Nat
      /\ DOMAIN wallet.masters = {1} => id = 2
  BY <1>1, NextNumber
<1>3. /\ d \in Disk /\ DOMAIN d = DOMAIN files
      /\ "rewrite" \in DOMAIN files => d["rewrite"] = files["rewrite"]
      /\ f \in KeyFile /\ f.plain = {}
      /\ \A k \in DOMAIN f.crypted : f.crypted[k] = mk.master
      /\ f.mkeys = Put(c.mkeys, id, mk)
  BY DEF SealedDisk, SealedAs, Rewritten
<1>4. /\ DOMAIN wallet.masters = DOMAIN c.mkeys
      /\ \A i \in DOMAIN c.mkeys : wallet.masters[i].master = c.mkeys[i].master
  BY DEF OpenInv
<1>5. /\ DOMAIN f.mkeys = DOMAIN c.mkeys \cup {id} /\ f.mkeys[id] = mk
      /\ \A i \in DOMAIN c.mkeys \ {id} : f.mkeys[i] = c.mkeys[i]
  BY <1>3 DEF Put
<1>6. /\ left \in KeyFile /\ left.plain = {} /\ left.slack = {}
      /\ Openable(left.crypted, left.mkeys)
      /\ \A i \in DOMAIN left.mkeys :
           i \in DOMAIN c.mkeys /\ i # id /\ left.mkeys[i].master = c.mkeys[i].master
  <2>1. CASE "rewrite" \in DOMAIN d
    <3>1. /\ left = files["rewrite"]
          /\ left.plain = {} /\ left.slack = {} /\ Openable(left.crypted, left.mkeys)
          /\ DOMAIN left.mkeys = {1} /\ DOMAIN c.mkeys = {1}
          /\ left.mkeys[1].master = c.mkeys[1].master
      BY <1>1, <1>3, <2>1 DEF GoodDisk, Left
    <3>2. left \in KeyFile
      BY <1>1, <1>3, <2>1, <3>1, DiskIs
    <3>3. id = 2
      BY <1>2, <1>4, <3>1
    <3> QED
      BY <3>1, <3>2, <3>3
  <2>2. CASE "rewrite" \notin DOMAIN d
    <3>1. left = EmptyFile
      BY <2>2 DEF Left
    <3>2. <<>> \in Maps(Nat, Nat) /\ <<>> \in Masters /\ DOMAIN <<>> = {}
      BY MapEmpty, FS_EmptySet DEF Masters
    <3> QED
      BY <3>1, <3>2 DEF EmptyFile, KeyFile, Openable
  <2> QED
    BY <2>1, <2>2
<1> HIDE DEF left
<1>7. /\ copy.plain = left.plain \cup f.plain /\ copy.crypted = Over(left.crypted, f.crypted)
      /\ copy.mkeys = Over(left.mkeys, f.mkeys) /\ copy.slack = left.slack
  BY DEF Copy
<1>8. copy \in KeyFile
  <2>1. /\ left.crypted \in Maps(Nat, Nat) /\ f.crypted \in Maps(Nat, Nat)
        /\ left.mkeys \in Masters /\ f.mkeys \in Masters
        /\ left.plain \cup f.plain \in SUBSET Nat /\ left.slack \in SUBSET Nat
    BY <1>3, <1>6 DEF KeyFile
  <2>2. Over(left.crypted, f.crypted) \in Maps(Nat, Nat) /\ Over(left.mkeys, f.mkeys) \in Masters
    BY <2>1, MapOver, MastersOver
  <2> QED
    BY <2>1, <2>2 DEF Copy, KeyFile
<1> HIDE DEF copy
<1>9. /\ DOMAIN copy.mkeys = DOMAIN c.mkeys \cup {id} /\ copy.mkeys[id] = mk
      /\ \A i \in DOMAIN left.mkeys : copy.mkeys[i] = left.mkeys[i]
      /\ \A i \in DOMAIN c.mkeys \ {id} : copy.mkeys[i].master = c.mkeys[i].master
  BY <1>5, <1>6, <1>7 DEF Over
<1>10. /\ DOMAIN copy.crypted = DOMAIN left.crypted \cup DOMAIN f.crypted
       /\ \A k \in DOMAIN copy.crypted :
            \/ k \in DOMAIN left.crypted /\ copy.crypted[k] = left.crypted[k]
            \/ k \in DOMAIN f.crypted /\ copy.crypted[k] = mk.master
  BY <1>3, <1>7 DEF Over
<1>11. Openable(copy.crypted, copy.mkeys)
  <2> SUFFICES ASSUME NEW k \in DOMAIN copy.crypted
               PROVE  \E i \in DOMAIN copy.mkeys : copy.mkeys[i].master = copy.crypted[k]
    BY DEF Openable
  <2>1. CASE k \in DOMAIN left.crypted /\ copy.crypted[k] = left.crypted[k]
    <3>1. PICK i \in DOMAIN left.mkeys : left.mkeys[i].master = left.crypted[k]
      BY <1>6, <2>1 DEF Openable
    <3> QED
      BY <1>6, <1>9, <2>1, <3>1
  <2>2. CASE copy.crypted[k] = mk.master
    BY <1>9, <2>2
  <2> QED
    BY <1>10, <2>1, <2>2
<1>12. copy.crypted # <<>>
  <2>1. f.crypted # <<>> /\ f.crypted \in Maps(Nat, Nat)
    BY <1>2, <1>3, SealedDiskGood DEF KeyFile
  <2>2. DOMAIN f.crypted # {}
    <3> HIDE DEF f
    <3>1. \A g \in Maps(Nat, Nat) : DOMAIN g = {} <=> g = <<>>
      BY MapEmpty
    <3> QED
      BY <2>1, <3>1
  <2> QED
    BY <1>10, <2>2, MapEmpty
<1> QED
  BY <1>2, <1>3, <1>4, <1>6, <1>7, <1>8, <1>9, <1>10, <1>11, <1>12 DEF copy, left, CopyOf

\* The files on the way: the copy next to the wallet, no wallet, the copy as the wallet.
LEMMA RewriteIs ==
  ASSUME FilesInv, OpenInv, ~ wallet.fUseCrypto, handles = 0,
         NEW id, id = Cardinality(DOMAIN wallet.masters) + 1,
         NEW mk \in Master, NEW m, SealedWork(m, id, mk)
  PROVE  LET r == Rewrite(m) IN
         /\ Replaced(Last(r.disks), DOMAIN m.w.crypted, id, mk)
         /\ Last(r.disks)["wallet"].slack = {}
         /\ \A d \in ToSet(r.disks) :
              \/ d = files \/ "wallet" \notin DOMAIN d
              \/ GoodDisk(d) /\ Keeps(d, issued) /\ Phrased(d["wallet"].mkeys, mk.phrase)
<1> DEFINE d == Last(m.disks)
           f == d["wallet"]
           left == Left(d)
           copy == Copy(f, left)
           copied == Put(d, "rewrite", copy)
           gone == Without(copied, {"wallet"})
           done == Put(Without(copied, {"rewrite"}), "wallet", copy)
           ds == m.disks \o <<copied, gone, done>>
<1>1. /\ m.disks \in Seq(Disk) \ {<<>>} /\ SealedDisk(d, id, mk) /\ Wallet(m) = f
      /\ m.w.crypted = f.crypted
      /\ \A e \in ToSet(m.disks) : e = files \/ SealedDisk(e, id, mk)
  BY DEF SealedWork, Work, Wallet
<1>2. /\ d \in Disk /\ DOMAIN d = DOMAIN files /\ "wallet" \in DOMAIN files
      /\ d \in [DOMAIN d -> KeyFile] /\ f.plain = {}
      /\ f.mkeys = Put(files["wallet"].mkeys, id, mk)
  BY <1>1, PlainWallet, DiskIs DEF SealedDisk, SealedAs, Rewritten
<1>3. /\ id \in Nat /\ copy \in KeyFile
      /\ copy.plain = {} /\ copy.slack = {} /\ copy.crypted # <<>>
      /\ Openable(copy.crypted, copy.mkeys)
      /\ DOMAIN f.crypted \subseteq DOMAIN copy.crypted
      /\ DOMAIN copy.mkeys = DOMAIN wallet.masters \cup {id}
      /\ copy.mkeys[id] = mk
      /\ \A i \in DOMAIN wallet.masters \ {id} : copy.mkeys[i].master = wallet.masters[i].master
  <2>1. id \in Nat /\ CopyOf(f, copy, id, mk)
    BY <1>1, CopyIs
  <2> HIDE DEF f, copy
  <2> QED
    BY <2>1 DEF CopyOf
<1>4. Rewrite(m) = [m EXCEPT !.disks = @ \o <<copied, gone, done>>]
  BY <1>1 DEF Rewrite, Left
<1>5. Rewrite(m).disks = ds
  BY <1>4 DEF SealedWork, Work
<1>6. Last(ds) = done /\ ToSet(ds) = ToSet(m.disks) \cup {copied, gone, done}
  BY <1>1, ThreeMore
<1> HIDE DEF copy, ds, left
<1>7. \A e : SealedDisk(e, id, mk) =>
        GoodDisk(e) /\ Keeps(e, issued) /\ Phrased(e["wallet"].mkeys, mk.phrase)
  BY <1>3, SealedDiskGood DEF Keeps
<1>8. /\ copied \in Disk /\ DOMAIN copied = DOMAIN d \cup {"rewrite"}
      /\ copied["rewrite"] = copy /\ copied["wallet"] = f
      /\ \A g \in DOMAIN d \ {"rewrite"} : copied[g] = d[g]
  <2>1. copied \in Disk
    BY <1>2, <1>3, MapPut DEF Disk
  <2> QED
    BY <1>2, <2>1 DEF Put
<1>9. "wallet" \notin DOMAIN gone
  BY DEF Without
<1>10. /\ done \in Disk /\ DOMAIN done = DOMAIN d \ {"rewrite"}
       /\ done["wallet"] = copy
       /\ \A g \in DOMAIN done \ {"wallet"} : done[g] = d[g]
  <2> DEFINE rest == Without(copied, {"rewrite"})
  <2>1. rest \in Disk
    BY <1>8, MapWithout DEF Disk
  <2>2. /\ DOMAIN rest = DOMAIN d \ {"rewrite"}
        /\ \A g \in DOMAIN rest : rest[g] = d[g]
    BY <1>8 DEF Without
  <2> HIDE DEF rest
  <2>3. Put(rest, "wallet", copy) \in Disk
    BY <1>3, <2>1, MapPut DEF Disk
  <2>4. done = Put(rest, "wallet", copy)
    BY DEF rest
  <2> HIDE DEF done
  <2> QED
    BY <1>2, <2>2, <2>3, <2>4 DEF Put
<1>11. /\ GoodDisk(d) /\ f.crypted # <<>> /\ Openable(f.crypted, f.mkeys)
       /\ Keeps(d, issued \cup DOMAIN f.crypted)
       /\ Phrased(f.mkeys, mk.phrase)
  BY <1>1, <1>3, SealedDiskGood
<1> HIDE DEF copied, gone, done
<1>12. GoodDisk(copied)
  <2>1. ASSUME "bak" \notin DOMAIN copied
        PROVE  /\ DOMAIN copy.mkeys = {1} /\ DOMAIN f.mkeys = {1}
               /\ copy.mkeys[1].master = f.mkeys[1].master
    <3>1. DOMAIN files["wallet"].mkeys = {} /\ DOMAIN wallet.masters = {} /\ wallet.masters \in Masters
      BY <1>2, <1>8, <2>1, PlainWallet DEF FilesInv, GoodDisk, OpenInv
    <3>2. id = 1
      BY <3>1, NextNumber
    <3>3. DOMAIN f.mkeys = {1} /\ f.mkeys[1] = mk
      BY <1>2, <3>1, <3>2 DEF Put
    <3> QED
      BY <1>3, <3>1, <3>2, <3>3
  <2>2. \A g \in DOMAIN copied \cap {"wallet", "rewrite"} : Openable(copied[g].crypted, copied[g].mkeys)
    BY <1>3, <1>8, <1>11
  <2> HIDE DEF f
  <2> QED
    BY <1>2, <1>3, <1>8, <1>11, <2>1, <2>2 DEF GoodDisk
<1>13. GoodDisk(done)
  <2>1. \A g \in DOMAIN done \cap {"wallet", "rewrite"} : Openable(done[g].crypted, done[g].mkeys)
    BY <1>3, <1>10
  <2> QED
    BY <1>2, <1>3, <1>10, <2>1 DEF GoodDisk
<1>14. Keeps(copied, issued)
  BY <1>8, <1>11 DEF Keeps
<1>15. Keeps(done, issued \cup DOMAIN f.crypted)
  <2>1. \A k : Usable(f, k) => k \in DOMAIN f.crypted
    BY <1>2 DEF Usable
  <2>2. \A k \in DOMAIN f.crypted : Usable(copy, k)
    BY <1>3, UsableIs
  <2> SUFFICES ASSUME NEW k \in issued \cup DOMAIN f.crypted
               PROVE  \E g \in DOMAIN done \ {"rewrite"} : Usable(done[g], k)
    BY DEF Keeps
  <2>3. PICK g \in DOMAIN d \ {"rewrite"} : Usable(d[g], k)
    BY <1>11 DEF Keeps
  <2>4. CASE g = "wallet"
    BY <1>2, <1>10, <2>1, <2>2, <2>3, <2>4
  <2>5. CASE g # "wallet"
    BY <1>10, <2>3, <2>5
  <2> QED
    BY <2>4, <2>5
<1>16. Replaced(done, DOMAIN f.crypted, id, mk)
  BY <1>3, <1>10, <1>13, <1>15 DEF Replaced
<1>17. GoodDisk(done) /\ Keeps(done, issued) /\ Phrased(done["wallet"].mkeys, mk.phrase)
  BY <1>13, <1>15, <1>16, ReplacedPhrase DEF Keeps
<1>18. GoodDisk(copied) /\ Keeps(copied, issued) /\ Phrased(copied["wallet"].mkeys, mk.phrase)
  BY <1>8, <1>11, <1>12, <1>14
<1>19. \A e \in ToSet(ds) :
         \/ e = files \/ "wallet" \notin DOMAIN e
         \/ GoodDisk(e) /\ Keeps(e, issued) /\ Phrased(e["wallet"].mkeys, mk.phrase)
  BY <1>1, <1>6, <1>7, <1>9, <1>17, <1>18
<1> QED
  BY <1>1, <1>3, <1>5, <1>6, <1>10, <1>16, <1>19

\* Encryption, whole, without the copy, or stopped at any write.
LEMMA EncryptWalletKeeps ==
  ASSUME KeysInv, NEW p \in Phrases, EncryptWallet(p)
  PROVE  KeysInv'
<1> DEFINE id == Cardinality(DOMAIN wallet.masters) + 1
           master == [master |-> drawn.masters + 1, phrase |-> p]
           begun  == [wallet EXCEPT !.masters = Put(@, id, master)]
           sealed == Encrypted([w |-> begun, disks |-> <<files>>], id)
           opened == IF Surely(sealed.w, p) = {} THEN sealed.w ELSE Unlocked(sealed.w, id)
           begin  == [sealed EXCEPT !.w = opened]
           pooled == NewKeyPool(begin)
           done   == [pooled EXCEPT !.w = Locked(@)]
           ended  == Rewrite(done)
           fresh  == DOMAIN done.w.crypted \ wallet.plain
           After(disk) == /\ files' = disk /\ wallet' = done.w /\ phrase' = p
                          /\ issued' = issued \cup fresh
           Begins == /\ MayFail("begin") /\ wallet' = begun /\ handles' = handles + 1
                     /\ UNCHANGED <<files, issued, phrase, cleaned, process>>
           Ends   == /\ handles = 0 /\ After(Last(ended.disks)) /\ cleaned' = TRUE
                     /\ UNCHANGED <<handles, process, keyFaults>>
           NoCopy == /\ handles = 0 /\ MayFail("copy") /\ After(Last(done.disks))
                     /\ UNCHANGED <<handles, process, cleaned>>
           Hangs  == /\ handles > 0 /\ After(Last(done.disks)) /\ process' = "hangs"
                     /\ UNCHANGED <<handles, cleaned, keyFaults>>
           Dies   == /\ "crash" \notin keyFaults
                     /\ CrashesOn(ToSet(IF handles = 0 THEN ended.disks ELSE done.disks), p)
<1>0. process = "running" /\ ~ wallet.fUseCrypto
  BY Zenon DEF EncryptWallet
<1>1. /\ drawn' = [keys |-> drawn.keys + Cardinality(fresh), masters |-> drawn.masters + 1]
      /\ Begins \/ Ends \/ NoCopy \/ Hangs \/ Dies
  BY Zenon DEF EncryptWallet
<1>2. SUFFICES ASSUME "unnamed" \notin keyFaults'
               PROVE  /\ drawn' \in [keys : Nat, masters : Nat] /\ handles' \in Nat
                      /\ phrase' \in Phrases
                      /\ FilesInv' /\ (process' = "running" => OpenInv')
                      /\ (process' = "stopped" => handles' = 0)
  BY DEF KeysInv
<1>3. "unnamed" \notin keyFaults
  <2> HIDE DEF ended, done, begun
  <2> QED
    BY <1>1, <1>2 DEF MayFail, CrashesOn
<1>4. /\ drawn \in [keys : Nat, masters : Nat] /\ handles \in Nat /\ phrase \in Phrases
      /\ FilesInv /\ OpenInv /\ wallet \in KeyStore /\ wallet.masters \in Masters
  <2>1. /\ drawn \in [keys : Nat, masters : Nat] /\ handles \in Nat /\ phrase \in Phrases
        /\ FilesInv /\ OpenInv
    BY <1>0, <1>3 DEF KeysInv
  <2> QED
    BY <1>0, <2>1, PlainWallet
<1>5. /\ id \in Nat /\ master \in Master /\ drawn.keys \in Nat
      /\ master.phrase = p
  BY <1>4, NextNumber DEF Master
<1>6. begun \in KeyStore
  <2>1. Put(wallet.masters, id, master) \in Masters
    BY <1>4, <1>5, MastersPut
  <2> HIDE DEF id, master
  <2> QED
    BY <1>4, <2>1 DEF KeyStore
<1> HIDE DEF id, master
<1>7. SealedWork(sealed, id, master)
  <2>1. begun = [wallet EXCEPT !.masters = Put(@, id, master)]
    OBVIOUS
  <2> HIDE DEF begun
  <2> QED
    BY <1>0, <1>4, <1>5, <1>6, <2>1, EncryptedIs
<1> HIDE DEF sealed
<1>8. SealedWork(begin, id, master)
  <2>1. sealed = [sealed EXCEPT !.w = sealed.w]
    BY <1>7 DEF SealedWork, Work
  <2>2. sealed.w.masters = Put(wallet.masters, id, master)
    BY <1>7 DEF SealedWork
  <2>3. sealed.w.masters[id] = master
    BY <2>2 DEF Put
  <2>4. begin = sealed \/ begin = [sealed EXCEPT !.w = [@ EXCEPT !.vMasterKey = master.master]]
    BY <2>1, <2>3 DEF Unlocked
  <2>5. SealedWork([sealed EXCEPT !.w = [@ EXCEPT !.vMasterKey = master.master]], id, master)
    BY <1>5, <1>7, SealedStore
  <2> QED
    BY <1>7, <2>4, <2>5
<1> HIDE DEF begin
<1>9. SealedWork(pooled, id, master)
  BY <1>0, <1>4, <1>5, <1>8, PooledIs
<1> HIDE DEF pooled
<1>10. SealedWork(done, id, master) /\ done.w.vMasterKey = 0
  <2>1. done = [pooled EXCEPT !.w = [@ EXCEPT !.vMasterKey = 0]]
    BY DEF Locked
  <2>2. SealedWork(done, id, master)
    BY <1>5, <1>9, <2>1, SealedStore
  <2>3. done.w.vMasterKey = 0
    BY <1>9, <2>1 DEF SealedWork, Work, KeyStore
  <2> QED
    BY <2>2, <2>3
<1> HIDE DEF done
<1>11. drawn' \in [keys : Nat, masters : Nat]
  <2>1. fresh \subseteq {drawn.keys + 1}
    BY <1>10 DEF SealedWork
  <2>2. Cardinality(fresh) \in Nat
    <3> HIDE DEF fresh
    <3>1. IsFiniteSet({drawn.keys + 1})
      BY FS_Singleton
    <3>2. IsFiniteSet(fresh)
      BY <2>1, <3>1, FS_Subset
    <3> QED
      BY <3>2, FS_CardinalityType
  <2> QED
    BY <1>1, <1>4, <2>2
<1> DEFINE d == Last(done.disks)
<1>12. /\ SealedDisk(d, id, master)
       /\ \A e \in ToSet(done.disks) : e = files \/ SealedDisk(e, id, master)
       /\ done.w \in KeyStore /\ done.w.fUseCrypto
       /\ done.w.crypted = d["wallet"].crypted
       /\ done.w.masters = Put(wallet.masters, id, master)
  BY <1>10 DEF SealedWork, Work, Wallet
<1>13. \A e : SealedDisk(e, id, master) =>
         /\ GoodDisk(e) /\ e["wallet"].crypted # <<>> /\ e["wallet"].plain = {}
         /\ Openable(e["wallet"].crypted, e["wallet"].mkeys)
         /\ Keeps(e, issued \cup DOMAIN e["wallet"].crypted) /\ Keeps(e, issued)
         /\ Phrased(e["wallet"].mkeys, p)
  BY <1>0, <1>4, <1>5, SealedDiskGood DEF Keeps
<1>14. ~ cleaned
  BY <1>0, <1>4, PlainWallet
<1>15. handles = 0 =>
         /\ Replaced(Last(ended.disks), DOMAIN done.w.crypted, id, master)
         /\ Last(ended.disks)["wallet"].slack = {}
         /\ \A e \in ToSet(ended.disks) :
              \/ e = files \/ "wallet" \notin DOMAIN e
              \/ GoodDisk(e) /\ Keeps(e, issued) /\ Phrased(e["wallet"].mkeys, p)
  <2>1. id = Cardinality(DOMAIN wallet.masters) + 1
    BY DEF id
  <2> QED
    BY <1>0, <1>4, <1>5, <1>10, <2>1, RewriteIs
<1> HIDE DEF ended, d, fresh
<1>16. fresh \subseteq DOMAIN done.w.crypted
  BY DEF fresh
\* The wallet is open on the file f.
<1>17. ASSUME NEW f, handles = 0, wallet' = done.w, handles' = handles,
              files' = f, f["wallet"].plain = {},
              DOMAIN f["wallet"].mkeys = DOMAIN wallet.masters \cup {id},
              f["wallet"].mkeys[id] = master,
              \A i \in DOMAIN wallet.masters \ {id} :
                f["wallet"].mkeys[i].master = wallet.masters[i].master
       PROVE  OpenInv'
  <2>1. /\ DOMAIN done.w.masters = DOMAIN wallet.masters \cup {id}
        /\ done.w.masters[id] = master
        /\ \A i \in DOMAIN wallet.masters \ {id} : done.w.masters[i] = wallet.masters[i]
    BY <1>12 DEF Put
  <2>2. done.w.crypted # <<>> /\ \A k \in DOMAIN done.w.crypted : done.w.crypted[k] = master.master
    BY <1>12, <1>13 DEF SealedDisk, SealedAs
  <2>3. Openable(done.w.crypted, done.w.masters)
    BY <2>1, <2>2 DEF Openable
  <2>4. \A i \in DOMAIN done.w.masters :
          /\ done.w.masters[i].master = f["wallet"].mkeys[i].master
          /\ DOMAIN done.w.masters = {i} => done.w.masters[i].phrase = f["wallet"].mkeys[i].phrase
    BY <1>17, <2>1
  <2> QED
    BY <1>10, <1>12, <1>17, <2>1, <2>2, <2>3, <2>4 DEF OpenInv
<1>18. CASE Begins
  <2>1. FilesInv'
    BY <1>4, <1>18 DEF FilesInv, MayFail
  <2>2. /\ wallet' = begun /\ handles' = handles + 1 /\ files' = files /\ phrase' = phrase
        /\ process' = process
    BY <1>18
  <2>3. /\ begun.plain = wallet.plain /\ begun.fUseCrypto = wallet.fUseCrypto
        /\ begun.vMasterKey = wallet.vMasterKey
    BY <1>4 DEF KeyStore
  <2>4. /\ files["wallet"].crypted = <<>> /\ files["wallet"].plain \subseteq wallet.plain
        /\ wallet.vMasterKey = 0
    BY <1>0, <1>4 DEF OpenInv
  <2> HIDE DEF begun
  <2>5. handles' # 0
    BY <1>4, <2>2
  <2>6. OpenInv'
    BY <1>0, <1>6, <2>2, <2>3, <2>4, <2>5 DEF OpenInv
  <2> QED
    BY <1>0, <1>4, <1>11, <2>1, <2>2, <2>6
<1>19. CASE Ends
  <2> DEFINE e == Last(ended.disks)
  <2>1. /\ Replaced(e, DOMAIN done.w.crypted, id, master) /\ e["wallet"].slack = {}
        /\ Phrased(e["wallet"].mkeys, p)
    BY <1>5, <1>15, <1>19, ReplacedPhrase
  <2>2. /\ files' = e /\ wallet' = done.w /\ phrase' = p /\ issued' = issued \cup fresh
        /\ handles' = handles /\ handles = 0 /\ process' = process
    BY <1>19
  <2>3. FilesInv'
    BY <1>16, <2>1, <2>2 DEF FilesInv, Replaced, Keeps
  <2>4. OpenInv'
    BY <1>17, <2>1, <2>2 DEF Replaced
  <2> QED
    BY <1>0, <1>4, <1>11, <2>2, <2>3, <2>4
<1>20. ASSUME NoCopy \/ Hangs PROVE FilesInv'
  <2>1. /\ files' = d /\ wallet' = done.w /\ phrase' = p /\ issued' = issued \cup fresh
        /\ cleaned' = cleaned
    BY <1>20 DEF d
  <2> QED
    BY <1>12, <1>13, <1>14, <1>16, <2>1 DEF FilesInv, Keeps
<1>21. CASE NoCopy
  <2>1. /\ files' = d /\ wallet' = done.w /\ phrase' = p
        /\ handles' = handles /\ handles = 0 /\ process' = process
    BY <1>21 DEF d
  <2>2. /\ d["wallet"].plain = {} /\ d["wallet"].mkeys = Put(files["wallet"].mkeys, id, master)
    BY <1>12 DEF SealedDisk, SealedAs
  <2>3. /\ DOMAIN wallet.masters = DOMAIN files["wallet"].mkeys
        /\ \A i \in DOMAIN wallet.masters : wallet.masters[i].master = files["wallet"].mkeys[i].master
    BY <1>4, <2>1 DEF OpenInv
  <2>4. /\ DOMAIN d["wallet"].mkeys = DOMAIN wallet.masters \cup {id}
        /\ d["wallet"].mkeys[id] = master
        /\ \A i \in DOMAIN wallet.masters \ {id} :
             d["wallet"].mkeys[i].master = wallet.masters[i].master
    BY <2>2, <2>3 DEF Put
  <2>5. OpenInv'
    BY <1>17, <2>1, <2>2, <2>4
  <2> QED
    BY <1>0, <1>4, <1>11, <1>20, <1>21, <2>1, <2>5
<1>22. CASE Hangs
  BY <1>4, <1>11, <1>20, <1>22
<1>23. CASE Dies
  <2> DEFINE ds == IF handles = 0 THEN ended.disks ELSE done.disks
  <2>1. \A e \in ToSet(ds) :
          \/ e = files \/ "wallet" \notin DOMAIN e
          \/ GoodDisk(e) /\ Keeps(e, issued) /\ Phrased(e["wallet"].mkeys, p)
    BY <1>12, <1>13, <1>15
  <2> HIDE DEF ds
  <2>2. /\ files' \in ToSet(ds)
        /\ phrase' = (IF files' = files THEN phrase ELSE p)
        /\ process' = "stopped" /\ handles' = 0
        /\ keyFaults' = keyFaults \cup {"crash"}
                          \cup (IF "wallet" \in DOMAIN files' THEN {} ELSE {"unnamed"})
        /\ issued' = issued /\ cleaned' = cleaned
    BY <1>23 DEF CrashesOn, ds
  <2>3. "wallet" \in DOMAIN files'
    BY <1>2, <2>2
  <2>4. CASE files' = files
    <3>1. phrase' = phrase /\ ("write" \in keyFaults => "write" \in keyFaults')
      BY <2>2, <2>4
    <3>2. FilesInv'
      BY <1>4, <2>2, <2>4, <3>1 DEF FilesInv
    <3> QED
      BY <1>4, <1>11, <2>2, <3>1, <3>2
  <2>5. CASE files' # files
    <3>1. phrase' = p /\ GoodDisk(files') /\ Keeps(files', issued) /\ Phrased(files'["wallet"].mkeys, p)
      BY <2>1, <2>2, <2>3, <2>5
    <3>2. FilesInv'
      BY <1>14, <2>2, <3>1 DEF FilesInv
    <3> QED
      BY <1>11, <2>2, <3>1, <3>2
  <2> QED
    BY <2>4, <2>5
<1> HIDE DEF Begins, Ends, NoCopy, Hangs, Dies
<1> QED
  BY <1>1, <1>18, <1>19, <1>21, <1>22, <1>23

----------------------------------------------------------------------------
(* The other operations.                                                   *)

LEMMA GenerateNewKeyKeeps ==
  ASSUME KeysInv, GenerateNewKey
  PROVE  KeysInv'
<1> DEFINE key == drawn.keys + 1
           r == AddKey([w |-> wallet, disks |-> <<files>>], key)
           e == Last(r.disks)
<1>1. /\ process = "running" /\ process' = process /\ ~ IsLocked(wallet)
      /\ drawn' = [drawn EXCEPT !.keys = key] /\ wallet' = r.w
      /\ \/ files' = e /\ issued' = issued \cup {key} /\ keyFaults' = keyFaults
         \/ /\ "write" \in keyFaults' /\ files' = files /\ issued' = issued
            /\ keyFaults \subseteq keyFaults'
      /\ handles' = handles /\ phrase' = phrase /\ cleaned' = cleaned
  BY Zenon DEF GenerateNewKey, MayFail, Runs
<1> HIDE DEF r
<1>2. SUFFICES ASSUME "unnamed" \notin keyFaults'
               PROVE  /\ drawn' \in [keys : Nat, masters : Nat] /\ handles' \in Nat
                      /\ phrase' \in Phrases /\ FilesInv' /\ OpenInv'
  BY <1>1 DEF KeysInv
<1>3. /\ drawn \in [keys : Nat, masters : Nat] /\ handles \in Nat /\ phrase \in Phrases
      /\ FilesInv /\ OpenInv /\ key \in Nat
  BY <1>1, <1>2 DEF KeysInv
<1>4. drawn' \in [keys : Nat, masters : Nat]
  BY <1>1, <1>3
<1> HIDE DEF key
<1>5. /\ r.w \in KeyStore /\ e \in Disk
      /\ GoodDisk(e)
      /\ Keeps(e, issued \cup {key})
      /\ e["wallet"].mkeys = files["wallet"].mkeys
      /\ cleaned => e["wallet"].plain = {} /\ e["wallet"].slack = {}
      /\ e["wallet"].crypted # <<>> => files["wallet"].crypted # <<>>
      /\ r.w.masters = wallet.masters /\ r.w.fUseCrypto = wallet.fUseCrypto
      /\ r.w.vMasterKey = wallet.vMasterKey
      /\ wallet.fUseCrypto => /\ Openable(r.w.crypted, r.w.masters)
                              /\ r.w.crypted # <<>> /\ e["wallet"].plain = {}
      /\ ~ wallet.fUseCrypto =>
           /\ e["wallet"].crypted = <<>> /\ e["wallet"].plain \subseteq r.w.plain
           /\ files["wallet"].plain \subseteq r.w.plain
  BY <1>1, <1>3, AddKeyKeeps DEF r
<1> HIDE DEF e
<1>6. FilesInv'
  <2>1. CASE files' = e /\ issued' = issued \cup {key} /\ keyFaults' = keyFaults
    BY <1>1, <1>3, <1>5, <2>1 DEF FilesInv
  <2>2. CASE files' = files /\ issued' = issued /\ keyFaults \subseteq keyFaults'
    BY <1>1, <1>3, <2>2 DEF FilesInv
  <2> QED
    BY <1>1, <2>1, <2>2
<1>7. OpenInv'
  <2>1. /\ wallet'.masters = wallet.masters /\ wallet'.fUseCrypto = wallet.fUseCrypto
        /\ wallet'.vMasterKey = wallet.vMasterKey /\ wallet' \in KeyStore
        /\ files'["wallet"].mkeys = files["wallet"].mkeys
    BY <1>1, <1>5
  <2>2. handles' = 0 =>
          /\ DOMAIN wallet'.masters = DOMAIN files'["wallet"].mkeys
          /\ \A id \in DOMAIN wallet'.masters :
               /\ wallet'.masters[id].master = files'["wallet"].mkeys[id].master
               /\ "write" \notin keyFaults' /\ DOMAIN wallet'.masters = {id} =>
                    wallet'.masters[id].phrase = files'["wallet"].mkeys[id].phrase
    <3>1. "write" \notin keyFaults' => "write" \notin keyFaults
      BY <1>1
    <3> QED
      BY <1>1, <1>3, <2>1, <3>1 DEF OpenInv
  <2>3. CASE wallet.fUseCrypto
    <3>1. /\ handles = 0 /\ files["wallet"].plain = {}
          /\ wallet.vMasterKey # 0 =>
               \E id \in DOMAIN wallet.masters : wallet.masters[id].master = wallet.vMasterKey
      BY <1>3, <2>3 DEF OpenInv
    <3>2. files'["wallet"].plain = {}
      BY <1>1, <1>5, <2>3, <3>1
    <3>3. Openable(wallet'.crypted, wallet'.masters) /\ wallet'.crypted # <<>>
      BY <1>1, <1>5, <2>3
    <3> QED
      BY <1>1, <2>1, <2>2, <2>3, <3>1, <3>2, <3>3 DEF OpenInv
  <2>4. CASE ~ wallet.fUseCrypto
    <3>1. /\ files["wallet"].crypted = <<>> /\ wallet.vMasterKey = 0
      BY <1>3, <2>4 DEF OpenInv
    <3>2. files'["wallet"].crypted = <<>> /\ files'["wallet"].plain \subseteq wallet'.plain
      BY <1>1, <1>5, <2>4, <3>1
    <3> QED
      BY <2>1, <2>2, <2>4, <3>1, <3>2 DEF OpenInv
  <2> QED
    BY <2>3, <2>4
<1> QED
  BY <1>1, <1>3, <1>4, <1>6, <1>7

\* Only the key the wallet is open with changes.
LEMMA OpenedKeeps ==
  ASSUME KeysInv, process = "running", wallet.fUseCrypto,
         NEW v \in Nat, wallet' = [wallet EXCEPT !.vMasterKey = v],
         v # 0 => \E id \in DOMAIN wallet.masters : wallet.masters[id].master = v,
         UNCHANGED <<files, handles, issued, drawn, phrase, cleaned, process, keyFaults>>
  PROVE  KeysInv'
<1> SUFFICES ASSUME "unnamed" \notin keyFaults
             PROVE  FilesInv' /\ OpenInv'
  BY DEF KeysInv
<1>1. FilesInv /\ OpenInv
  BY DEF KeysInv
<1>2. FilesInv'
  BY <1>1 DEF FilesInv
<1>3. /\ wallet' \in KeyStore /\ wallet'.masters = wallet.masters
      /\ wallet'.crypted = wallet.crypted /\ wallet'.fUseCrypto = wallet.fUseCrypto
      /\ wallet'.vMasterKey = v
  BY <1>1 DEF OpenInv, KeyStore
<1>4. OpenInv'
  BY <1>1, <1>3 DEF OpenInv
<1> QED
  BY <1>2, <1>4

LEMMA LockKeeps ==
  ASSUME KeysInv, Lock
  PROVE  KeysInv'
<1>1. /\ process = "running" /\ wallet.fUseCrypto /\ wallet' = [wallet EXCEPT !.vMasterKey = 0]
      /\ UNCHANGED <<files, handles, issued, drawn, phrase, cleaned, process, keyFaults>>
  BY DEF Lock, Locked, Runs
<1> QED
  BY <1>1, OpenedKeeps

LEMMA UnlockKeeps ==
  ASSUME KeysInv, NEW p \in Phrases, Unlock(p)
  PROVE  KeysInv'
<1>1. PICK id \in Opens(wallet, p) : wallet' = Unlocked(wallet, id)
  BY DEF Unlock
<1> DEFINE v == wallet.masters[id].master
<1>2. /\ process = "running" /\ wallet.fUseCrypto /\ wallet' = [wallet EXCEPT !.vMasterKey = v]
      /\ id \in DOMAIN wallet.masters
      /\ UNCHANGED <<files, handles, issued, drawn, phrase, cleaned, process, keyFaults>>
  BY <1>1 DEF Unlock, Unlocked, Runs, IsLocked, Opens
<1>3. CASE "unnamed" \in keyFaults
  BY <1>2, <1>3 DEF KeysInv
<1>4. CASE "unnamed" \notin keyFaults
  <2>1. wallet \in KeyStore
    BY <1>2, <1>4 DEF KeysInv, OpenInv
  <2>2. wallet.masters \in [DOMAIN wallet.masters -> Master]
    BY <2>1, MapIs DEF KeyStore, Masters
  <2>3. v \in Nat
    BY <1>2, <2>2 DEF Master
  <2> QED
    BY <1>2, <2>3, OpenedKeeps
<1> QED
  BY <1>3, <1>4

LEMMA ExitKeeps ==
  ASSUME KeysInv, Exit
  PROVE  KeysInv'
<1> SUFFICES ASSUME "unnamed" \notin keyFaults
             PROVE  KeysInv'
  BY DEF Exit, KeysInv
<1>1. /\ process' = "stopped" /\ handles' = 0
      /\ UNCHANGED <<files, issued, drawn, phrase, cleaned, keyFaults>>
  BY DEF Exit
<1>2. FilesInv'
  BY <1>1 DEF KeysInv, FilesInv
<1> QED
  BY <1>1, <1>2 DEF KeysInv

\* One master key under another passphrase, in memory and in the file.
LEMMA ChangeWalletPassphraseKeeps ==
  ASSUME KeysInv, NEW old \in Phrases, NEW new \in Phrases, ChangeWalletPassphrase(old, new)
  PROVE  KeysInv'
<1> DEFINE changed(id) == [wallet EXCEPT !.masters[id].phrase = new]
           Changes(id) ==
             /\ wallet' = IF IsLocked(wallet) THEN changed(id) ELSE Unlocked(changed(id), id)
             /\ phrase' = new
             /\ \/ files' = [files EXCEPT !["wallet"].mkeys = Put(@, id, changed(id).masters[id])]
                   /\ UNCHANGED keyFaults
                \/ MayFail("write") /\ UNCHANGED files
<1>1. /\ process = "running" /\ wallet.fUseCrypto
      /\ UNCHANGED <<handles, issued, drawn, cleaned, process>>
      /\ \/ \E id \in Opens(wallet, old) : Changes(id)
         \/ wallet' = Locked(wallet) /\ UNCHANGED <<files, phrase, keyFaults>>
  BY Zenon DEF ChangeWalletPassphrase, Runs
<1>2. CASE wallet' = Locked(wallet) /\ UNCHANGED <<files, phrase, keyFaults>>
  BY <1>1, <1>2, OpenedKeeps DEF Locked
<1>3. CASE \E id \in Opens(wallet, old) : Changes(id)
  <2>1. PICK id \in Opens(wallet, old) : Changes(id)
    BY <1>3
  <2> DEFINE mk == [wallet.masters[id] EXCEPT !.phrase = new]
             c == files["wallet"]
             f == [c EXCEPT !.mkeys = Put(@, id, mk)]
             w == changed(id)
  <2>2. /\ id \in DOMAIN wallet.masters
        /\ keyFaults \subseteq keyFaults' /\ phrase' = new
    BY <2>1 DEF Opens, MayFail
  <2> SUFFICES ASSUME "unnamed" \notin keyFaults'
               PROVE  KeysInv'
    BY DEF KeysInv
  <2>3. /\ drawn \in [keys : Nat, masters : Nat] /\ handles \in Nat /\ FilesInv /\ OpenInv
    BY <1>1, <2>2 DEF KeysInv
  <2>4. /\ files \in Disk /\ "wallet" \in DOMAIN files /\ c \in KeyFile
        /\ wallet \in KeyStore /\ wallet.masters \in Masters /\ c.mkeys \in Masters
        /\ wallet.masters \in [DOMAIN wallet.masters -> Master] /\ DOMAIN wallet.masters \subseteq Nat
        /\ GoodDisk(files)
    BY <2>3, DiskIs, MapIs DEF FilesInv, GoodDisk, OpenInv, KeyStore, KeyFile, Masters
  <2>5. /\ handles = 0 /\ c.plain = {} /\ wallet.crypted # <<>>
        /\ Openable(wallet.crypted, wallet.masters)
        /\ wallet.vMasterKey # 0 =>
             \E i \in DOMAIN wallet.masters : wallet.masters[i].master = wallet.vMasterKey
        /\ DOMAIN wallet.masters = DOMAIN c.mkeys
        /\ \A i \in DOMAIN wallet.masters :
             /\ wallet.masters[i].master = c.mkeys[i].master
             /\ "write" \notin keyFaults /\ DOMAIN wallet.masters = {i} =>
                  wallet.masters[i].phrase = c.mkeys[i].phrase
    BY <1>1, <2>3 DEF OpenInv
  <2>6. /\ mk \in Master /\ mk.phrase = new /\ mk.master = wallet.masters[id].master
        /\ id \in Nat
    BY <2>2, <2>4 DEF Master
  <2>7. w = [wallet EXCEPT !.masters = [wallet.masters EXCEPT ![id] = mk]]
    BY <2>4 DEF KeyStore
  <2>8. [wallet.masters EXCEPT ![id] = mk] \in Masters
    <3>1. [wallet.masters EXCEPT ![id] = mk] \in [DOMAIN wallet.masters -> Master]
      BY <2>2, <2>4, <2>6
    <3> QED
      BY <2>4, <3>1 DEF Masters, Maps
  <2>9. /\ w \in KeyStore /\ w.masters = [wallet.masters EXCEPT ![id] = mk]
        /\ w.crypted = wallet.crypted /\ w.fUseCrypto = wallet.fUseCrypto
        /\ w.vMasterKey = wallet.vMasterKey /\ w.plain = wallet.plain
    BY <2>4, <2>7, <2>8 DEF KeyStore
  <2>10. /\ DOMAIN w.masters = DOMAIN wallet.masters
         /\ w.masters[id] = mk
         /\ \A i \in DOMAIN wallet.masters \ {id} : w.masters[i] = wallet.masters[i]
    BY <2>2, <2>4, <2>9
  <2>11. \/ files' = [files EXCEPT !["wallet"] = f] /\ keyFaults' = keyFaults
         \/ files' = files /\ "write" \in keyFaults'
    <3>1. [files EXCEPT !["wallet"].mkeys = Put(@, id, w.masters[id])] = [files EXCEPT !["wallet"] = f]
      <4> HIDE DEF w, mk
      <4> QED
        BY <2>4, <2>10
    <3>2. \/ files' = [files EXCEPT !["wallet"].mkeys = Put(@, id, w.masters[id])]
             /\ keyFaults' = keyFaults
          \/ files' = files /\ "write" \in keyFaults'
      BY <2>1 DEF MayFail
    <3> HIDE DEF f, w
    <3> QED
      BY <3>1, <3>2
  <2>12. wallet' = w \/ wallet' = Unlocked(w, id)
    BY <2>1
  <2>13. /\ wallet' \in KeyStore /\ wallet'.masters = w.masters
         /\ wallet'.crypted = w.crypted /\ wallet'.fUseCrypto
         /\ wallet'.vMasterKey \in {wallet.vMasterKey, mk.master}
    <3> HIDE DEF w, mk
    <3>1. mk.master \in Nat
      BY <2>6 DEF Master
    <3>2. Unlocked(w, id) = [w EXCEPT !.vMasterKey = mk.master]
      BY <2>10 DEF Unlocked
    <3>3. /\ Unlocked(w, id) \in KeyStore /\ Unlocked(w, id).masters = w.masters
          /\ Unlocked(w, id).crypted = w.crypted /\ Unlocked(w, id).fUseCrypto = w.fUseCrypto
          /\ Unlocked(w, id).vMasterKey = mk.master
      BY <2>9, <3>1, <3>2 DEF KeyStore
    <3> QED
      BY <1>1, <2>9, <2>12, <3>3
  <2> HIDE DEF w, mk
  <2>14. /\ f \in KeyFile /\ f.plain = c.plain /\ f.crypted = c.crypted /\ f.slack = c.slack
         /\ f.mkeys = Put(c.mkeys, id, mk)
    <3>1. Put(c.mkeys, id, mk) \in Masters
      BY <2>4, <2>6, MastersPut
    <3> QED
      BY <2>4, <3>1 DEF KeyFile
  <2> HIDE DEF f
  <2>15. /\ DOMAIN f.mkeys = DOMAIN c.mkeys /\ f.mkeys[id] = mk
         /\ \A i \in DOMAIN c.mkeys \ {id} : f.mkeys[i] = c.mkeys[i]
         /\ \A i \in DOMAIN c.mkeys : f.mkeys[i].master = c.mkeys[i].master
    BY <2>2, <2>5, <2>6, <2>14 DEF Put
  <2>16. Openable(wallet'.crypted, wallet'.masters)
    BY <2>5, <2>6, <2>9, <2>10, <2>13 DEF Openable
  <2>17. wallet'.vMasterKey # 0 =>
           \E i \in DOMAIN wallet'.masters : wallet'.masters[i].master = wallet'.vMasterKey
    BY <2>2, <2>5, <2>6, <2>10, <2>13
  <2>18. CASE files' = [files EXCEPT !["wallet"] = f] /\ keyFaults' = keyFaults
    <3> DEFINE e == [files EXCEPT !["wallet"] = f]
    <3>1. e \in [DOMAIN files -> KeyFile]
      BY <2>4, <2>14, DiskIs
    <3>2. Rewritten(files, f, e)
      BY <2>4, <3>1, DiskIs DEF Rewritten, Disk, Maps
    <3> HIDE DEF e
    <3>3. /\ (f.plain = {}) # (f.crypted = <<>>) /\ Openable(f.crypted, f.mkeys)
          /\ Openable(c.crypted, c.mkeys) /\ c.crypted # <<>>
      <4>1. Openable(c.crypted, c.mkeys) /\ c.crypted # <<>>
        BY <2>4, <2>5 DEF GoodDisk
      <4> QED
        BY <2>5, <2>14, <2>15, <4>1 DEF Openable
    <3>4. GoodDisk(e)
      BY <2>4, <2>14, <2>15, <3>2, <3>3, GoodRewritten
    <3>5. Keeps(e, issued)
      BY <2>3, <2>4, <2>14, <3>2, <3>3, UsableIs, KeepsRewritten DEF FilesInv
    <3>6. e["wallet"] = f
      BY <3>2 DEF Rewritten
    <3>7. Phrased(f.mkeys, new)
      BY <2>2, <2>5, <2>6, <2>15 DEF Phrased
    <3>8. files' = e /\ issued' = issued /\ cleaned' = cleaned
      BY <1>1, <2>18 DEF e
    <3>9. FilesInv'
      BY <2>2, <2>3, <2>14, <3>4, <3>5, <3>6, <3>7, <3>8 DEF FilesInv
    <3>10. OpenInv'
      BY <1>1, <2>2, <2>5, <2>6, <2>9, <2>10, <2>13, <2>14, <2>15, <2>16, <2>17, <3>6, <3>8 DEF OpenInv
    <3> QED
      BY <1>1, <2>2, <2>3, <3>9, <3>10 DEF KeysInv
  <2>19. CASE files' = files /\ "write" \in keyFaults'
    <3>1. FilesInv'
      BY <1>1, <2>3, <2>19 DEF FilesInv
    <3>2. OpenInv'
      BY <1>1, <2>2, <2>5, <2>6, <2>9, <2>10, <2>13, <2>16, <2>17, <2>19 DEF OpenInv
    <3> QED
      BY <1>1, <2>2, <2>3, <3>1, <3>2 DEF KeysInv
  <2> QED
    BY <2>11, <2>18, <2>19
<1> QED
  BY <1>1, <1>2, <1>3

\* The file that is loaded has keys of one kind.
LEMMA StartWalletKeeps ==
  ASSUME KeysInv, StartWallet
  PROVE  KeysInv'
<1> SUFFICES ASSUME "unnamed" \notin keyFaults
             PROVE  KeysInv'
  BY Zenon DEF StartWallet, KeysInv
<1> DEFINE c == files["wallet"]
<1>1. /\ process = "stopped" /\ UNCHANGED <<handles, phrase, cleaned, keyFaults>>
  BY Zenon DEF StartWallet
<1>2. FilesInv /\ handles = 0 /\ drawn \in [keys : Nat, masters : Nat] /\ phrase \in Phrases
  BY <1>1 DEF KeysInv
<1>3. /\ files \in Disk /\ "wallet" \in DOMAIN files /\ c \in KeyFile
      /\ (c.plain = {}) # (c.crypted = <<>>) /\ Openable(c.crypted, c.mkeys)
  BY <1>2, DiskIs DEF FilesInv, GoodDisk
<1>4. wallet' = Loaded(c) /\ UNCHANGED <<files, issued, drawn>> /\ process' = "running"
  BY <1>3 DEF StartWallet
<1>5. /\ Loaded(c) \in KeyStore /\ Loaded(c).plain = c.plain /\ Loaded(c).crypted = c.crypted
      /\ Loaded(c).masters = c.mkeys /\ Loaded(c).vMasterKey = 0
      /\ Loaded(c).fUseCrypto <=> c.crypted # <<>>
  BY <1>3 DEF Loaded, KeyStore, KeyFile
<1>6. FilesInv'
  BY <1>1, <1>2, <1>4 DEF FilesInv
<1>7. OpenInv'
  <2>1. CASE c.crypted # <<>>
    BY <1>1, <1>2, <1>3, <1>4, <1>5, <2>1 DEF OpenInv
  <2>2. CASE c.crypted = <<>>
    BY <1>1, <1>2, <1>3, <1>4, <1>5, <2>2 DEF OpenInv
  <2> QED
    BY <2>1, <2>2
<1> QED
  BY <1>1, <1>2, <1>4, <1>6, <1>7 DEF KeysInv

\* The old file is set aside whole, and what is readable has keys of one kind.
LEMMA RecoverKeeps ==
  ASSUME KeysInv, Recover
  PROVE  KeysInv'
<1> DEFINE c == files["wallet"]
           Plain(found) == c.plain \cup found
           AsPlain(found, plainFirst) == Plain(found) # {} /\ (plainFirst \/ c.crypted = <<>>)
           Saved(found, plainFirst) ==
             [plain |-> IF AsPlain(found, plainFirst) THEN Plain(found) ELSE {}, mkeys |-> c.mkeys,
              slack |-> {}, crypted |-> IF AsPlain(found, plainFirst) THEN <<>> ELSE c.crypted]
<1>1. /\ process = "stopped" /\ "wallet" \in DOMAIN files /\ "bak" \notin DOMAIN files
      /\ UNCHANGED <<wallet, handles, issued, drawn, phrase, cleaned, process, keyFaults>>
      /\ \E found \in SUBSET c.slack, plainFirst \in BOOLEAN :
           files' = Put(Put(files, "bak", c), "wallet", Saved(found, plainFirst))
  BY Zenon DEF Recover
<1>2. PICK found \in SUBSET c.slack, plainFirst \in BOOLEAN :
        files' = Put(Put(files, "bak", c), "wallet", Saved(found, plainFirst))
  BY <1>1
<1> SUFFICES ASSUME "unnamed" \notin keyFaults
             PROVE  FilesInv'
  BY <1>1 DEF KeysInv
<1>3. /\ FilesInv /\ files \in Disk /\ c \in KeyFile
      /\ (c.plain = {}) # (c.crypted = <<>>) /\ Openable(c.crypted, c.mkeys)
  BY <1>1, DiskIs DEF KeysInv, FilesInv, GoodDisk
<1> DEFINE s == Saved(found, plainFirst)
           aside == Put(files, "bak", c)
<1>4. /\ s.mkeys = c.mkeys /\ s.slack = {}
      /\ \/ s.plain = c.plain \cup found /\ s.plain # {} /\ s.crypted = <<>>
         \/ s.plain = {} /\ s.crypted = c.crypted /\ c.crypted # <<>>
  BY <1>3
<1>5. s \in KeyFile
  <2>1. <<>> \in Maps(Nat, Nat)
    BY MapEmpty
  <2>2. /\ c.plain \in SUBSET Nat /\ c.slack \in SUBSET Nat /\ c.crypted \in Maps(Nat, Nat)
        /\ c.mkeys \in Masters
    BY <1>3 DEF KeyFile
  <2>3. Plain(found) \in SUBSET Nat
    BY <2>2
  <2> HIDE DEF Plain, AsPlain
  <2> QED
    BY <2>1, <2>2, <2>3 DEF KeyFile
<1> HIDE DEF s
<1>6. files' = Put(aside, "wallet", s)
  BY <1>2 DEF s
<1>7. aside \in Disk
  BY <1>3, MapPut DEF Disk
<1>8. /\ DOMAIN aside = DOMAIN files \cup {"bak"} /\ aside["bak"] = c
      /\ \A f \in DOMAIN files : aside[f] = files[f]
  BY <1>1 DEF Put
<1> HIDE DEF aside
<1>9. /\ files' \in Disk /\ DOMAIN files' = DOMAIN files \cup {"bak"}
      /\ files'["wallet"] = s /\ files'["bak"] = c
      /\ "rewrite" \in DOMAIN files => files'["rewrite"] = files["rewrite"]
  <2>1. Put(aside, "wallet", s) \in Disk
    BY <1>5, <1>7, MapPut DEF Disk
  <2> QED
    BY <1>1, <1>6, <1>8, <2>1 DEF Put
<1> HIDE DEF c
<1>10. Openable(s.crypted, s.mkeys)
  BY <1>3, <1>4, MapEmpty DEF Openable
<1>11. GoodDisk(files')
  <2>1. "rewrite" \in DOMAIN files' =>
          /\ files'["rewrite"].plain = {} /\ files'["rewrite"].slack = {}
          /\ Openable(files'["rewrite"].crypted, files'["rewrite"].mkeys)
          /\ DOMAIN files'["rewrite"].mkeys = {1} /\ DOMAIN s.mkeys = {1}
          /\ files'["rewrite"].mkeys[1].master = s.mkeys[1].master
    BY <1>1, <1>3, <1>4, <1>9 DEF FilesInv, GoodDisk, c
  <2>2. \A f \in DOMAIN files' \cap {"wallet", "rewrite"} :
          Openable(files'[f].crypted, files'[f].mkeys)
    BY <1>9, <1>10, <2>1
  <2>3. (s.plain = {}) # (s.crypted = <<>>)
    BY <1>4
  <2> QED
    BY <1>1, <1>9, <2>1, <2>2, <2>3 DEF GoodDisk
<1>12. Keeps(files', issued)
  <2> SUFFICES ASSUME NEW key \in issued
               PROVE  \E f \in DOMAIN files' \ {"rewrite"} : Usable(files'[f], key)
    BY DEF Keeps
  <2>1. PICK f \in DOMAIN files \ {"rewrite"} : Usable(files[f], key)
    BY <1>3 DEF FilesInv, Keeps
  <2>2. f = "wallet"
    BY <1>1, <1>3, <2>1, DiskIs
  <2>3. Usable(files'["bak"], key)
    BY <1>9, <2>1, <2>2 DEF c
  <2> QED
    BY <1>9, <2>3
<1>13. "write" \notin keyFaults /\ s.crypted # <<>> => Phrased(s.mkeys, phrase)
  BY <1>3, <1>4 DEF FilesInv, c
<1>14. cleaned => s.plain = {} /\ s.slack = {}
  BY <1>2, <1>3, <1>4 DEF FilesInv, c
<1> QED
  BY <1>1, <1>9, <1>11, <1>12, <1>13, <1>14 DEF FilesInv

----------------------------------------------------------------------------

LEMMA KeysStart == WalletKeysInit => KeysInv
<1> SUFFICES ASSUME WalletKeysInit
             PROVE  KeysInv
  OBVIOUS
<1> DEFINE c == files["wallet"]
<1>1. /\ files = [f \in {"wallet"} |-> [EmptyFile EXCEPT !.plain = {1}]]
      /\ wallet = Loaded(c) /\ handles = 0 /\ issued = {1}
      /\ drawn = [keys |-> 1, masters |-> 0] /\ cleaned = FALSE /\ process = "running"
  BY DEF WalletKeysInit
<1>2. c = [plain |-> {1}, crypted |-> <<>>, mkeys |-> <<>>, slack |-> {}]
  BY <1>1 DEF EmptyFile
<1>3. <<>> \in Maps(Nat, Nat) /\ <<>> \in Masters /\ DOMAIN <<>> = {}
  BY MapEmpty, FS_EmptySet DEF Masters
<1>4. c \in KeyFile
  BY <1>2, <1>3 DEF KeyFile
<1>5. files \in Disk /\ DOMAIN files = {"wallet"}
  BY <1>1, <1>4 DEF Disk, Maps
<1>6. wallet = [plain |-> {1}, crypted |-> <<>>, masters |-> <<>>, fUseCrypto |-> FALSE,
                vMasterKey |-> 0]
  BY <1>1, <1>2 DEF Loaded
<1>7. wallet \in KeyStore
  BY <1>3, <1>6 DEF KeyStore
<1>8. phrase \in Phrases
  BY WalletKeysAssumption DEF WalletKeysInit
<1> HIDE DEF c
<1>9. GoodDisk(files)
  BY <1>2, <1>3, <1>5 DEF GoodDisk, Openable, c
<1>10. Keeps(files, issued)
  BY <1>1, <1>2, <1>5 DEF Keeps, Usable, c
<1>11. FilesInv
  BY <1>1, <1>2, <1>9, <1>10 DEF FilesInv, c
<1>12. OpenInv
  BY <1>2, <1>3, <1>6, <1>7 DEF OpenInv, c
<1> QED
  BY <1>1, <1>8, <1>11, <1>12 DEF KeysInv

LEMMA KeysStep == KeysInv /\ [WalletKeysNext]_keyStoreVars => KeysInv'
<1> SUFFICES ASSUME KeysInv, [WalletKeysNext]_keyStoreVars
             PROVE  KeysInv'
  OBVIOUS
<1>1. CASE UNCHANGED keyStoreVars
  BY <1>1 DEF keyStoreVars, KeysInv, FilesInv, OpenInv
<1>2. CASE WalletKeysNext
  BY <1>2, GenerateNewKeyKeeps, LockKeeps, ExitKeeps, StartWalletKeeps, RecoverKeeps,
     EncryptWalletKeeps, UnlockKeeps, ChangeWalletPassphraseKeeps DEF WalletKeysNext
<1> QED
  BY <1>1, <1>2

\* A lone master key is under the passphrase, and it is the one of the first key.
LEMMA KeysInvSurvive == KeysInv => KeysSurvive
<1> SUFFICES ASSUME KeysInv, "unnamed" \notin keyFaults
             PROVE  /\ \A key \in issued : \E f \in DOMAIN files \ {"rewrite"} : Usable(files[f], key)
                    /\ process = "running" /\ wallet.fUseCrypto /\ "write" \notin keyFaults =>
                         (Cardinality(DOMAIN wallet.masters) = 1 => Surely(wallet, phrase) # {})
  BY DEF KeysSurvive
<1>1. FilesInv
  BY DEF KeysInv
<1>2. \A key \in issued : \E f \in DOMAIN files \ {"rewrite"} : Usable(files[f], key)
  BY <1>1 DEF FilesInv, Keeps
<1>3. ASSUME process = "running", wallet.fUseCrypto, "write" \notin keyFaults,
             Cardinality(DOMAIN wallet.masters) = 1
      PROVE  Surely(wallet, phrase) # {}
  <2>1. OpenInv /\ wallet \in KeyStore /\ wallet.masters \in Masters
    BY <1>3 DEF KeysInv, OpenInv, KeyStore
  <2>2. PICK id \in DOMAIN wallet.masters : DOMAIN wallet.masters = {id}
    BY <1>3, <2>1, NextNumber
  <2>3. files["wallet"].plain = {} /\ files["wallet"].crypted # <<>> /\ wallet.crypted # <<>>
    BY <1>1, <1>3, <2>1 DEF OpenInv, FilesInv, GoodDisk
  <2>4. Phrased(files["wallet"].mkeys, phrase)
    BY <1>1, <1>3, <2>3 DEF FilesInv
  <2>5. wallet.masters[id].phrase = phrase
    BY <1>3, <2>1, <2>2, <2>4 DEF OpenInv, Phrased
  <2>6. wallet.masters[id].master = wallet.crypted[First(wallet)]
    BY <1>3, <2>1, <2>2, <2>3, FirstKey DEF OpenInv, Openable
  <2>7. id \in Surely(wallet, phrase)
    BY <2>2, <2>5, <2>6 DEF Surely, Opens
  <2> QED
    BY <2>7
<1> QED
  BY <1>2, <1>3

LEMMA KeysInvGone == KeysInv => PlainKeysAreGone
BY DEF KeysInv, FilesInv, PlainKeysAreGone

LEMMA KeysInvariance == WalletKeysInit /\ [][WalletKeysNext]_keyStoreVars => []KeysInv
<1>1. KeysInv /\ [WalletKeysNext]_keyStoreVars => KeysInv'
  BY KeysStep
<1> QED
  BY <1>1, KeysStart, PTL

----------------------------------------------------------------------------
(* All threads together.                                                   *)

LEMMA ThreadsAreComponents ==
  ThreadsSpec => /\ PeerInit /\ [][PeerNext]_peerVars
                 /\ MinerInit /\ [][MinerNext]_minerVars
                 /\ DbEnvInit /\ [][DbEnvNext]_dbVars
                 /\ WalletKeysInit /\ [][WalletKeysNext]_keyStoreVars
<1>1. ThreadsInit => PeerInit /\ MinerInit /\ DbEnvInit /\ WalletKeysInit
  BY DEF ThreadsInit
<1>2. [ThreadsNext]_threadVars => /\ [PeerNext]_peerVars /\ [MinerNext]_minerVars
                                  /\ [DbEnvNext]_dbVars /\ [WalletKeysNext]_keyStoreVars
  BY DEF ThreadsNext, threadVars
<1>3. ThreadsSpec => ThreadsInit /\ [][ThreadsNext]_threadVars
  BY PTL DEF ThreadsSpec
<1> QED
  BY <1>1, <1>2, <1>3, PTL

\* NotUsedAfterDelete (ThreadSocketHandler, ThreadMessageHandler and the openers of
\* net.cpp): the counted references and the release time keep every node a thread
\* points to, for any number of nodes and openers.
THEOREM NodesOutliveTheirUse == ThreadsSpec => []NotUsedAfterDelete
BY ThreadsAreComponents, PeersInvariance, PeersKeepNodes, PTL

\* PaidOnce (BitcoinMiner, CheckWork and CReserveKey): whatever the number of miner
\* threads, and whether or not the blocks they find are stale or refused, no key of a
\* pool that was not drained is paid by two blocks.
THEOREM KeysArePaidOnce == ThreadsSpec => []PaidOnce
BY ThreadsAreComponents, MinersInvariance, MinersPayOnce, PTL

\* NotUsedAfterClose (CDB, CDBEnv and ThreadFlushWalletDB): the counts of uses keep
\* the flush thread, backups, rewrites and Shutdown from closing a file that a thread
\* has open.
THEOREM DatabasesOutliveTheirUse == ThreadsSpec => []NotUsedAfterClose
BY ThreadsAreComponents, DbInvariance, DbInvImplies, PTL

\* FilesAreWhole: a wallet that was flushed when its last update was counted, a
\* backup, and every file after Shutdown have all that was committed.
THEOREM FilesStayWhole == ThreadsSpec => []FilesAreWhole
BY ThreadsAreComponents, DbInvariance, DbInvImplies, PTL

\* KeysSurvive (EncryptWallet, Rewrite, Recover and the operations between them):
\* however often the wallet is encrypted, salvaged, or stopped by a crash between
\* two writes, but for the moment Rewrite has no file under the name, no key that
\* somebody was given is lost, and the passphrase opens a lone master key.
THEOREM KeysOutliveCrashes == ThreadsSpec => []KeysSurvive
BY ThreadsAreComponents, KeysInvariance, KeysInvSurvive, PTL

\* PlainKeysAreGone (Rewrite after EncryptWallet): no start, salvage or new key
\* brings a plain key back into the file, nor into its slack space.
THEOREM PlainKeysStayGone == ThreadsSpec => []PlainKeysAreGone
BY ThreadsAreComponents, KeysInvariance, KeysInvGone, PTL
=============================================================================
