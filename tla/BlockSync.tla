----------------------------- MODULE BlockSync -----------------------------
(***************************************************************************)
(* Block download: the inv, getdata, getblocks and block messages of       *)
(* main.cpp between a node that is behind and one of its peers.            *)
(*                                                                         *)
(* The peer's main chain is 0..peerTip, a block is its height.  The node   *)
(* starts on a stale branch that left that chain at Fork; the block of the *)
(* branch at height h is -h.  The connection loses and reorders nothing.   *)
(***************************************************************************)
EXTENDS Integers, Sequences, FiniteSets, SequencesExt

CONSTANTS
  MaxHeight,  \* bound on the peer's chain
  Fork,       \* last block the node shares with it
  Stale,      \* length of the node's own branch above Fork
  Batch       \* nLimit of getblocks, 500 in the code

ASSUME SyncAssumption ==
  /\ {MaxHeight, Fork, Stale} \subseteq Nat /\ Fork + Stale < MaxHeight
  /\ Batch \in Nat \ {0}

VARIABLES
  index,         \* the node's mapBlockIndex
  orphans,       \* its mapOrphanBlocks
  tip,           \* its pindexBest
  mapAskFor,     \* blocks it will request, in the order of their times
  lastGetBlocks, \* pindexLastGetBlocksBegin and hashLastGetBlocksEnd
  peerTip,       \* the peer's pindexBest
  setInventoryKnown, vInventoryToSend, hashContinue, \* what the peer keeps of the node
  toPeer, toNode \* messages under way

syncVars == <<index, orphans, tip, mapAskFor, lastGetBlocks, peerTip,
              setInventoryKnown, vInventoryToSend, hashContinue, toPeer, toNode>>

NoBlock == MaxHeight + 1  \* the zero hash

Height(b) == IF b < 0 THEN -b ELSE b
PrevBlock(b) == IF b = -(Fork + 1) THEN Fork ELSE IF b < 0 THEN b + 1 ELSE b - 1
StaleBranch == {-h : h \in (Fork + 1)..(Fork + Stale)}

GetBlocks(begin, end) == [type |-> "getblocks", begin |-> begin, end |-> end]
GetData(inv) == [type |-> "getdata", inv |-> inv]
Inv(inv) == [type |-> "inv", inv |-> inv]
Block(b) == [type |-> "block", block |-> b]

\* The node received the peer's version message: it asks for blocks if this is
\* the first node it asks, and not otherwise.
SyncInit ==
  /\ index = (0..Fork) \cup StaleBranch
  /\ orphans = {}
  /\ tip = IF Stale = 0 THEN Fork ELSE -(Fork + Stale)
  /\ mapAskFor = <<>>
  /\ lastGetBlocks \in {<<tip, NoBlock>>, <<NoBlock, NoBlock>>}
  /\ peerTip = MaxHeight - 1
  /\ setInventoryKnown = {} /\ vInventoryToSend = <<>> /\ hashContinue = NoBlock
  /\ toPeer = IF lastGetBlocks[1] = tip THEN <<GetBlocks(tip, NoBlock)>> ELSE <<>>
  /\ toNode = <<>>

----------------------------------------------------------------------------
(* The node.  A handler works on the record node of what it may change.    *)

Node == [index |-> index, orphans |-> orphans, tip |-> tip, ask |-> mapAskFor,
         last |-> lastGetBlocks, out |-> toPeer]

BecomesNode(node) ==
  /\ index' = node.index /\ orphans' = node.orphans /\ tip' = node.tip
  /\ mapAskFor' = node.ask /\ lastGetBlocks' = node.last /\ toPeer' = node.out

\* A request equal to the last one is dropped.
PushGetBlocks(node, begin, end) ==
  IF node.last = <<begin, end>> THEN node
  ELSE [node EXCEPT !.last = <<begin, end>>, !.out = Append(@, GetBlocks(begin, end))]

GetOrphanRoot(node, b) ==
  CHOOSE r \in node.orphans :
    /\ PrevBlock(r) \notin node.orphans
    /\ r <= b /\ r..b \subseteq node.orphans

\* inv: unknown blocks are queued for a request; a held orphan asks for what is
\* missing below it; a known last block asks for the blocks after it.
GotInv(node, inv, i) ==
  LET b == inv[i] IN
  IF b \notin node.index \cup node.orphans THEN [node EXCEPT !.ask = Append(@, b)]
  ELSE IF b \in node.orphans THEN PushGetBlocks(node, node.tip, GetOrphanRoot(node, b))
  ELSE IF i = Len(inv) THEN PushGetBlocks(node, b, NoBlock)
  ELSE node

NodeGetsInv ==
  /\ toNode # <<>> /\ Head(toNode).type = "inv"
  /\ LET inv == Head(toNode).inv IN
     BecomesNode(FoldLeftDomain(LAMBDA node, i : GotInv(node, inv, i), Node, inv))
  /\ toNode' = Tail(toNode)
  /\ UNCHANGED <<peerTip, setInventoryKnown, vInventoryToSend, hashContinue>>

\* The block and the run of held orphans above it.
Connectable(node, b) ==
  CHOOSE s \in {b..h : h \in b..MaxHeight} :
    /\ s \ {b} \subseteq node.orphans
    /\ b + Cardinality(s) \notin node.orphans

Accept(node, b) ==
  LET new  == Connectable(node, b)
      last == b + Cardinality(new) - 1 IN
  [node EXCEPT !.index = @ \cup new, !.orphans = @ \ new,
               !.tip = IF Height(last) > Height(@) THEN last ELSE @]

HoldOrphan(node, b) ==
  LET held == [node EXCEPT !.orphans = @ \cup {b}]
  IN  PushGetBlocks(held, node.tip, GetOrphanRoot(held, b))

\* block: ProcessBlock, with blocks of equal work.
NodeGetsBlock ==
  /\ toNode # <<>> /\ Head(toNode).type = "block"
  /\ LET b == Head(toNode).block IN
     BecomesNode(IF b \in index \cup orphans THEN Node
                 ELSE IF PrevBlock(b) \in index THEN Accept(Node, b)
                 ELSE HoldOrphan(Node, b))
  /\ toNode' = Tail(toNode)
  /\ UNCHANGED <<peerTip, setInventoryKnown, vInventoryToSend, hashContinue>>

\* SendMessages requests the entries whose time has come, in the order of their
\* times, and drops those it has got meanwhile.  Times are left out: any first
\* part of the queue may be due.
NodeSendsGetData ==
  \E n \in 1..Len(mapAskFor) :
    LET wanted == SelectSeq(SubSeq(mapAskFor, 1, n),
                            LAMBDA b : b \notin index \cup orphans) IN
    /\ mapAskFor' = SubSeq(mapAskFor, n + 1, Len(mapAskFor))
    /\ toPeer' = IF wanted = <<>> THEN toPeer ELSE Append(toPeer, GetData(wanted))
    /\ UNCHANGED <<index, orphans, tip, lastGetBlocks, peerTip,
                   setInventoryKnown, vInventoryToSend, hashContinue, toNode>>

----------------------------------------------------------------------------
(* The peer. *)

\* The part of the chain that answers getblocks: from the block after the last
\* one the locator shares, up to the requested end or the limit.
LastShared(begin) == IF begin < 0 THEN Fork ELSE begin

BlocksAfter(begin, end) ==
  LET first == LastShared(begin) + 1
      stop  == IF end \in first..peerTip THEN end - 1 ELSE peerTip
      last  == IF first + Batch - 1 < stop THEN first + Batch - 1 ELSE stop
  IN  [i \in 1..(last - first + 1) |-> first + i - 1]

PushInventory(blocks) ==
  vInventoryToSend' = vInventoryToSend
                      \o SelectSeq(blocks, LAMBDA b : b \notin setInventoryKnown)

\* Mutant: a full batch leaves no mark.
ContinueNever(blocks) == hashContinue

\* The last of a full batch, even if it is not the node's to hear of again.
ContinueAfter(blocks) ==
  IF Len(blocks) = Batch THEN blocks[Batch] ELSE hashContinue

PeerGetsGetBlocks ==
  /\ toPeer # <<>> /\ Head(toPeer).type = "getblocks"
  /\ LET blocks == BlocksAfter(Head(toPeer).begin, Head(toPeer).end) IN
     /\ PushInventory(blocks)
     /\ hashContinue' = ContinueAfter(blocks)
  /\ toPeer' = Tail(toPeer)
  /\ UNCHANGED <<index, orphans, tip, mapAskFor, lastGetBlocks, peerTip,
                 setInventoryKnown, toNode>>

\* getdata: the blocks, and after the last of a batch the peer's tip, which
\* makes the node ask for the next batch.
PeerGetsGetData ==
  /\ toPeer # <<>> /\ Head(toPeer).type = "getdata"
  /\ LET inv == Head(toPeer).inv
         answer(i) == IF inv[i] = hashContinue /\ i = Min({j \in DOMAIN inv : inv[j] = inv[i]})
                      THEN <<Block(inv[i]), Inv(<<peerTip>>)>>
                      ELSE <<Block(inv[i])>>
     IN  /\ toNode' = toNode \o FlattenSeq([i \in DOMAIN inv |-> answer(i)])
         /\ hashContinue' = IF hashContinue \in Range(inv) THEN NoBlock ELSE hashContinue
  /\ toPeer' = Tail(toPeer)
  /\ UNCHANGED <<index, orphans, tip, mapAskFor, lastGetBlocks, peerTip,
                 setInventoryKnown, vInventoryToSend>>

\* SendMessages announces what the node is not known to have.
PeerSendsInv ==
  /\ vInventoryToSend # <<>>
  /\ LET news == SelectSeq(vInventoryToSend, LAMBDA b : b \notin setInventoryKnown) IN
     /\ toNode' = IF news = <<>> THEN toNode ELSE Append(toNode, Inv(news))
     /\ setInventoryKnown' = setInventoryKnown \cup Range(news)
  /\ vInventoryToSend' = <<>>
  /\ UNCHANGED <<index, orphans, tip, mapAskFor, lastGetBlocks, peerTip,
                 hashContinue, toPeer>>

\* AcceptBlock relays a new tip to the nodes that are not too far behind.
PeerMines ==
  /\ peerTip < MaxHeight
  /\ peerTip' = peerTip + 1
  /\ PushInventory(<<peerTip + 1>>)
  /\ UNCHANGED <<index, orphans, tip, mapAskFor, lastGetBlocks,
                 setInventoryKnown, hashContinue, toPeer, toNode>>

NodeStep == NodeGetsInv \/ NodeGetsBlock
PeerStep == PeerGetsGetBlocks \/ PeerGetsGetData

SyncNext == NodeStep \/ NodeSendsGetData \/ PeerStep \/ PeerSendsInv \/ PeerMines

SyncFairness ==
  /\ WF_syncVars(NodeStep) /\ WF_syncVars(NodeSendsGetData)
  /\ WF_syncVars(PeerStep) /\ WF_syncVars(PeerSendsInv)
  /\ WF_syncVars(PeerMines)

SyncSpec == SyncInit /\ [][SyncNext]_syncVars /\ SyncFairness

----------------------------------------------------------------------------

\* Whether or not the node asked at first, once the peer has found a block
\* the node gets the peer's whole chain, batch after batch.
DownloadCompletes == <>(tip = MaxHeight)
=============================================================================
