-------------------------- MODULE BlockProcessing --------------------------
(***************************************************************************)
(* ProcessBlock of main.cpp and its orphan blocks, on top of Chain.        *)
(*                                                                         *)
(* A block that arrives before its predecessor is held.  When a block is   *)
(* accepted, those that waited for it are accepted next, and so on.  All   *)
(* of it happens with cs_main held, one call of AcceptBlock after the      *)
(* other, and each call runs the steps of Chain to their end.              *)
(***************************************************************************)
EXTENDS ChainReference

CONSTANTS
  Rejected,    \* blocks AcceptBlock refuses before it indexes them: wrong
               \* nBits, timestamp, checkpoint or version for their place
  Checkpoints, \* the blocks of mapCheckpoints
  Doubtful     \* for each, the blocks with an earlier time than it has, or
               \* with less work than ComputeMinWork asks for after it

ASSUME RejectedAssumption ==
  /\ Rejected \subseteq Block \ {Genesis}
  /\ Checkpoints \subseteq Block
  /\ Doubtful \in [Checkpoints -> SUBSET Block]

VARIABLES
  mapOrphanBlocks,        \* the blocks held
  mapOrphanBlocksByPrev,  \* by their hashPrevBlock
  pblock,                 \* the block AcceptBlock runs for, or NULL
  vWorkQueue,             \* accepted blocks whose orphans are to be accepted
  vByPrev                 \* the orphans of its head not yet tried

held == <<mapOrphanBlocks, mapOrphanBlocksByPrev>>

queue == <<vWorkQueue, vByPrev>>

processVars == <<held, pblock, queue>>

ProcessInit ==
  /\ Init
  /\ mapOrphanBlocks = {}
  /\ mapOrphanBlocksByPrev = [b \in Block |-> {}]
  /\ pblock = NULL
  /\ vWorkQueue = <<>> /\ vByPrev = {}

\* cs_main is free.
Quiet == nPhase = "idle" /\ pblock = NULL /\ vWorkQueue = <<>>

----------------------------------------------------------------------------

\* The extra checks of ProcessBlock: a block that is not on top of the tip is
\* refused if it is doubtful for the highest checkpoint that is indexed.
Refused(b) ==
  /\ hashPrevBlock[b] # pindexBest
  /\ \E c \in Checkpoints \cap mapBlockIndex :
       /\ \A d \in Checkpoints \cap mapBlockIndex : nHeight[d] <= nHeight[c]
       /\ b \in Doubtful[c]

\* A block whose predecessor is not indexed is held, as long as a peer sent it.
HoldOrphan(b) ==
  /\ Quiet
  /\ ~ Refused(b)
  /\ b \notin mapBlockIndex \cup mapOrphanBlocks
  /\ hashPrevBlock[b] \notin mapBlockIndex
  /\ mapOrphanBlocks' = mapOrphanBlocks \cup {b}
  /\ mapOrphanBlocksByPrev' =
       [mapOrphanBlocksByPrev EXCEPT ![hashPrevBlock[b]] = @ \cup {b}]
  /\ UNCHANGED <<vars, pblock, queue>>

\* Any other new block is accepted at once.
ProcessBlock(b) ==
  /\ Quiet
  /\ ~ Refused(b)
  /\ b \notin mapOrphanBlocks \cup Rejected
  /\ AcceptBlock(b) \/ RecordIsLost(b)
  /\ pblock' = b
  /\ UNCHANGED <<held, queue>>

\* AcceptBlock fails after it has put the block into the index of memory.
ProcessBlockFails(b) ==
  /\ Quiet
  /\ ~ Refused(b)
  /\ b \notin mapOrphanBlocks \cup Rejected
  /\ AddToBlockIndexFails(b)
  /\ UNCHANGED processVars

\* Mutant: only a block that became the tip has its orphans accepted.
AcceptBlockReturnsTip ==
  /\ pblock # NULL
  /\ nPhase = "idle"
  /\ pblock' = NULL
  /\ mapOrphanBlocks' = mapOrphanBlocks \ {pblock}
  /\ IF pblock = pindexBest
     THEN /\ vWorkQueue' = Append(vWorkQueue, pblock)
          /\ vByPrev' = IF vWorkQueue = <<>> THEN mapOrphanBlocksByPrev[pblock]
                        ELSE vByPrev
     ELSE UNCHANGED queue
  /\ UNCHANGED <<vars, mapOrphanBlocksByPrev>>

\* AcceptBlock returns true unless SetBestChain gave the block up.
AcceptBlockReturns ==
  /\ pblock # NULL
  /\ nPhase = "idle"
  /\ pblock' = NULL
  /\ mapOrphanBlocks' = mapOrphanBlocks \ {pblock}
  /\ IF bnChainWork[pblock] <= bnBestChainWork
     THEN /\ vWorkQueue' = Append(vWorkQueue, pblock)
          /\ vByPrev' = IF vWorkQueue = <<>> THEN mapOrphanBlocksByPrev[pblock]
                        ELSE vByPrev
     ELSE UNCHANGED queue
  /\ UNCHANGED <<vars, mapOrphanBlocksByPrev>>

\* AcceptBlock is called for an orphan of the head of the work queue.
AcceptOrphan(o) ==
  /\ pblock = NULL
  /\ o \in vByPrev \ Rejected
  /\ vByPrev' = vByPrev \ {o}
  /\ AcceptBlock(o) \/ RecordIsLost(o)
  /\ pblock' = o
  /\ UNCHANGED <<held, vWorkQueue>>

\* It fails for an orphan that it has put into the index of memory.
AcceptOrphanFails(o) ==
  /\ pblock = NULL
  /\ o \in vByPrev \ Rejected
  /\ vByPrev' = vByPrev \ {o}
  /\ AddToBlockIndexFails(o)
  /\ mapOrphanBlocks' = mapOrphanBlocks \ {o}
  /\ UNCHANGED <<mapOrphanBlocksByPrev, pblock, vWorkQueue>>

\* It refuses the orphan before it is indexed, or cannot write it to disk: the
\* orphan is dropped.
DropOrphan(o) ==
  /\ pblock = NULL
  /\ o \in vByPrev
  /\ vByPrev' = vByPrev \ {o}
  /\ mapOrphanBlocks' = mapOrphanBlocks \ {o}
  /\ \/ o \in Rejected /\ UNCHANGED nFaults
     \/ Fault
  /\ UNCHANGED <<memory, db, nPhase, locals, nCrashes, fSecondaryFailed,
                 mapOrphanBlocksByPrev, pblock, vWorkQueue>>

\* All orphans of the head have been tried.
NextInQueue ==
  /\ pblock = NULL
  /\ vWorkQueue # <<>>
  /\ vByPrev = {}
  /\ mapOrphanBlocksByPrev' = [mapOrphanBlocksByPrev EXCEPT ![Head(vWorkQueue)] = {}]
  /\ vWorkQueue' = Tail(vWorkQueue)
  /\ vByPrev' = IF Len(vWorkQueue) > 1 THEN mapOrphanBlocksByPrev[vWorkQueue[2]] ELSE {}
  /\ UNCHANGED <<vars, mapOrphanBlocks, pblock>>

\* AcceptBlock's own steps, and those of a start-up.
ChainStep ==
  /\ Step \/ ExtendFault \/ ReorganizeFault \/ SecondaryFault
  /\ UNCHANGED processVars

\* Orphan blocks are not stored.
ProcessCrash ==
  /\ Crash \/ CrashWithHole
  /\ mapOrphanBlocks' = {}
  /\ mapOrphanBlocksByPrev' = [b \in Block |-> {}]
  /\ pblock' = NULL
  /\ vWorkQueue' = <<>> /\ vByPrev' = {}

ProcessStep ==
  \/ ChainStep
  \/ AcceptBlockReturns
  \/ \E o \in Block : AcceptOrphan(o) \/ AcceptOrphanFails(o) \/ DropOrphan(o)
  \/ NextInQueue

ProcessNext ==
  \/ \E b \in Block : HoldOrphan(b) \/ ProcessBlock(b) \/ ProcessBlockFails(b)
  \/ ProcessStep
  \/ ProcessCrash

processAll == <<vars, processVars>>

ProcessSpec == ProcessInit /\ [][ProcessNext]_processAll

----------------------------------------------------------------------------

\* Whatever the order blocks arrived in, no valid branch all of whose blocks
\* the node has, held or indexed, has more work than the tip.
TipIsHeaviestReceived ==
  Quiet /\ nCrashes = 0 /\ nFaults = 0 =>
    \A b \in ValidBranches :
      Ancestors[b] \subseteq mapBlockIndex \cup mapOrphanBlocks =>
        BranchWork[b] <= BranchWork[pindexBest]
=============================================================================
