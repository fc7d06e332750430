---------------------------- MODULE BlockProofs ----------------------------
(***************************************************************************)
(* Theorems about what stands on the chain.  FindBlockByHeight returns the *)
(* block of the main chain at that height: forgetting the block found last *)
(* when the tip changes is what keeps it on that chain.  ProcessBlock      *)
(* makes the order in which blocks arrive not matter for the tip.          *)
(* CreateNewBlock fills a block that stays within its limits, has parents  *)
(* before children and leaves nothing out without a reason.  The checks of *)
(* blocks bind them: amounts do not wrap around, a Merkle root determines  *)
(* the transactions of a block and a branch proves one of them.            *)
(***************************************************************************)
EXTENDS BlockByHeight, BlockProcessing, BlockTemplate, BlockChecks, ChainProofs

----------------------------------------------------------------------------
(* The search by height.  Walking.                                         *)

\* Every block of a branch below its end has its successor there.
LEMMA SuccessorExists ==
  ASSUME NEW best \in Block, NEW b \in Ancestors[best], Height(b) < Height(best)
  PROVE  \E c \in Ancestors[best] : hashPrevBlock[c] = b /\ Height(c) = Height(b) + 1
<1> DEFINE m == Height(best) - Height(b) - 1
           c == Back(best, m)
<1>1. b \in Block /\ Height(b) \in Nat /\ Height(best) \in Nat
  BY AncestorsType, HeightStep
<1>2. m \in Nat /\ m <= Height(best)
  BY <1>1
<1>3. c \in Ancestors[best] /\ Height(c) = Height(b) + 1
  BY <1>1, <1>2, BackIs
<1> HIDE DEF c
<1>4. c \in Block \ {Genesis}
  BY <1>1, <1>3, AncestorsType, HeightStep
<1>5. hashPrevBlock[c] \in Ancestors[best] /\ Height(hashPrevBlock[c]) = Height(b)
  <2>1. hashPrevBlock[c] \in Block /\ hashPrevBlock[c] \in Ancestors[c]
    BY <1>4, AncestorsStep
  <2>2. Height(c) = Height(hashPrevBlock[c]) + 1 /\ Height(hashPrevBlock[c]) \in Nat
    BY <1>4, <2>1, HeightStep
  <2>3. Ancestors[c] \subseteq Ancestors[best]
    BY <1>3, BranchIsLine
  <2> QED
    BY <1>1, <1>3, <2>1, <2>2, <2>3
<1>6. hashPrevBlock[c] = b
  BY <1>5, BranchIsLine
<1> QED
  BY <1>3, <1>6

\* The forward walk follows the main chain up to its tip.
LEMMA ForwardIs ==
  ASSUME NEW best \in Block, pnext \in [mapBlockIndex -> Pointer],
         Ancestors[best] \subseteq mapBlockIndex, OneChain(pnext, best),
         NEW b \in Ancestors[best],
         NEW m \in Nat, m <= Height(best) - Height(b)
  PROVE  Forward(b, m) \in Ancestors[best] /\ Height(Forward(b, m)) = Height(b) + m
<1> DEFINE D == 0..m
           p == [i \in D |-> i - 1]
           A == Ancestors[best] \cup {NULL}
           G == [i \in D |-> [v \in A |-> IF v = NULL \/ v = best THEN NULL ELSE pnext[v]]]
           next == CHOOSE f : f = [k \in 0..m |-> IF k = 0 THEN b
                                     ELSE IF f[k - 1] = NULL THEN NULL
                                     ELSE pnext[f[k - 1]]]
<1>1. /\ b \in Block /\ Height(b) \in Nat /\ Height(best) \in Nat
      /\ NULL \notin Block
      /\ \A x \in Ancestors[best] : x \in Block /\ Height(x) \in Nat
  BY AncestorsType, HeightStep, BlockAssumption
<1>2. ASSUME NEW x \in Ancestors[best], Height(x) < Height(best)
      PROVE  pnext[x] \in Ancestors[best] /\ Height(pnext[x]) = Height(x) + 1
  <2>1. PICK c \in Ancestors[best] : hashPrevBlock[c] = x /\ Height(c) = Height(x) + 1
    BY <1>2, SuccessorExists
  <2>2. pnext[x] = c
    BY <2>1 DEF OneChain
  <2> QED
    BY <2>1, <2>2
<1>3. ASSUME NEW x \in Ancestors[best], x # best PROVE Height(x) < Height(best)
  BY <1>3, BranchIsLine
<1>4. IsRule(G, D, A)
  BY <1>1, <1>2, <1>3 DEF IsRule
<1>5. Grounded(D, 0, p) /\ b \in A
  BY CountdownGrounded
<1>6. PICK f \in [D -> A] : \A i \in D : f[i] = IF i = 0 THEN b ELSE G[i][f[p[i]]]
  <2> HIDE DEF D, p, G, A
  <2> QED
    BY <1>4, <1>5, WalkRecursion
<1> DEFINE S == {k \in 0..m : f[k] \in Ancestors[best] /\ Height(f[k]) = Height(b) + k}
<1>0. f[0] = b /\ 0 \in D
  <2>1. 0 \in D
    OBVIOUS
  <2> HIDE DEF G, p, A
  <2> QED
    BY <1>6, <2>1
<1>7. 0 \in S
  <2>1. Height(b) + 0 = Height(b)
    BY <1>1
  <2> QED
    BY <1>0, <2>1
<1>8. ASSUME NEW k \in 1..m, k - 1 \in S PROVE k \in S /\ f[k] = pnext[f[k - 1]] /\ f[k - 1] # NULL
  <2>1. /\ k \in D /\ k # 0 /\ p[k] = k - 1
        /\ f[k - 1] \in Ancestors[best] /\ f[k - 1] # NULL
        /\ Height(f[k - 1]) = Height(b) + (k - 1)
    BY <1>1, <1>8
  <2>2. Height(f[k - 1]) < Height(best)
    BY <1>1, <2>1
  <2>3. f[k] = pnext[f[k - 1]]
    <3>1. f[k] = G[k][f[k - 1]]
      BY <1>6, <2>1
    <3>2. f[k - 1] \in A /\ f[k - 1] # best
      BY <1>1, <2>1, <2>2
    <3> QED
      BY <2>1, <3>1, <3>2
  <2>4. f[k] \in Ancestors[best] /\ Height(f[k]) = Height(f[k - 1]) + 1
    BY <1>2, <2>1, <2>2, <2>3
  <2> QED
    BY <1>1, <2>1, <2>3, <2>4
<1>9. 0..m \subseteq S
  <2> HIDE DEF S
  <2> QED
    BY <1>7, <1>8, CountInduction
<1>10. f = [k \in 0..m |-> IF k = 0 THEN b ELSE IF f[k - 1] = NULL THEN NULL
                           ELSE pnext[f[k - 1]]]
  <2>1. ASSUME NEW k \in D, k # 0
        PROVE  f[k - 1] # NULL /\ f[k] = pnext[f[k - 1]]
    <3>1. k \in 1..m /\ k - 1 \in 0..m
      BY <2>1
    <3>2. k - 1 \in S
      BY <1>9, <3>1
    <3> QED
      BY <1>8, <3>1, <3>2
  <2> QED
    BY <1>6, <2>1
<1>11. next = [k \in 0..m |-> IF k = 0 THEN b ELSE IF next[k - 1] = NULL THEN NULL
                              ELSE pnext[next[k - 1]]]
  BY <1>10
<1>12. next[m] \in Ancestors[best] /\ Height(next[m]) = Height(b) + m
  <2> HIDE DEF next
  <2> DEFINE R == {k \in 0..m : next[k] = f[k]}
  <2>1. next[0] = b /\ f[0] = b
    BY <1>0, <1>11
  <2>2. \A k \in 1..m : /\ next[k] = IF next[k - 1] = NULL THEN NULL ELSE pnext[next[k - 1]]
                        /\ f[k] = IF f[k - 1] = NULL THEN NULL ELSE pnext[f[k - 1]]
    BY <1>10, <1>11
  <2>3. 0 \in R
    BY <2>1
  <2>4. ASSUME NEW k \in 1..m, k - 1 \in R PROVE k \in R
    BY <2>2, <2>4
  <2>5. 0..m \subseteq R
    <3> HIDE DEF R
    <3> QED
      BY <2>3, <2>4, CountInduction
  <2>6. m \in R /\ m \in S
    BY <1>9, <2>5
  <2> QED
    BY <2>6
<1>13. Forward(b, m) = next[m]
  BY DEF Forward
<1> QED
  BY <1>12, <1>13

----------------------------------------------------------------------------
(* What is remembered.                                                     *)

\* The block found last, if any, is one of the main chain.
LastInv ==
  ~ fSecondaryFailed /\ pblockindexFBBHLast # NULL =>
    nPhase # "load" /\ pblockindexFBBHLast \in Ancestors[pindexBest]

\* The search succeeds from wherever it starts.
LEMMA SearchSucceeds ==
  ASSUME IInv, CommittedInv, LastInv, nPhase = "idle", ~ fSecondaryFailed,
         NEW n \in 0..nBestHeight
  PROVE  Found(n) \in Ancestors[pindexBest] /\ Height(Found(n)) = n
<1> USE DEF IInv
<1>1. /\ pindexBest \in mapBlockIndex /\ pindexBest \in Block
      /\ pnext \in [mapBlockIndex -> Pointer]
      /\ Linked(nHeight)
      /\ OneChain(pnext, pindexBest)
  BY DEF TypeOK, WorkInv, IndexInv, SyncInv, CommittedInv
<1>2. /\ Ancestors[pindexBest] \subseteq mapBlockIndex
      /\ Ancestors[pindexBest] \subseteq Block
      /\ \A b \in Ancestors[pindexBest] : nHeight[b] = Height(b) /\ Height(b) \in Nat
  <2>1. Ancestors[pindexBest] \subseteq mapBlockIndex /\ Ancestors[pindexBest] \subseteq Block
    BY <1>1, LinkedBranch, AncestorsType DEF mapBlockIndex
  <2> QED
    BY <1>1, <2>1, LinkedHeight, HeightStep DEF mapBlockIndex
<1>3. pindexBest \in Ancestors[pindexBest] /\ Genesis \in Ancestors[pindexBest]
  BY <1>1, AncestorsStep, BranchIsLine
<1> DEFINE b == SearchFrom(n)
<1>4. b \in Ancestors[pindexBest]
  BY <1>3 DEF SearchFrom, LastInv
<1>5. nBestHeight = Height(pindexBest) /\ n \in Nat /\ n <= Height(pindexBest)
  BY <1>2, <1>3 DEF nBestHeight
<1> HIDE DEF b
<1>6. CASE nHeight[b] > n
  <2>1. Found(n) = Back(b, Height(b) - n)
    BY <1>2, <1>4, <1>6 DEF Found, b
  <2>2. Height(b) - n \in Nat /\ Height(b) - n <= Height(b)
    BY <1>2, <1>4, <1>5, <1>6
  <2>3. Back(b, Height(b) - n) \in Ancestors[b] /\ Height(Back(b, Height(b) - n)) = Height(b) - (Height(b) - n)
    BY <1>2, <1>4, <2>2, BackIs
  <2>4. Ancestors[b] \subseteq Ancestors[pindexBest]
    BY <1>1, <1>4, BranchIsLine
  <2> QED
    BY <1>2, <1>4, <1>5, <2>1, <2>3, <2>4
<1>7. CASE ~ nHeight[b] > n
  <2>1. Found(n) = Forward(b, n - Height(b))
    BY <1>2, <1>4, <1>7 DEF Found, b
  <2>2. n - Height(b) \in Nat /\ n - Height(b) <= Height(pindexBest) - Height(b)
    BY <1>2, <1>3, <1>4, <1>5, <1>7
  <2>3. /\ Forward(b, n - Height(b)) \in Ancestors[pindexBest]
        /\ Height(Forward(b, n - Height(b))) = Height(b) + (n - Height(b))
    BY <1>1, <1>2, <1>4, <2>2, ForwardIs
  <2> QED
    BY <1>2, <1>4, <1>5, <2>1, <2>3
<1> QED
  BY <1>6, <1>7

\* A search is no step of the chain.
LEMMA HeightNextIsNext == [HeightNext]_<<vars, pblockindexFBBHLast>> => [Next]_vars
BY DEF HeightNext, FindBlockByHeight, ForgetLast, KeepLast, Next, Step

\* Only a new tip, a crash or the end of loading moves the tip, and the first
\* two forget the block found last.
LEMMA LastStep ==
  ASSUME IInv, CommittedInv, LastInv, [HeightNext]_<<vars, pblockindexFBBHLast>>
  PROVE  LastInv'
<1> USE DEF LastInv
<1>0. fSecondaryFailed => fSecondaryFailed'
  <2>1. [Next]_vars
    BY HeightNextIsNext
  <2> QED
    BY <2>1 DEF Next, Step, vars, history, AcceptBlock, AddToBlockIndexFails, RecordIsLost,
         InsertBlock, SetBestChain, Postpone, Reorganize, FindFork, DisconnectTip, ConnectNext,
         CommitReorganize, ReorganizeFails, SetBestChainInner, SetBestChainInnerFails,
         NewBestBlock, ExtendFault, ReorganizeFault, SecondaryFault, Crash, CrashWithHole,
         LoadChainWork, LoadBestChain
<1>1. ASSUME NEW n, FindBlockByHeight(n) PROVE LastInv'
  <2>1. /\ nPhase = "idle" /\ n \in 0..nBestHeight
        /\ pblockindexFBBHLast' = Found(n)
        /\ UNCHANGED <<nPhase, pindexBest, fSecondaryFailed>>
    BY <1>1 DEF FindBlockByHeight, vars, memory, history
  <2>2. ~ fSecondaryFailed => Found(n) \in Ancestors[pindexBest]
    BY <2>1, SearchSucceeds
  <2> QED
    BY <2>1, <2>2
<1>2. CASE ForgetLast
  BY <1>2 DEF ForgetLast
<1>3. CASE KeepLast
  <2>0. UNCHANGED pblockindexFBBHLast
    BY <1>3 DEF KeepLast
  <2>1. CASE LoadChainWork \/ LoadBestChain
    BY <2>0, <2>1, <1>0 DEF LoadChainWork, LoadBestChain
  <2>2. CASE \E b \in Block : AcceptBlock(b) \/ AddToBlockIndexFails(b) \/ RecordIsLost(b)
    BY <2>0, <2>2, <1>0 DEF AcceptBlock, AddToBlockIndexFails, RecordIsLost, InsertBlock,
                            memory, history
  <2>3. CASE SetBestChain \/ Postpone \/ Reorganize \/ FindFork \/ DisconnectTip \/ ConnectNext
    BY <2>0, <2>3, <1>0 DEF SetBestChain, Postpone, Reorganize, FindFork, DisconnectTip,
                            ConnectNext, memory, history
  <2>4. CASE CommitReorganize \/ ReorganizeFails \/ SetBestChainInner \/ SetBestChainInnerFails
    BY <2>0, <2>4, <1>0 DEF CommitReorganize, ReorganizeFails, SetBestChainInner,
                            SetBestChainInnerFails, memory, history
  <2>5. CASE ExtendFault \/ ReorganizeFault \/ SecondaryFault
    BY <2>0, <2>5, <1>0 DEF ExtendFault, ReorganizeFault, SecondaryFault, memory, history
  <2> QED
    BY <1>3, <2>1, <2>2, <2>3, <2>4, <2>5 DEF KeepLast
<1>4. CASE UNCHANGED <<vars, pblockindexFBBHLast>>
  BY <1>4 DEF vars, memory, history
<1> QED
  BY <1>1, <1>2, <1>3, <1>4 DEF HeightNext

\* FindsMainChainBlock (FindBlockByHeight, and SetBestChain that forgets the
\* block found last): whatever was found before and whatever reorganisation
\* came in between, the search returns the block of the main chain at that
\* height.
THEOREM SearchFindsMainChain == HeightSpec => []FindsMainChainBlock
<1>1. HeightInit => Init /\ LastInv
  BY DEF HeightInit, LastInv
<1>2. [HeightNext]_<<vars, pblockindexFBBHLast>> => [Next]_vars
  BY HeightNextIsNext
<1>3. IInv /\ CommittedInv /\ LastInv /\ [HeightNext]_<<vars, pblockindexFBBHLast>>
        => LastInv'
  BY LastStep
<1>4. IInv /\ CommittedInv /\ LastInv => FindsMainChainBlock
  BY SearchSucceeds DEF FindsMainChainBlock
<1>5. HeightSpec => Spec
  BY <1>1, <1>2, PTL DEF HeightSpec, Spec
<1> QED
  BY <1>1, <1>3, <1>4, <1>5, Invariance, CommittedInvariance, PTL DEF HeightSpec

----------------------------------------------------------------------------
(* Reception.  What a held block waits for.                                 *)

\* The types, and that the block in work is in nobody's queue.
QueueInv ==
  /\ mapOrphanBlocks \subseteq Block
  /\ mapOrphanBlocksByPrev \in [Block -> SUBSET Block]
  /\ pblock \in Block \cup {NULL}
  /\ vWorkQueue \in Seq(Block)
  /\ \A i \in 1..Len(vWorkQueue) : vWorkQueue[i] \in mapBlockIndex /\ vWorkQueue[i] # pblock
  /\ pblock # NULL => pblock \in mapBlockIndex

\* The predecessor of o is in the work queue, and if its turn has come, that
\* of o is still to come.
InQueue(o) ==
  /\ \E i \in 1..Len(vWorkQueue) : vWorkQueue[i] = hashPrevBlock[o]
  /\ vWorkQueue[1] = hashPrevBlock[o] => o \in vByPrev

\* A held block waits for a block that has not come, that is in work or that
\* is in the queue, unless its branch is not valid.
HeldInv ==
  \A o \in mapOrphanBlocks :
    /\ o \in mapBlockIndex => o = pblock
    /\ o # pblock /\ hashPrevBlock[o] \in mapBlockIndex \cap ValidBranches =>
         hashPrevBlock[o] = pblock \/ InQueue(o)
    /\ o # pblock /\ hashPrevBlock[o] \in ValidBranches =>
         o \in mapOrphanBlocksByPrev[hashPrevBlock[o]]

\* All that holds before the first crash and the first error.
ProcessInv ==
  nCrashes = 0 /\ nFaults = 0 =>
    /\ IInv /\ CommittedInv /\ CoinsInv /\ HeaviestInv
    /\ QueueInv /\ HeldInv

\* The counters only go up.
CountInv == nCrashes \in Nat /\ nFaults \in Nat

LEMMA CountStep ==
  ASSUME CountInv, [ProcessNext]_processAll
  PROVE  /\ CountInv'
         /\ nCrashes' = 0 /\ nFaults' = 0 =>
              /\ nCrashes = 0 /\ nFaults = 0
              /\ ~ ProcessCrash /\ ~ ExtendFault /\ ~ ReorganizeFault /\ ~ SecondaryFault /\ ~ Fault
<1>1. \/ nCrashes' = nCrashes /\ nFaults' = nFaults
      \/ nCrashes' = nCrashes + 1 /\ nFaults' = nFaults
      \/ nFaults' = nFaults + 1 /\ nCrashes' = nCrashes
  <2>1. CASE UNCHANGED processAll
    BY <2>1 DEF processAll, vars, history
  <2>2. CASE \E b \in Block : HoldOrphan(b) \/ ProcessBlock(b) \/ ProcessBlockFails(b)
    BY <2>2 DEF HoldOrphan, ProcessBlock, ProcessBlockFails, AcceptBlock, AddToBlockIndexFails,
                RecordIsLost, InsertBlock, Fault, vars, history
  <2>3. CASE ChainStep
    <3>1. CASE Step
      BY <3>1 DEF Step, SetBestChain, Postpone, Reorganize, FindFork, DisconnectTip, ConnectNext,
                CommitReorganize, ReorganizeFails, SetBestChainInner, SetBestChainInnerFails,
                NewBestBlock, LoadChainWork, LoadBestChain, history
    <3>2. CASE ExtendFault \/ ReorganizeFault \/ SecondaryFault
      BY <3>2 DEF ExtendFault, ReorganizeFault, SecondaryFault, Fault
    <3> QED
      BY <2>3, <3>1, <3>2 DEF ChainStep
  <2>4. CASE AcceptBlockReturns \/ NextInQueue
    BY <2>4 DEF AcceptBlockReturns, NextInQueue, vars, history
  <2>5. CASE \E o \in Block : AcceptOrphan(o) \/ AcceptOrphanFails(o) \/ DropOrphan(o)
    BY <2>5 DEF AcceptOrphan, AcceptOrphanFails, DropOrphan, AcceptBlock, AddToBlockIndexFails,
                RecordIsLost, InsertBlock, Fault, history
  <2>6. CASE ProcessCrash
    BY <2>6 DEF ProcessCrash, Crash, CrashWithHole
  <2> QED
    BY <2>1, <2>2, <2>3, <2>4, <2>5, <2>6 DEF ProcessNext, ProcessStep
<1>2. CountInv'
  BY <1>1 DEF CountInv
<1>3. ProcessCrash => nCrashes' = nCrashes + 1
  BY DEF ProcessCrash, Crash, CrashWithHole
<1>4. ExtendFault \/ ReorganizeFault \/ SecondaryFault \/ Fault => nFaults' = nFaults + 1
  BY DEF ExtendFault, ReorganizeFault, SecondaryFault, Fault
<1> QED
  BY <1>1, <1>2, <1>3, <1>4 DEF CountInv

----------------------------------------------------------------------------

\* The blocks that wait for one that was accepted are tried before cs_main is
\* free again, and none is forgotten.
LEMMA HeldStep ==
  ASSUME IInv, HeaviestInv, QueueInv, HeldInv, nCrashes = 0, nFaults = 0,
         TipIsHeaviest, [ProcessNext]_processAll, nCrashes' = 0, nFaults' = 0,
         CountInv
  PROVE  QueueInv' /\ HeldInv'
<1>0. /\ ~ ProcessCrash /\ ~ ExtendFault /\ ~ ReorganizeFault /\ ~ SecondaryFault /\ ~ Fault
      /\ NULL \notin Block
      /\ mapBlockIndex \subseteq Block
      /\ nPhase \notin {"load", "secondary"}
  BY CountStep, BlockAssumption DEF IInv, TypeOK, HeaviestInv
<1>9. \A b : ~ ProcessBlockFails(b) /\ ~ AcceptOrphanFails(b) /\ ~ RecordIsLost(b)
  BY <1>0 DEF ProcessBlockFails, AcceptOrphanFails, AddToBlockIndexFails, RecordIsLost
<1>1. ASSUME NEW b \in Block, HoldOrphan(b) PROVE QueueInv' /\ HeldInv'
  <2>1. /\ b \notin mapBlockIndex /\ hashPrevBlock[b] \notin mapBlockIndex
        /\ mapOrphanBlocks' = mapOrphanBlocks \cup {b}
        /\ mapOrphanBlocksByPrev' = [mapOrphanBlocksByPrev EXCEPT ![hashPrevBlock[b]] = @ \cup {b}]
        /\ UNCHANGED <<nHeight, pblock, vWorkQueue, vByPrev>>
    BY <1>1 DEF HoldOrphan, vars, memory, queue
  <2>2. QueueInv'
    BY <2>1 DEF QueueInv, mapBlockIndex
  <2>3. ASSUME NEW o \in mapOrphanBlocks, NEW p \in Block, o \in mapOrphanBlocksByPrev[p]
        PROVE  o \in mapOrphanBlocksByPrev'[p]
    BY <2>1, <2>3 DEF QueueInv
  <2>4. hashPrevBlock[b] \in Block => b \in mapOrphanBlocksByPrev'[hashPrevBlock[b]]
    BY <2>1 DEF QueueInv
  <2> QED
    BY <2>1, <2>2, <2>3, <2>4 DEF HeldInv, InQueue, mapBlockIndex, ValidBranches
<1>2. ASSUME NEW b \in Block, ProcessBlock(b) PROVE QueueInv' /\ HeldInv'
  <2>1. /\ vWorkQueue = <<>> /\ pblock = NULL
        /\ b \notin mapOrphanBlocks /\ b \notin mapBlockIndex
        /\ mapBlockIndex' = mapBlockIndex \cup {b}
        /\ pblock' = b
        /\ UNCHANGED <<mapOrphanBlocks, mapOrphanBlocksByPrev, vWorkQueue, vByPrev>>
    BY <1>2, <1>9 DEF ProcessBlock, Quiet, AcceptBlock, InsertBlock, mapBlockIndex, held, queue
  <2>2. QueueInv'
    BY <2>1 DEF QueueInv
  <2> QED
    BY <1>0, <2>1, <2>2 DEF HeldInv, InQueue, QueueInv
<1>3. ASSUME ChainStep PROVE QueueInv' /\ HeldInv'
  <2>1. mapBlockIndex' = mapBlockIndex
    BY <1>0, <1>3
    DEF ChainStep, Step, SetBestChain, Postpone, Reorganize, FindFork, DisconnectTip, ConnectNext,
        CommitReorganize, ReorganizeFails, InvalidChainFound, SetBestChainInner,
        SetBestChainInnerFails, NewBestBlock, LoadChainWork, LoadBestChain, memory, mapBlockIndex
  <2> QED
    BY <1>3, <2>1 DEF ChainStep, processVars, held, queue, QueueInv, HeldInv, InQueue
<1>4. ASSUME AcceptBlockReturns PROVE QueueInv' /\ HeldInv'
  <2>1. /\ pblock \in Block /\ pblock # NULL /\ pblock \in mapBlockIndex
        /\ nPhase = "idle"
        /\ pblock' = NULL
        /\ mapOrphanBlocks' = mapOrphanBlocks \ {pblock}
        /\ mapBlockIndex' = mapBlockIndex
        /\ mapOrphanBlocksByPrev' = mapOrphanBlocksByPrev
    BY <1>4 DEF AcceptBlockReturns, QueueInv, vars, memory, mapBlockIndex
  <2>2. CASE bnChainWork[pblock] <= bnBestChainWork
    <3>1. /\ vWorkQueue' = Append(vWorkQueue, pblock)
          /\ vByPrev' = IF vWorkQueue = <<>> THEN mapOrphanBlocksByPrev[pblock] ELSE vByPrev
      BY <1>4, <2>2 DEF AcceptBlockReturns
    <3>2. /\ vWorkQueue' \in Seq(Block)
          /\ Len(vWorkQueue') = Len(vWorkQueue) + 1 /\ Len(vWorkQueue) \in Nat
          /\ \A i \in 1..Len(vWorkQueue) : vWorkQueue'[i] = vWorkQueue[i]
          /\ vWorkQueue'[Len(vWorkQueue) + 1] = pblock
          /\ vWorkQueue = <<>> => Len(vWorkQueue) = 0
          /\ vWorkQueue # <<>> => 1 \in 1..Len(vWorkQueue)
      BY <2>1, <3>1 DEF QueueInv
    <3>3. QueueInv'
      BY <1>0, <2>1, <3>2 DEF QueueInv
    <3>4. ASSUME NEW o \in mapOrphanBlocks', hashPrevBlock[o] \in mapBlockIndex \cap ValidBranches
          PROVE  InQueue(o)'
      <4>1. o \in mapOrphanBlocks /\ o # pblock /\ hashPrevBlock[o] \in Block
        BY <1>0, <2>1, <3>4
      <4>2. CASE hashPrevBlock[o] = pblock
        <5>1. o \in mapOrphanBlocksByPrev[pblock]
          BY <3>4, <4>1, <4>2 DEF HeldInv
        <5>2. vWorkQueue'[1] = pblock => vWorkQueue = <<>>
          BY <3>2 DEF QueueInv
        <5> QED
          BY <3>1, <3>2, <4>2, <5>1, <5>2 DEF InQueue
      <4>3. CASE hashPrevBlock[o] # pblock
        <5>1. InQueue(o)
          BY <3>4, <4>1, <4>3 DEF HeldInv
        <5>2. vWorkQueue # <<>>
          BY <5>1 DEF InQueue
        <5> QED
          BY <3>1, <3>2, <5>1, <5>2 DEF InQueue
      <4> QED
        BY <4>2, <4>3
    <3> QED
      BY <2>1, <3>3, <3>4 DEF HeldInv, ValidBranches
  <2>3. CASE ~ (bnChainWork[pblock] <= bnBestChainWork)
    <3>1. UNCHANGED <<vWorkQueue, vByPrev>>
      BY <1>4, <2>3 DEF AcceptBlockReturns, queue
    <3>2. pblock \notin ValidBranches
      <4>1. /\ pblock \in DOMAIN bnChainWork /\ pindexBest \in DOMAIN bnChainWork
            /\ bnBestChainWork = bnChainWork[pindexBest]
        BY <2>1 DEF IInv, WorkInv
      <4>2. \A b \in DOMAIN bnChainWork : bnChainWork[b] = BranchWork[b]
        BY DEF HeaviestInv, LeadInv
      <4> QED
        BY <2>1, <2>3, <4>1, <4>2 DEF TipIsHeaviest
    <3>3. QueueInv'
      BY <1>0, <2>1, <3>1 DEF QueueInv
    <3> QED
      BY <2>1, <3>1, <3>2, <3>3 DEF HeldInv, InQueue, ValidBranches
  <2> QED
    BY <2>2, <2>3
<1>5. ASSUME NEW o \in Block, AcceptOrphan(o) PROVE QueueInv' /\ HeldInv'
  <2>1. /\ pblock = NULL /\ o \notin mapBlockIndex
        /\ vByPrev' = vByPrev \ {o}
        /\ mapBlockIndex' = mapBlockIndex \cup {o}
        /\ pblock' = o
        /\ UNCHANGED <<mapOrphanBlocks, mapOrphanBlocksByPrev, vWorkQueue>>
    BY <1>5, <1>9 DEF AcceptOrphan, AcceptBlock, InsertBlock, mapBlockIndex, held
  <2>2. QueueInv'
    BY <2>1 DEF QueueInv
  <2>3. \A c \in mapOrphanBlocks : c # NULL
    BY <1>0 DEF QueueInv
  <2>4. ASSUME NEW c \in mapOrphanBlocks, c # o, InQueue(c) PROVE InQueue(c)'
    BY <2>1, <2>4 DEF InQueue
  <2> QED
    BY <1>0, <2>1, <2>2, <2>3, <2>4 DEF HeldInv, ValidBranches
<1>6. ASSUME NEW o \in Block, DropOrphan(o) PROVE QueueInv' /\ HeldInv'
  <2>1. /\ vByPrev' = vByPrev \ {o}
        /\ mapOrphanBlocks' = mapOrphanBlocks \ {o}
        /\ UNCHANGED <<nHeight, mapOrphanBlocksByPrev, pblock, vWorkQueue>>
    BY <1>6 DEF DropOrphan, memory
  <2>2. QueueInv'
    BY <2>1 DEF QueueInv, mapBlockIndex
  <2>3. ASSUME NEW c \in mapOrphanBlocks', InQueue(c) PROVE InQueue(c)'
    BY <2>1, <2>3 DEF InQueue
  <2> QED
    BY <2>1, <2>2, <2>3 DEF HeldInv, mapBlockIndex, ValidBranches
<1>7. ASSUME NextInQueue PROVE QueueInv' /\ HeldInv'
  <2>1. /\ pblock = NULL /\ vWorkQueue # <<>> /\ vByPrev = {}
        /\ mapOrphanBlocksByPrev' = [mapOrphanBlocksByPrev EXCEPT ![Head(vWorkQueue)] = {}]
        /\ vWorkQueue' = Tail(vWorkQueue)
        /\ vByPrev' = IF Len(vWorkQueue) > 1 THEN mapOrphanBlocksByPrev[vWorkQueue[2]] ELSE {}
        /\ UNCHANGED <<nHeight, mapOrphanBlocks, pblock>>
    BY <1>7 DEF NextInQueue, vars, memory
  <2>2. /\ vWorkQueue' \in Seq(Block)
        /\ Len(vWorkQueue) \in Nat /\ Len(vWorkQueue') = Len(vWorkQueue) - 1
        /\ \A i \in 1..Len(vWorkQueue') : i + 1 \in 1..Len(vWorkQueue) /\ vWorkQueue'[i] = vWorkQueue[i + 1]
        /\ Head(vWorkQueue) = vWorkQueue[1] /\ 1 \in 1..Len(vWorkQueue)
        /\ vWorkQueue[1] \in Block
    BY <2>1 DEF QueueInv
  <2>3. QueueInv'
    BY <2>1, <2>2 DEF QueueInv, mapBlockIndex
  <2>4. ASSUME NEW o \in mapOrphanBlocks, hashPrevBlock[o] \in ValidBranches
        PROVE  /\ hashPrevBlock[o] # vWorkQueue[1]
               /\ o \in mapOrphanBlocksByPrev[hashPrevBlock[o]]
               /\ hashPrevBlock[o] \in mapBlockIndex => InQueue(o)
    <3>1. o # pblock /\ hashPrevBlock[o] # pblock
      BY <1>0, <2>1, <2>4 DEF QueueInv, ValidBranches
    <3>2. hashPrevBlock[o] \in mapBlockIndex => InQueue(o)
      BY <2>4, <3>1 DEF HeldInv
    <3>3. hashPrevBlock[o] # vWorkQueue[1]
      BY <2>1, <2>2, <3>2 DEF InQueue, QueueInv
    <3> QED
      BY <2>4, <3>1, <3>2, <3>3 DEF HeldInv
  <2>5. ASSUME NEW o \in mapOrphanBlocks, hashPrevBlock[o] \in mapBlockIndex \cap ValidBranches
        PROVE  InQueue(o)'
    <3>1. PICK i \in 1..Len(vWorkQueue) : vWorkQueue[i] = hashPrevBlock[o]
      BY <2>4, <2>5 DEF InQueue
    <3>2. i # 1
      BY <2>4, <2>5, <3>1
    <3>3. i - 1 \in 1..Len(vWorkQueue') /\ vWorkQueue'[i - 1] = hashPrevBlock[o]
      BY <2>2, <3>1, <3>2
    <3>4. vWorkQueue'[1] = hashPrevBlock[o] => o \in vByPrev'
      <4>1. Len(vWorkQueue) > 1 /\ 1 \in 1..Len(vWorkQueue') /\ vWorkQueue'[1] = vWorkQueue[2]
        BY <2>2, <3>1, <3>2
      <4> QED
        BY <2>1, <2>4, <2>5, <4>1
    <3> QED
      BY <3>3, <3>4 DEF InQueue
  <2>6. ASSUME NEW o \in mapOrphanBlocks, hashPrevBlock[o] \in ValidBranches
        PROVE  o \in mapOrphanBlocksByPrev'[hashPrevBlock[o]]
    BY <2>1, <2>2, <2>4, <2>6 DEF QueueInv, ValidBranches
  <2> QED
    BY <2>1, <2>3, <2>5, <2>6 DEF HeldInv, mapBlockIndex, ValidBranches
<1>8. ASSUME UNCHANGED processAll PROVE QueueInv' /\ HeldInv'
  BY <1>8 DEF processAll, processVars, held, queue, vars, memory, QueueInv, HeldInv, InQueue, mapBlockIndex
<1> QED
  BY <1>0, <1>1, <1>2, <1>3, <1>4, <1>5, <1>6, <1>7, <1>8, <1>9 DEF ProcessNext, ProcessStep

\* The same for all that is needed of Chain.
LEMMA ProcessStepInv ==
  ASSUME NoRepeats, BadSigsAbove, SignaturesVerified, CountInv, ProcessInv,
         [ProcessNext]_processAll
  PROVE  ProcessInv'
<1> SUFFICES ASSUME nCrashes' = 0, nFaults' = 0 PROVE ProcessInv'
  BY DEF ProcessInv
<1>1. /\ nCrashes = 0 /\ nFaults = 0
      /\ ~ ProcessCrash /\ ~ ExtendFault /\ ~ ReorganizeFault /\ ~ SecondaryFault /\ ~ Fault
  BY CountStep
<1>2. IInv /\ CommittedInv /\ CoinsInv /\ HeaviestInv /\ QueueInv /\ HeldInv
  BY <1>1 DEF ProcessInv
<1>3. [Next]_vars
  <2>1. CASE UNCHANGED processAll
    BY <2>1 DEF processAll
  <2>2. CASE \E b \in Block : HoldOrphan(b) \/ ProcessBlock(b)
    BY <2>2 DEF HoldOrphan, ProcessBlock, Next
  <2>3. CASE ChainStep
    BY <1>1, <2>3 DEF ChainStep, Next
  <2>4. CASE AcceptBlockReturns \/ NextInQueue
    BY <2>4 DEF AcceptBlockReturns, NextInQueue
  <2>5. CASE \E o \in Block : AcceptOrphan(o)
    BY <2>5 DEF AcceptOrphan, Next
  <2>6. CASE \E o \in Block : DropOrphan(o)
    BY <1>1, <2>6 DEF DropOrphan, vars, history
  <2>7. \A b : ~ ProcessBlockFails(b) /\ ~ AcceptOrphanFails(b)
    BY <1>1 DEF ProcessBlockFails, AcceptOrphanFails, AddToBlockIndexFails
  <2> QED
    BY <1>1, <2>1, <2>2, <2>3, <2>4, <2>5, <2>6, <2>7 DEF ProcessNext, ProcessStep
<1>4. IInv'
  BY <1>2, <1>3, StepInv
<1>5. CommittedInv' /\ CoinsInv'
  BY <1>2, <1>3, <1>4, CommittedStep, CoinsStepInv
<1>6. HeaviestInv'
  BY <1>2, <1>3, <1>4, HeaviestStep
<1>7. QueueInv' /\ HeldInv'
  BY <1>1, <1>2, HeldStep, HeaviestIsTip
<1> QED
  BY <1>4, <1>5, <1>6, <1>7 DEF ProcessInv

\* When cs_main is free, a valid branch all of whose blocks the node has is
\* indexed to its end.
LEMMA ReceivedIsIndexed ==
  ASSUME IInv, QueueInv, HeldInv, Quiet, NEW b \in ValidBranches,
         Ancestors[b] \subseteq mapBlockIndex \cup mapOrphanBlocks
  PROVE  b \in mapBlockIndex
<1>0. /\ b \in Block /\ \A a \in Ancestors[b] : a \in Block /\ a \in ValidBranches
      /\ pblock = NULL /\ NULL \notin Block /\ mapOrphanBlocks \subseteq Block
      /\ \A o \in mapOrphanBlocks : ~ InQueue(o)
  BY AncestorsType, ValidBelow, BlockAssumption DEF ValidBranches, Quiet, QueueInv, InQueue
<1> DEFINE S == {x \in Block : x \in Ancestors[b] => x \in mapBlockIndex}
<1>1. Genesis \in S
  BY BlockAssumption DEF IInv, IndexInv, Linked, mapBlockIndex
<1>2. ASSUME NEW x \in Block \ {Genesis}, hashPrevBlock[x] \in S PROVE x \in S
  <2> SUFFICES ASSUME x \in Ancestors[b], x \notin mapBlockIndex PROVE FALSE
    OBVIOUS
  <2>1. /\ hashPrevBlock[x] \in Block
        /\ hashPrevBlock[x] \in Ancestors[b]
    BY <1>0, AncestorsStep, BranchIsLine
  <2>2. x \in mapOrphanBlocks /\ hashPrevBlock[x] \in mapBlockIndex \cap ValidBranches
    BY <1>0, <1>2, <2>1
  <2> QED
    BY <1>0, <2>1, <2>2 DEF HeldInv
<1> HIDE DEF S
<1>3. Block \subseteq S
  BY <1>1, <1>2, TreeGrounded, WalkInduction
<1> QED
  BY <1>0, <1>3, AncestorsStep DEF S

\* TipIsHeaviestReceived (ProcessBlock and its work queue): whatever the order
\* in which blocks arrived, no valid branch all of whose blocks the node has,
\* held or indexed, has more work than the tip.  The conditions are those of
\* TipStaysHeaviest.
THEOREM OrderDoesNotMatter ==
  ASSUME NoRepeats, BadSigsAbove
  PROVE  ProcessSpec /\ []SignaturesVerified => []TipIsHeaviestReceived
<1>1. ProcessInit => CountInv /\ ProcessInv
  <2> SUFFICES ASSUME ProcessInit PROVE CountInv /\ ProcessInv
    OBVIOUS
  <2>1. Init
    BY DEF ProcessInit
  <2>2. CountInv
    BY <2>1 DEF Init, CountInv
  <2>3. IInv /\ CommittedInv /\ CoinsInv /\ HeaviestInv
    BY <2>1, InitInv, CommittedInit, CoinsInit, HeaviestInit
  <2>4. QueueInv /\ HeldInv
    BY DEF ProcessInit, QueueInv, HeldInv
  <2> QED
    BY <2>2, <2>3, <2>4 DEF ProcessInv
<1>2. CountInv /\ [ProcessNext]_processAll => CountInv'
  BY CountStep
<1>3. CountInv /\ ProcessInv /\ SignaturesVerified /\ [ProcessNext]_processAll => ProcessInv'
  BY ProcessStepInv
<1>4. ProcessInv => TipIsHeaviestReceived
  <2> SUFFICES ASSUME ProcessInv, Quiet, nCrashes = 0, nFaults = 0, NEW b \in ValidBranches,
                      Ancestors[b] \subseteq mapBlockIndex \cup mapOrphanBlocks
               PROVE  BranchWork[b] <= BranchWork[pindexBest]
    BY DEF TipIsHeaviestReceived
  <2>1. b \in mapBlockIndex
    BY ReceivedIsIndexed DEF ProcessInv
  <2> QED
    BY <2>1, HeaviestIsTip DEF ProcessInv, TipIsHeaviest, Quiet
<1> QED
  BY <1>1, <1>2, <1>3, <1>4, PTL DEF ProcessSpec

----------------------------------------------------------------------------
(* The block template.  What its transactions come to.                     *)

\* The recursive definition of Counted defines a function.
LEMMA CountedDef ==
  ASSUME NEW D, NEW s \in Seq(D), NEW of \in [D -> Nat]
  PROVE  /\ Counted(s, of) \in [0..Len(s) -> Nat]
         /\ Counted(s, of)[0] = 1
         /\ \A i \in 1..Len(s) : Counted(s, of)[i] = Counted(s, of)[i - 1] + of[s[i]]
<1> DEFINE n == Len(s)
           p == [i \in 0..n |-> i - 1]
           H == [i \in 0..n |-> [v \in Nat |-> IF i = 0 THEN v ELSE v + of[s[i]]]]
           e == 1
           N == 0..n
           V == Nat
<1>0. n \in Nat /\ \A i \in 1..n : s[i] \in D /\ of[s[i]] \in Nat
  OBVIOUS
<1>1. IsRule(H, N, V) /\ e \in V
  BY <1>0 DEF IsRule
<1>2. Grounded(N, 0, p)
  BY <1>0, CountdownGrounded
<1>3. PICK f \in [N -> V] : \A i \in N : f[i] = IF i = 0 THEN e ELSE H[i][f[p[i]]]
  <2> HIDE DEF p, H, N, e, V
  <2> QED
    BY <1>1, <1>2, WalkRecursion
<1>4. \A i \in 0..n : f[i] = IF i = 0 THEN 1 ELSE f[i - 1] + of[s[i]]
  <2> TAKE i \in 0..n
  <2>1. CASE i = 0
    BY <1>0, <1>3, <2>1
  <2>2. CASE i # 0
    <3>1. i \in 1..n /\ i - 1 \in 0..n /\ p[i] = i - 1
      BY <1>0, <2>2
    <3> HIDE DEF p, n
    <3>2. f[p[i]] \in Nat
      BY <3>1
    <3> QED
      BY <1>3, <2>2, <3>1, <3>2
  <2> QED
    BY <2>1, <2>2
<1>5. f = [i \in 0..n |-> IF i = 0 THEN 1 ELSE f[i - 1] + of[s[i]]]
  BY <1>4
<1>6. Counted(s, of) = [i \in 0..n |-> IF i = 0 THEN 1 ELSE Counted(s, of)[i - 1] + of[s[i]]]
  BY <1>5 DEF Counted
<1> DEFINE c == Counted(s, of)
<1>7. \A i \in 0..n : c[i] = IF i = 0 THEN 1 ELSE c[i - 1] + of[s[i]]
  <2> HIDE DEF n
  <2> QED
    BY <1>6
<1>8. c[0] = 1 /\ \A i \in 1..n : c[i] = c[i - 1] + of[s[i]]
  <2> HIDE DEF c
  <2> QED
    BY <1>0, <1>7
<1> DEFINE T == {i \in 0..n : c[i] \in Nat}
<1>9. 0..n \subseteq T
  <2> HIDE DEF c
  <2>1. 0 \in T
    BY <1>0, <1>8
  <2>2. \A i \in 1..n : i - 1 \in T => i \in T
    BY <1>0, <1>8
  <2> HIDE DEF T, n
  <2> QED
    BY <1>0, <2>1, <2>2, CountInduction
<1>10. DOMAIN c = 0..n /\ c = [i \in 0..n |-> c[i]]
  <2> HIDE DEF n
  <2> QED
    BY <1>6
<1>11. c \in [0..n -> Nat]
  <2> HIDE DEF c
  <2> QED
    BY <1>9, <1>10
<1> QED
  BY <1>8, <1>11

\* One more transaction adds what it counts for and leaves the counts before it.
LEMMA CountedAppend ==
  ASSUME NEW D, NEW s \in Seq(D), NEW of \in [D -> Nat], NEW t \in D
  PROVE  /\ \A i \in 0..Len(s) : Counted(Append(s, t), of)[i] = Counted(s, of)[i]
         /\ Counted(Append(s, t), of)[Len(s) + 1] = Counted(s, of)[Len(s)] + of[t]
<1> DEFINE r == Append(s, t)
           n == Len(s)
           c == Counted(s, of)
           d == Counted(r, of)
           T == {i \in 0..n : d[i] = c[i]}
<1>1. /\ r \in Seq(D) /\ n \in Nat /\ Len(r) = n + 1 /\ r[n + 1] = t
      /\ \A i \in 1..n : r[i] = s[i]
  OBVIOUS
<1>2. c[0] = 1 /\ \A i \in 1..n : c[i] = c[i - 1] + of[s[i]]
  BY CountedDef
<1>3. d[0] = 1 /\ \A i \in 1..(n + 1) : d[i] = d[i - 1] + of[r[i]]
  <2> HIDE DEF r, n
  <2>1. d[0] = 1 /\ \A i \in 1..Len(r) : d[i] = d[i - 1] + of[r[i]]
    BY <1>1, CountedDef
  <2> QED
    BY <1>1, <2>1
<1> HIDE DEF c, d, r, n
<1>4. 0 \in T
  BY <1>1, <1>2, <1>3
<1>5. ASSUME NEW i \in 1..n, i - 1 \in T PROVE i \in T
  <2>1. d[i - 1] = c[i - 1] /\ i \in 1..(n + 1) /\ i \in 0..n
    BY <1>1, <1>5
  <2>2. d[i] = c[i - 1] + of[s[i]]
    BY <1>1, <1>3, <2>1
  <2> QED
    BY <1>2, <2>1, <2>2
<1>6. 0..n \subseteq T
  <2> HIDE DEF T
  <2> QED
    BY <1>1, <1>4, <1>5, CountInduction
<1>7. d[n] = c[n] /\ d[n + 1] = d[n] + of[t]
  <2>1. n \in 0..n /\ n + 1 \in 1..(n + 1) /\ n + 1 - 1 = n
    BY <1>1
  <2> QED
    BY <1>1, <1>3, <1>6, <2>1
<1> QED
  BY <1>6, <1>7 DEF c, d, r, n

----------------------------------------------------------------------------
(* The loop of CreateNewBlock.                                             *)

\* The template is a sequence of transactions of the pool, and an exception to
\* the rule on free ones is made only when the order changes.
TemplateTypeOK ==
  /\ pool \in Pools
  /\ templateTxs \in Seq(DOMAIN pool)
  /\ vecPriority \subseteq DOMAIN pool
  /\ fSortedByFee \in BOOLEAN
  /\ ~fSortedByFee => exempt = {}

\* A transaction waits for its parents that are not in the block, and is queued
\* once there are none.
WaitsForRest == setDependsOn = [t \in DOMAIN pool |-> pool[t].parents \ InBlock]

QueuedAreReady ==
  /\ vecPriority \cap InBlock = {}
  /\ \A t \in vecPriority : pool[t].parents \subseteq InBlock

\* What is neither in the block nor in the queue: for each there is a reason, and
\* one that the rest of the loop cannot take away.
LeftForAReason ==
  \A t \in DOMAIN pool \ (InBlock \cup vecPriority) :
    \/ ~(pool[t].parents \subseteq InBlock)
    \/ ~Fits(t) \/ IsFree(t) \/ ~Connectible(t)

TemplateInv ==
  /\ TemplateTypeOK /\ WaitsForRest /\ QueuedAreReady /\ LeftForAReason
  /\ TemplateIsOrdered /\ FreeForAReason

\* What is known of the transactions, the limits and the counts.
LEMMA TemplateTypes ==
  ASSUME TemplateTypeOK
  PROVE  /\ {nBlockMaxSize, nBlockPrioritySize, nBlockMinSize, MAX_BLOCK_SIGOPS, nMinTxFee, HighPriority}
              \subseteq Int
         /\ \A t \in DOMAIN pool :
              /\ pool[t].parents \subseteq DOMAIN pool
              /\ {pool[t].priority, pool[t].fee} \subseteq Int
              /\ {pool[t].size, pool[t].ops, pool[t].p2sh} \subseteq Nat
              /\ pool[t].ok \in BOOLEAN
         /\ TxSizes \in [DOMAIN pool -> Nat] /\ TxSigOps \in [DOMAIN pool -> Nat]
         /\ nBlockSize \in Nat /\ nBlockSigOps \in Nat
         /\ InBlock \subseteq DOMAIN pool
         /\ Len(templateTxs) \in Nat
<1>1. \A t \in DOMAIN pool :
        /\ pool[t].parents \subseteq DOMAIN pool
        /\ {pool[t].priority, pool[t].fee} \subseteq Int
        /\ {pool[t].size, pool[t].ops, pool[t].p2sh} \subseteq Nat
        /\ pool[t].ok \in BOOLEAN
  BY PoolsAssumption DEF TemplateTypeOK, IsPool
<1>2. TxSizes \in [DOMAIN pool -> Nat] /\ TxSigOps \in [DOMAIN pool -> Nat]
  BY <1>1 DEF TxSizes, TxSigOps
<1>3. templateTxs \in Seq(DOMAIN pool) /\ Len(templateTxs) \in Nat
  BY DEF TemplateTypeOK
<1>4. nBlockSize \in Nat /\ nBlockSigOps \in Nat
  <2>1. Len(templateTxs) \in 0..Len(templateTxs)
    BY <1>3
  <2> QED
    BY <1>2, <1>3, <2>1, CountedDef DEF nBlockSize, nBlockSigOps
<1>5. InBlock \subseteq DOMAIN pool
  BY <1>3 DEF InBlock, Range
<1> QED
  BY <1>1, <1>2, <1>3, <1>4, <1>5, TemplateAssumption

\* Before the loop.
LEMMA TemplateInvInit == TemplateInit => TemplateInv
<1> SUFFICES ASSUME TemplateInit PROVE TemplateInv
  OBVIOUS
<1> USE DEF TemplateInit
<1>1. TemplateTypeOK
  <2>1. \A p \in Pools : \A t \in DOMAIN p : p[t].parents \subseteq DOMAIN p
    BY PoolsAssumption DEF IsPool
  <2>2. nBlockPrioritySize \in Int
    BY TemplateAssumption
  <2> QED
    BY <2>1, <2>2 DEF TemplateTypeOK
<1>2. DOMAIN templateTxs = {} /\ InBlock = {}
  BY DEF InBlock, Range
<1>3. WaitsForRest
  <2>1. \A t \in DOMAIN pool : pool[t].parents \ InBlock = pool[t].parents
    BY <1>2
  <2> QED
    BY <2>1 DEF WaitsForRest
<1>4. QueuedAreReady /\ LeftForAReason
  BY <1>2 DEF QueuedAreReady, LeftForAReason
<1>5. TemplateIsOrdered
  BY <1>2 DEF TemplateIsOrdered, IsInjective
<1>6. FreeForAReason
  BY <1>2 DEF FreeForAReason
<1> QED
  BY <1>1, <1>3, <1>4, <1>5, <1>6 DEF TemplateInv

\* A transaction that is passed over leaves a reason.
LEMMA PassesOverKeeps ==
  ASSUME TemplateInv, NEW t \in vecPriority, PassesOver(t), UNCHANGED pool,
         ~Fits(t) \/ IsFree(t) \/ ~Connectible(t),
         TemplateTypeOK', FreeForAReason'
  PROVE  TemplateInv'
<1>1. /\ UNCHANGED <<pool, templateTxs, setDependsOn>> /\ vecPriority' = vecPriority \ {t}
      /\ InBlock' = InBlock /\ nBlockSize' = nBlockSize /\ nBlockSigOps' = nBlockSigOps
  BY DEF PassesOver, InBlock, nBlockSize, nBlockSigOps, TxSizes, TxSigOps
<1>2. WaitsForRest'
  BY <1>1 DEF TemplateInv, WaitsForRest
<1>3. QueuedAreReady'
  BY <1>1 DEF TemplateInv, QueuedAreReady
<1>4. LeftForAReason'
  BY <1>1 DEF TemplateInv, LeftForAReason, Fits, IsFree, Connectible
<1>5. TemplateIsOrdered'
  BY <1>1 DEF TemplateInv, TemplateIsOrdered
<1> QED
  BY <1>2, <1>3, <1>4, <1>5 DEF TemplateInv

\* One more transaction: the counts and what is in the block.
LEMMA AddsCounts ==
  ASSUME TemplateTypeOK, NEW t \in DOMAIN pool, Adds(t), UNCHANGED pool
  PROVE  /\ templateTxs' \in Seq(DOMAIN pool)
         /\ Len(templateTxs') = Len(templateTxs) + 1 /\ templateTxs'[Len(templateTxs) + 1] = t
         /\ \A i \in 1..Len(templateTxs) : templateTxs'[i] = templateTxs[i]
         /\ InBlock' = InBlock \cup {t}
         /\ nBlockSize' = nBlockSize + pool[t].size
         /\ nBlockSigOps' = nBlockSigOps + pool[t].ops + pool[t].p2sh
         /\ \A i \in 0..Len(templateTxs) :
              Counted(templateTxs', TxSizes')[i] = Counted(templateTxs, TxSizes)[i]
         /\ Counted(templateTxs', TxSizes')[Len(templateTxs) + 1] = nBlockSize'
<1>1. templateTxs \in Seq(DOMAIN pool) /\ templateTxs' = Append(templateTxs, t)
  BY DEF TemplateTypeOK, Adds
<1>2. /\ templateTxs' \in Seq(DOMAIN pool) /\ Len(templateTxs) \in Nat
      /\ Len(templateTxs') = Len(templateTxs) + 1 /\ templateTxs'[Len(templateTxs) + 1] = t
      /\ \A i \in 1..Len(templateTxs) : templateTxs'[i] = templateTxs[i]
  BY <1>1
<1>3. InBlock' = InBlock \cup {t}
  <2>1. DOMAIN templateTxs = 1..Len(templateTxs) /\ DOMAIN templateTxs' = 1..(Len(templateTxs) + 1)
    BY <1>1, <1>2
  <2>2. InBlock' = {templateTxs'[i] : i \in DOMAIN templateTxs'}
    BY DEF InBlock, Range
  <2>3. InBlock = {templateTxs[i] : i \in DOMAIN templateTxs}
    BY DEF InBlock, Range
  <2>4. \A i \in 1..(Len(templateTxs) + 1) : i \in 1..Len(templateTxs) \/ i = Len(templateTxs) + 1
    BY <1>2
  <2>5. Len(templateTxs) + 1 \in 1..(Len(templateTxs) + 1)
        /\ \A i \in 1..Len(templateTxs) : i \in 1..(Len(templateTxs) + 1)
    BY <1>2
  <2> QED
    BY <1>2, <2>1, <2>2, <2>3, <2>4, <2>5
<1>4. /\ TxSizes' = TxSizes /\ TxSigOps' = TxSigOps
      /\ TxSizes[t] = pool[t].size /\ TxSigOps[t] = pool[t].ops + pool[t].p2sh
  BY DEF TxSizes, TxSigOps
<1>5. TxSizes \in [DOMAIN pool -> Nat] /\ TxSigOps \in [DOMAIN pool -> Nat]
  BY TemplateTypes
<1>6. /\ \A i \in 0..Len(templateTxs) :
           Counted(Append(templateTxs, t), TxSizes)[i] = Counted(templateTxs, TxSizes)[i]
      /\ Counted(Append(templateTxs, t), TxSizes)[Len(templateTxs) + 1] = nBlockSize + TxSizes[t]
  BY <1>1, <1>5, CountedAppend DEF nBlockSize
<1>7. Counted(Append(templateTxs, t), TxSigOps)[Len(templateTxs) + 1] = nBlockSigOps + TxSigOps[t]
  BY <1>1, <1>5, CountedAppend DEF nBlockSigOps
<1>8. nBlockSize' = nBlockSize + pool[t].size
  BY <1>1, <1>2, <1>4, <1>6 DEF nBlockSize
<1>9. nBlockSigOps' = nBlockSigOps + pool[t].ops + pool[t].p2sh
  <2>1. nBlockSigOps' = nBlockSigOps + TxSigOps[t]
    BY <1>1, <1>2, <1>4, <1>7 DEF nBlockSigOps
  <2>2. nBlockSigOps \in Nat /\ pool[t].ops \in Nat /\ pool[t].p2sh \in Nat
    BY TemplateTypes
  <2> QED
    BY <1>4, <2>1, <2>2
<1> QED
  BY <1>1, <1>2, <1>3, <1>4, <1>6, <1>8, <1>9

\* The parents of what is in the block are in it.
LEMMA InBlockAreReady ==
  ASSUME TemplateTypeOK, TemplateIsOrdered, NEW u \in InBlock
  PROVE  pool[u].parents \subseteq InBlock
<1>1. PICK i \in DOMAIN templateTxs : u = templateTxs[i]
  BY DEF InBlock, Range
<1>2. templateTxs \in Seq(DOMAIN pool) /\ i \in 1..Len(templateTxs) /\ Len(templateTxs) \in Nat
  BY <1>1 DEF TemplateTypeOK
<1>3. pool[u].parents \subseteq Range(SubSeq(templateTxs, 1, i - 1))
  BY <1>1 DEF TemplateIsOrdered
<1>4. Range(SubSeq(templateTxs, 1, i - 1)) \subseteq InBlock
  <2>1. \A j \in DOMAIN SubSeq(templateTxs, 1, i - 1) :
          j \in DOMAIN templateTxs /\ SubSeq(templateTxs, 1, i - 1)[j] = templateTxs[j]
    BY <1>2
  <2> QED
    BY <2>1 DEF InBlock, Range
<1> QED
  BY <1>3, <1>4

\* What is released had no other parent left, and was not taken yet.
LEMMA ReleasedAreReady ==
  ASSUME TemplateInv, NEW t \in vecPriority, NEW u \in Released(t)
  PROVE  /\ u \in DOMAIN pool /\ u # t /\ u \notin InBlock
         /\ pool[u].parents \subseteq InBlock \cup {t}
<1>1. u \in DOMAIN pool /\ setDependsOn[u] = {t}
  BY DEF Released
<1>2. pool[u].parents \ InBlock = {t}
  BY <1>1 DEF TemplateInv, WaitsForRest
<1>3. u \notin InBlock
  BY <1>2, InBlockAreReady DEF TemplateInv
<1>4. u # t
  BY <1>2 DEF TemplateInv, QueuedAreReady
<1> QED
  BY <1>1, <1>2, <1>3, <1>4

\* The order of the block stays right when a transaction is put at its end.
LEMMA AddsOrdered ==
  ASSUME TemplateInv, NEW t \in vecPriority, Adds(t), UNCHANGED pool, Fits(t), Connectible(t)
  PROVE  TemplateIsOrdered'
<1> DEFINE s == templateTxs
           n == Len(templateTxs)
           r == templateTxs'
<1>1. /\ TemplateTypeOK /\ t \in DOMAIN pool /\ s \in Seq(DOMAIN pool) /\ n \in Nat
      /\ t \notin InBlock /\ pool[t].parents \subseteq InBlock
  BY DEF TemplateInv, TemplateTypeOK, QueuedAreReady
<1>2. /\ r \in Seq(DOMAIN pool) /\ Len(r) = n + 1 /\ r[n + 1] = t
      /\ \A i \in 1..n : r[i] = s[i]
  BY <1>1, AddsCounts
<1>3. nBlockSize' < nBlockMaxSize /\ nBlockSigOps' < MAX_BLOCK_SIGOPS
  BY <1>1, AddsCounts DEF Fits, Connectible
<1>4. DOMAIN s = 1..n /\ DOMAIN r = 1..(n + 1) /\ \A i \in 1..(n + 1) : i \in 1..n \/ i = n + 1
  BY <1>1, <1>2
<1>5. \A i \in 1..n : s[i] # t
  BY <1>1, <1>4 DEF InBlock, Range
<1>6. IsInjective(r)
  <2>1. \A i, j \in 1..n : s[i] = s[j] => i = j
    BY <1>4 DEF TemplateInv, TemplateIsOrdered, IsInjective
  <2>2. \A i, j \in 1..(n + 1) : r[i] = r[j] => i = j
    <3> HIDE DEF s, r, n
    <3> QED
      BY <1>2, <1>4, <1>5, <2>1
  <2> QED
    BY <1>4, <2>2 DEF IsInjective
<1>7. ASSUME NEW i \in 1..(n + 1)
      PROVE  pool[r[i]].parents \subseteq Range(SubSeq(r, 1, i - 1))
  <2>1. \A j \in 1..(i - 1) : j \in 1..n
    BY <1>1
  <2>2. Range(SubSeq(r, 1, i - 1)) = {s[j] : j \in 1..(i - 1)}
    <3>1. DOMAIN SubSeq(r, 1, i - 1) = 1..(i - 1)
          /\ \A j \in 1..(i - 1) : SubSeq(r, 1, i - 1)[j] = r[j]
      BY <1>1, <1>2
    <3> QED
      BY <1>2, <2>1, <3>1 DEF Range
  <2>3. CASE i \in 1..n
    <3>1. pool[s[i]].parents \subseteq Range(SubSeq(s, 1, i - 1))
      BY <1>4, <2>3 DEF TemplateInv, TemplateIsOrdered
    <3>2. DOMAIN SubSeq(s, 1, i - 1) = 1..(i - 1)
          /\ \A j \in 1..(i - 1) : SubSeq(s, 1, i - 1)[j] = s[j]
      BY <1>1, <2>3
    <3>3. Range(SubSeq(s, 1, i - 1)) = {s[j] : j \in 1..(i - 1)}
      BY <3>2 DEF Range
    <3> QED
      BY <1>2, <2>2, <2>3, <3>1, <3>3
  <2>4. CASE i = n + 1
    <3>1. InBlock = {s[j] : j \in 1..n}
      BY <1>4 DEF InBlock, Range
    <3>2. i - 1 = n
      BY <1>1, <2>4
    <3> QED
      BY <1>1, <1>2, <2>2, <2>4, <3>1, <3>2
  <2> QED
    BY <1>4, <2>3, <2>4
<1> QED
  BY <1>3, <1>4, <1>6, <1>7 DEF TemplateIsOrdered

\* A transaction that is added takes nobody's reason away.
LEMMA AddsKeeps ==
  ASSUME TemplateInv, NEW t \in vecPriority, Adds(t), UNCHANGED pool, Fits(t), Connectible(t),
         TemplateTypeOK', FreeForAReason'
  PROVE  TemplateInv'
<1>1. /\ TemplateTypeOK /\ t \in DOMAIN pool
      /\ t \notin InBlock /\ pool[t].parents \subseteq InBlock
  BY DEF TemplateInv, TemplateTypeOK, QueuedAreReady
<1>2. InBlock' = InBlock \cup {t}
  BY <1>1, AddsCounts
<1>3. /\ vecPriority' = (vecPriority \ {t}) \cup Released(t)
      /\ setDependsOn' = [u \in DOMAIN pool |-> setDependsOn[u] \ {t}]
  BY DEF Adds
<1>4. WaitsForRest'
  <2>1. \A u \in DOMAIN pool : setDependsOn[u] \ {t} = pool[u].parents \ InBlock'
    BY <1>2 DEF TemplateInv, WaitsForRest
  <2> QED
    BY <1>3, <2>1 DEF WaitsForRest
<1>5. QueuedAreReady'
  <2>1. ASSUME NEW u \in vecPriority' PROVE u \notin InBlock' /\ pool[u].parents \subseteq InBlock'
    <3>1. CASE u \in Released(t)
      BY <1>2, <3>1, ReleasedAreReady
    <3>2. CASE u \in vecPriority \ {t}
      BY <1>2, <3>2 DEF TemplateInv, QueuedAreReady
    <3> QED
      BY <1>3, <2>1, <3>1, <3>2
  <2> QED
    BY <2>1 DEF QueuedAreReady
<1>6. LeftForAReason'
  <2> SUFFICES ASSUME NEW u \in DOMAIN pool, u \notin InBlock', u \notin vecPriority',
                      pool[u].parents \subseteq InBlock'
               PROVE  (~Fits(u) \/ IsFree(u) \/ ~Connectible(u))'
    BY DEF LeftForAReason
  <2>1. u # t /\ u \notin InBlock /\ u \notin vecPriority /\ u \notin Released(t)
    BY <1>2, <1>3
  <2>2. pool[u].parents \subseteq InBlock
    <3>1. setDependsOn[u] = pool[u].parents \ InBlock /\ setDependsOn[u] # {t}
      BY <2>1 DEF TemplateInv, WaitsForRest, Released
    <3> QED
      BY <1>2, <3>1
  <2>3. ~Fits(u) \/ IsFree(u) \/ ~Connectible(u)
    BY <2>1, <2>2 DEF TemplateInv, LeftForAReason
  <2>4. /\ nBlockSize' = nBlockSize + pool[t].size
        /\ nBlockSigOps' = nBlockSigOps + pool[t].ops + pool[t].p2sh
    BY <1>1, AddsCounts
  <2>5. \A x \in DOMAIN pool : pool[x].size \in Nat /\ pool[x].ops \in Nat /\ pool[x].p2sh \in Nat
    BY <1>1, TemplateTypes
  <2>6. /\ nBlockSize \in Nat /\ nBlockSigOps \in Nat
        /\ nBlockMaxSize \in Int /\ nBlockMinSize \in Int /\ MAX_BLOCK_SIGOPS \in Int
    BY <1>1, TemplateTypes
  <2>7. CASE ~Fits(u)
    BY <1>1, <2>4, <2>5, <2>6, <2>7 DEF Fits
  <2>8. CASE IsFree(u)
    BY <1>1, <2>4, <2>5, <2>6, <2>8 DEF IsFree
  <2>9. CASE ~Connectible(u)
    BY <1>1, <2>4, <2>5, <2>6, <2>9 DEF Connectible
  <2> QED
    BY <2>3, <2>7, <2>8, <2>9
<1>7. TemplateIsOrdered'
  BY AddsOrdered
<1> QED
  BY <1>4, <1>5, <1>6, <1>7 DEF TemplateInv

\* The reasons of free transactions that are in the block stay.
LEMMA FreeStays ==
  ASSUME TemplateInv, NEW t \in vecPriority, UNCHANGED pool,
         Adds(t) \/ PassesOver(t), exempt \subseteq exempt',
         Adds(t) => \/ pool[t].fee >= nMinTxFee \/ t \in exempt' \/ nBlockSize + pool[t].size < nBlockMinSize
                    \/ pool[t].priority >= HighPriority /\ nBlockSize + pool[t].size < nBlockPrioritySize
  PROVE  FreeForAReason'
<1>1. TemplateTypeOK /\ t \in DOMAIN pool /\ FreeForAReason
  BY DEF TemplateInv, TemplateTypeOK
<1>2. CASE PassesOver(t)
  <2>1. templateTxs' = templateTxs /\ TxSizes' = TxSizes
    BY <1>2 DEF PassesOver, TxSizes
  <2> QED
    BY <1>1, <2>1 DEF FreeForAReason
<1>3. CASE Adds(t)
  <2> DEFINE n == Len(templateTxs)
             r == templateTxs'
             Reason(u, size) ==
               \/ pool[u].fee >= nMinTxFee \/ u \in exempt' \/ size < nBlockMinSize
               \/ pool[u].priority >= HighPriority /\ size < nBlockPrioritySize
  <2>1. /\ n \in Nat /\ DOMAIN templateTxs = 1..n
        /\ r \in Seq(DOMAIN pool) /\ Len(r) = n + 1 /\ r[n + 1] = t
        /\ \A i \in 1..n : r[i] = templateTxs[i]
        /\ nBlockSize' = nBlockSize + pool[t].size
        /\ \A i \in 0..n : Counted(r, TxSizes')[i] = Counted(templateTxs, TxSizes)[i]
        /\ Counted(r, TxSizes')[n + 1] = nBlockSize'
    <3>1. templateTxs \in Seq(DOMAIN pool)
      BY <1>1 DEF TemplateTypeOK
    <3> QED
      BY <1>1, <1>3, <3>1, AddsCounts
  <2>2. ASSUME NEW i \in 1..n PROVE Reason(r[i], Counted(r, TxSizes')[i])
    <3>1. \/ pool[templateTxs[i]].fee >= nMinTxFee \/ templateTxs[i] \in exempt
          \/ Counted(templateTxs, TxSizes)[i] < nBlockMinSize
          \/ pool[templateTxs[i]].priority >= HighPriority
             /\ Counted(templateTxs, TxSizes)[i] < nBlockPrioritySize
      BY <1>1, <2>1 DEF FreeForAReason
    <3>2. i \in 0..n
      OBVIOUS
    <3> QED
      BY <2>1, <3>1, <3>2
  <2>3. Reason(r[n + 1], Counted(r, TxSizes')[n + 1])
    BY <1>3, <2>1
  <2>4. DOMAIN r = 1..(n + 1) /\ \A i \in 1..(n + 1) : i \in 1..n \/ i = n + 1
    BY <2>1
  <2>5. \A i \in DOMAIN r : Reason(r[i], Counted(r, TxSizes')[i])
    <3> HIDE DEF Reason, n, r
    <3> QED
      BY <2>2, <2>3, <2>4
  <2> QED
    BY <2>5 DEF FreeForAReason
<1> QED
  BY <1>2, <1>3

\* One turn of the loop.
LEMMA TemplateInvNext ==
  ASSUME TemplateInv, TemplateNext
  PROVE  TemplateInv'
<1>1. PICK t \in First :
        IF ~Fits(t) \/ (fSortedByFee /\ IsFree(t))
        THEN PassesOver(t) /\ UNCHANGED <<fSortedByFee, exempt>>
        ELSE /\ fSortedByFee' = (fSortedByFee \/ ChangesOrder(t))
             /\ exempt' = IF ChangesOrder(t) THEN {t} ELSE exempt
             /\ IF Connectible(t) THEN Adds(t) ELSE PassesOver(t)
  BY DEF TemplateNext, TakesFirst
<1>2. UNCHANGED pool /\ t \in vecPriority /\ t \in DOMAIN pool /\ TemplateTypeOK
  BY DEF TemplateNext, TakesFirst, First, TemplateInv, TemplateTypeOK
<1>3. fSortedByFee \in BOOLEAN /\ (~fSortedByFee => exempt = {})
  BY <1>2 DEF TemplateTypeOK
<1>4. /\ nBlockSize \in Nat /\ pool[t].size \in Nat /\ pool[t].fee \in Int /\ pool[t].priority \in Int
      /\ {nBlockMinSize, nBlockPrioritySize, nMinTxFee, HighPriority} \subseteq Int
  BY <1>2, TemplateTypes
<1>5. vecPriority' \subseteq DOMAIN pool /\ templateTxs' \in Seq(DOMAIN pool)
  <2>1. Adds(t) \/ PassesOver(t)
    BY <1>1
  <2>2. vecPriority \subseteq DOMAIN pool /\ Released(t) \subseteq DOMAIN pool
        /\ templateTxs \in Seq(DOMAIN pool)
    BY <1>2 DEF TemplateTypeOK, Released
  <2> QED
    BY <1>2, <2>1, <2>2, AddsCounts DEF Adds, PassesOver
<1>6. CASE ~Fits(t) \/ (fSortedByFee /\ IsFree(t))
  <2>1. PassesOver(t) /\ UNCHANGED <<fSortedByFee, exempt>>
    BY <1>1, <1>6
  <2>2. TemplateTypeOK'
    BY <1>2, <1>3, <1>5, <2>1 DEF TemplateTypeOK
  <2>3. ~Adds(t)
    <3>1. templateTxs' = templateTxs /\ templateTxs \in Seq(DOMAIN pool)
      BY <1>2, <2>1 DEF PassesOver, TemplateTypeOK
    <3> QED
      BY <3>1 DEF Adds
  <2>4. FreeForAReason'
    BY <1>2, <2>1, <2>3, FreeStays
  <2> QED
    BY <1>2, <1>6, <2>1, <2>2, <2>4, PassesOverKeeps
<1>7. CASE Fits(t) /\ ~(fSortedByFee /\ IsFree(t))
  <2>1. /\ fSortedByFee' = (fSortedByFee \/ ChangesOrder(t))
        /\ exempt' = IF ChangesOrder(t) THEN {t} ELSE exempt
        /\ IF Connectible(t) THEN Adds(t) ELSE PassesOver(t)
    BY <1>1, <1>7
  <2>2. ChangesOrder(t) \in BOOLEAN /\ (ChangesOrder(t) => ~fSortedByFee)
    BY DEF ChangesOrder
  <2>3. exempt \subseteq exempt'
    BY <1>3, <2>1, <2>2
  <2>4. TemplateTypeOK'
    BY <1>2, <1>3, <1>5, <2>1, <2>2 DEF TemplateTypeOK
  <2>5. \/ pool[t].fee >= nMinTxFee \/ t \in exempt' \/ nBlockSize + pool[t].size < nBlockMinSize
        \/ pool[t].priority >= HighPriority /\ nBlockSize + pool[t].size < nBlockPrioritySize
    <3>1. CASE fSortedByFee
      BY <1>4, <1>7, <3>1 DEF IsFree
    <3>2. CASE ~fSortedByFee
      BY <1>4, <2>1, <3>2 DEF ChangesOrder
    <3> QED
      BY <3>1, <3>2
  <2>6. FreeForAReason'
    BY <1>2, <2>1, <2>3, <2>5, FreeStays
  <2>7. CASE Connectible(t)
    BY <1>2, <1>7, <2>1, <2>4, <2>6, <2>7, AddsKeeps
  <2>8. CASE ~Connectible(t)
    BY <1>2, <2>1, <2>4, <2>6, <2>8, PassesOverKeeps
  <2> QED
    BY <2>7, <2>8
<1> QED
  BY <1>6, <1>7

LEMMA TemplateInvStutters ==
  ASSUME TemplateInv, UNCHANGED templateVars
  PROVE  TemplateInv'
BY DEF TemplateInv, TemplateTypeOK, WaitsForRest, QueuedAreReady, LeftForAReason, TemplateIsOrdered,
       FreeForAReason, templateVars, InBlock, Fits, IsFree, Connectible, nBlockSize, nBlockSigOps,
       TxSizes, TxSigOps

LEMMA TemplateInvImplies == TemplateInv => TemplateIsSound
<1> SUFFICES ASSUME TemplateInv PROVE TemplateIsSound
  OBVIOUS
<1>1. NothingIsForgotten
  BY DEF NothingIsForgotten, TemplateInv, LeftForAReason
<1> QED
  BY <1>1 DEF TemplateInv, TemplateIsSound

\* The template is within its limits, has parents before children and each once,
\* forgets nothing that could have gone in, and has free transactions only where
\* the rules put them (CreateNewBlock), for every pool and all limits.
THEOREM TemplateSound == TemplateSpec => []TemplateIsSound
<1>1. TemplateInit => TemplateInv
  BY TemplateInvInit
<1>2. TemplateInv /\ [TemplateNext]_templateVars => TemplateInv'
  BY TemplateInvNext, TemplateInvStutters
<1>3. TemplateInv => TemplateIsSound
  BY TemplateInvImplies
<1> QED
  BY <1>1, <1>2, <1>3, PTL DEF TemplateSpec
----------------------------------------------------------------------------
(* The checks of blocks and transactions that need no context. Amounts.     *)

\* A sum adds one value after another.
LEMMA SumSteps ==
  ASSUME NEW values \in Seq(Int)
  PROVE  \E h : /\ h[0] = 0 /\ h[Len(values)] = Sum(values)
                /\ \A k \in 0..Len(values) : h[k] \in Int
                /\ \A k \in 1..Len(values) : h[k] = h[k - 1] + values[k]
<1> DEFINE m == 0
           V == Int
           Q == Int
           s == values
           Op(v, p) == v + p
           n == Len(s)
           G == [i \in 1..n |-> [v \in V |-> Op(v, s[i])]]
           Sums(h, d) == IF d = {} THEN m ELSE Op(h[d \ {Max(d)}], s[Max(d)])
           iter == CHOOSE h : h = [d \in SUBSET (DOMAIN s) |-> Sums(h, d)]
<1>1. n \in Nat /\ DOMAIN s = 1..n /\ \A i \in 1..n : s[i] \in Q
  OBVIOUS
<1>2. m \in V /\ \A v \in V, p \in Q : Op(v, p) \in V
  OBVIOUS
<1>3. IsRule(G, 1..n, V)
  <2> HIDE DEF Op, n, s, V, Q
  <2> QED
    BY <1>1, <1>2 DEF IsRule
<1>4. PICK f \in [SUBSET (1..n) -> V] : IsFoldLeft(f, n, m, G)
  <2> HIDE DEF G, n, m, V
  <2> QED
    BY <1>1, <1>2, <1>3, FoldRecursion
<1>5. ASSUME NEW d \in SUBSET (1..n) PROVE f[d] = Sums(f, d)
  <2>1. CASE d # {}
    <3>1. Max(d) \in 1..n /\ d \ {Max(d)} \in SUBSET (1..n)
      <4> HIDE DEF n
      <4> QED
        BY <1>1, <2>1, MaxIs
    <3>2. f[d \ {Max(d)}] \in V
      BY <3>1
    <3>3. f[d] = G[Max(d)][f[d \ {Max(d)}]]
      <4> HIDE DEF G, n
      <4> QED
        BY <1>4, <2>1 DEF IsFoldLeft
    <3> HIDE DEF Op, n, s
    <3> QED
      BY <2>1, <3>1, <3>2, <3>3
  <2>2. CASE d = {}
    <3> HIDE DEF G, n
    <3> QED
      BY <1>4, <2>2 DEF IsFoldLeft
  <2> QED
    BY <2>1, <2>2
<1>6. iter = [d \in SUBSET (DOMAIN s) |-> Sums(iter, d)]
  <2>1. f = [d \in SUBSET (DOMAIN s) |-> Sums(f, d)]
    <3> HIDE DEF Sums, n, s
    <3> QED
      BY <1>1, <1>5
  <2> HIDE DEF Sums, s
  <2> QED
    BY <2>1
<1>7. \A d \in SUBSET (1..n) : iter[d] = Sums(iter, d)
  <2> HIDE DEF Sums, iter, n, s
  <2> QED
    BY <1>1, <1>6
<1>8. iter[1..0] = m
  <2>1. 1..0 \in SUBSET (1..n) /\ 1..0 = {}
    OBVIOUS
  <2>2. iter[1..0] = Sums(iter, 1..0)
    <3> HIDE DEF Sums, iter, n
    <3> QED
      BY <1>7, <2>1
  <2> HIDE DEF iter, Op
  <2> QED
    BY <2>1, <2>2
<1>9. ASSUME NEW k \in 1..n PROVE iter[1..k] = Op(iter[1..(k - 1)], s[k])
  <2>1. 1..k \in SUBSET (1..n) /\ Max(1..k) = k /\ (1..k) \ {k} = 1..(k - 1) /\ 1..k # {}
    <3> HIDE DEF n
    <3>1. n \in Nat
      BY <1>1
    <3>2. Max(1..k) = k /\ (1..k) \ {k} = 1..(k - 1) /\ 1..k # {}
      BY <3>1, MaxIs
    <3> QED
      BY <3>1, <3>2
  <2>2. iter[1..k] = Sums(iter, 1..k)
    <3> HIDE DEF Sums, iter, n
    <3> QED
      BY <1>7, <2>1
  <2> HIDE DEF iter, Op, n, s
  <2> QED
    BY <2>1, <2>2
<1>10. \A k \in 0..n : iter[1..k] \in V
  <2> HIDE DEF iter, n, s, Op, V, m, Q
  <2>1. iter[1..0] \in V
    BY <1>2, <1>8
  <2>2. ASSUME NEW k \in 1..n, iter[1..(k - 1)] \in V PROVE iter[1..k] \in V
    BY <1>1, <1>2, <1>9, <2>2
  <2> QED
    BY <1>1, <2>1, <2>2, FoldStays
<1>11. Sum(values) = iter[1..n]
  <2>1. Sum(values) = iter[DOMAIN s]
    BY DEF Sum, FoldLeft, MapThenFoldSet
  <2> HIDE DEF iter, n, s
  <2> QED
    BY <1>1, <2>1
<1> DEFINE h == [k \in 0..n |-> iter[1..k]]
<1>12. h[0] = m /\ h[n] = Sum(values) /\ \A k \in 0..n : h[k] \in V
  <2> HIDE DEF iter, n, s
  <2> QED
    BY <1>1, <1>8, <1>10, <1>11
<1>13. ASSUME NEW k \in 1..n PROVE h[k] = Op(h[k - 1], s[k])
  <2> HIDE DEF iter, n, s, Op
  <2>1. h[k] = iter[1..k] /\ h[k - 1] = iter[1..(k - 1)]
    BY <1>1
  <2> HIDE DEF h
  <2> QED
    BY <1>9, <2>1
<1> HIDE DEF h, iter
<1> QED
  BY <1>12, <1>13

\* An amount added to a total is a number.
LEMMA AddsType ==
  ASSUME NEW total \in Int, NEW n \in Int
  PROVE  AddsAmount(total, n) \in Int
<1> DEFINE half == 2 ^ (MoneyWidth - 1)
           sum == total + n
<1>1. half \in Nat /\ half > 0 /\ sum \in Int
  BY CheckAssumption
<1>2. Int64(sum) \in Int
  <2>1. Int64(sum) = ((sum + half) % (2 * half)) - half
    BY DEF Int64
  <2> HIDE DEF half, sum
  <2> QED
    BY <1>1, <2>1
<1> QED
  BY <1>2 DEF AddsAmount

\* So does a total, which looks at every step.
LEMMA TotalSteps ==
  ASSUME NEW values \in Seq(Int)
  PROVE  \E h : /\ h[0] = 0 /\ h[Len(values)] = TotalValue(values)
                /\ \A k \in 0..Len(values) : h[k] \in Int
                /\ \A k \in 1..Len(values) : h[k] = AddsAmount(h[k - 1], values[k])
<1> DEFINE m == 0
           V == Int
           Q == Int
           s == values
           Op(v, p) == AddsAmount(v, p)
           n == Len(s)
           G == [i \in 1..n |-> [v \in V |-> Op(v, s[i])]]
           Sums(h, d) == IF d = {} THEN m ELSE Op(h[d \ {Max(d)}], s[Max(d)])
           iter == CHOOSE h : h = [d \in SUBSET (DOMAIN s) |-> Sums(h, d)]
<1>1. n \in Nat /\ DOMAIN s = 1..n /\ \A i \in 1..n : s[i] \in Q
  OBVIOUS
<1>2. m \in V /\ \A v \in V, p \in Q : Op(v, p) \in V
  BY AddsType
<1>3. IsRule(G, 1..n, V)
  <2> HIDE DEF Op, n, s, V, Q
  <2> QED
    BY <1>1, <1>2 DEF IsRule
<1>4. PICK f \in [SUBSET (1..n) -> V] : IsFoldLeft(f, n, m, G)
  <2> HIDE DEF G, n, m, V
  <2> QED
    BY <1>1, <1>2, <1>3, FoldRecursion
<1>5. ASSUME NEW d \in SUBSET (1..n) PROVE f[d] = Sums(f, d)
  <2>1. CASE d # {}
    <3>1. Max(d) \in 1..n /\ d \ {Max(d)} \in SUBSET (1..n)
      <4> HIDE DEF n
      <4> QED
        BY <1>1, <2>1, MaxIs
    <3>2. f[d \ {Max(d)}] \in V
      BY <3>1
    <3>3. f[d] = G[Max(d)][f[d \ {Max(d)}]]
      <4> HIDE DEF G, n
      <4> QED
        BY <1>4, <2>1 DEF IsFoldLeft
    <3> HIDE DEF Op, n, s
    <3> QED
      BY <2>1, <3>1, <3>2, <3>3
  <2>2. CASE d = {}
    <3> HIDE DEF G, n
    <3> QED
      BY <1>4, <2>2 DEF IsFoldLeft
  <2> QED
    BY <2>1, <2>2
<1>6. iter = [d \in SUBSET (DOMAIN s) |-> Sums(iter, d)]
  <2>1. f = [d \in SUBSET (DOMAIN s) |-> Sums(f, d)]
    <3> HIDE DEF Sums, n, s
    <3> QED
      BY <1>1, <1>5
  <2> HIDE DEF Sums, s
  <2> QED
    BY <2>1
<1>7. \A d \in SUBSET (1..n) : iter[d] = Sums(iter, d)
  <2> HIDE DEF Sums, iter, n, s
  <2> QED
    BY <1>1, <1>6
<1>8. iter[1..0] = m
  <2>1. 1..0 \in SUBSET (1..n) /\ 1..0 = {}
    OBVIOUS
  <2>2. iter[1..0] = Sums(iter, 1..0)
    <3> HIDE DEF Sums, iter, n
    <3> QED
      BY <1>7, <2>1
  <2> HIDE DEF iter, Op
  <2> QED
    BY <2>1, <2>2
<1>9. ASSUME NEW k \in 1..n PROVE iter[1..k] = Op(iter[1..(k - 1)], s[k])
  <2>1. 1..k \in SUBSET (1..n) /\ Max(1..k) = k /\ (1..k) \ {k} = 1..(k - 1) /\ 1..k # {}
    <3> HIDE DEF n
    <3>1. n \in Nat
      BY <1>1
    <3>2. Max(1..k) = k /\ (1..k) \ {k} = 1..(k - 1) /\ 1..k # {}
      BY <3>1, MaxIs
    <3> QED
      BY <3>1, <3>2
  <2>2. iter[1..k] = Sums(iter, 1..k)
    <3> HIDE DEF Sums, iter, n
    <3> QED
      BY <1>7, <2>1
  <2> HIDE DEF iter, Op, n, s
  <2> QED
    BY <2>1, <2>2
<1>10. \A k \in 0..n : iter[1..k] \in V
  <2> HIDE DEF iter, n, s, Op, V, m, Q
  <2>1. iter[1..0] \in V
    BY <1>2, <1>8
  <2>2. ASSUME NEW k \in 1..n, iter[1..(k - 1)] \in V PROVE iter[1..k] \in V
    BY <1>1, <1>2, <1>9, <2>2
  <2> QED
    BY <1>1, <2>1, <2>2, FoldStays
<1>11. TotalValue(values) = iter[1..n]
  <2>1. TotalValue(values) = iter[DOMAIN s]
    BY DEF TotalValue, FoldLeft, MapThenFoldSet
  <2> HIDE DEF iter, n, s
  <2> QED
    BY <1>1, <2>1
<1> DEFINE h == [k \in 0..n |-> iter[1..k]]
<1>12. h[0] = m /\ h[n] = TotalValue(values) /\ \A k \in 0..n : h[k] \in V
  <2> HIDE DEF iter, n, s
  <2> QED
    BY <1>1, <1>8, <1>10, <1>11
<1>13. ASSUME NEW k \in 1..n PROVE h[k] = Op(h[k - 1], s[k])
  <2> HIDE DEF iter, n, s, Op
  <2>1. h[k] = iter[1..k] /\ h[k - 1] = iter[1..(k - 1)]
    BY <1>1
  <2> HIDE DEF h
  <2> QED
    BY <1>9, <2>1
<1> HIDE DEF h, iter
<1> QED
  BY <1>12, <1>13

\* Within the range nothing wraps around.
LEMMA SmallIsExact ==
  ASSUME NEW n \in 0..(2 * MAX_MONEY)
  PROVE  Int64(n) = n
<1> DEFINE half == 2 ^ (MoneyWidth - 1)
<1>1. half \in Nat /\ half > 0 /\ n \in Nat /\ n < half
  BY CheckAssumption
<1>2. Int64(n) = ((n + half) % (2 * half)) - half
  BY DEF Int64
<1> HIDE DEF half
<1> QED
  BY <1>1, <1>2

\* A total that is not refused is the true sum.
LEMMA TotalIsSum ==
  ASSUME NEW values \in Seq(Int), TotalValue(values) # -1
  PROVE  TotalValue(values) = Sum(values) /\ Sum(values) \in 0..MAX_MONEY
<1> DEFINE n == Len(values)
           zero == 0
<1>0. n \in Nat /\ MAX_MONEY \in Nat /\ \A k \in 1..n : values[k] \in Int
  BY CheckAssumption
<1>1. PICK s : /\ s[0] = 0 /\ s[n] = Sum(values)
               /\ \A k \in 0..n : s[k] \in Int
               /\ \A k \in 1..n : s[k] = s[k - 1] + values[k]
  BY SumSteps
<1>2. PICK t : /\ t[0] = 0 /\ t[n] = TotalValue(values)
               /\ \A k \in 0..n : t[k] \in Int
               /\ \A k \in 1..n : t[k] = AddsAmount(t[k - 1], values[k])
  BY TotalSteps
<1> DEFINE S == {k \in 0..n : t[k] # -1 => t[k] = s[k] /\ s[k] \in 0..MAX_MONEY}
<1> HIDE DEF n
<1>3. zero \in S
  BY <1>0, <1>1, <1>2
<1>4. ASSUME NEW k \in 1..n, k - 1 \in S PROVE k \in S
  <2> SUFFICES ASSUME t[k] # -1 PROVE t[k] = s[k] /\ s[k] \in 0..MAX_MONEY
    BY <1>0
  <2> DEFINE a == t[k - 1]
             v == values[k]
  <2>1. k - 1 \in 0..n /\ k \in 0..n /\ a \in Int /\ v \in Int /\ MAX_MONEY \in Nat
    BY <1>0, <1>2
  <2>2. t[k] = AddsAmount(a, v) /\ s[k] = s[k - 1] + v
    BY <1>1, <1>2
  <2>3. a # -1 => a = s[k - 1] /\ s[k - 1] \in 0..MAX_MONEY
    BY <1>4
  <2> HIDE DEF a, v, S
  <2>4. a # -1 /\ MoneyRange(v) /\ MoneyRange(Int64(a + v)) /\ t[k] = Int64(a + v)
    BY <2>2 DEF AddsAmount
  <2>5. a = s[k - 1] /\ a + v \in 0..(2 * MAX_MONEY)
    BY <2>1, <2>3, <2>4 DEF MoneyRange
  <2>6. Int64(a + v) = a + v
    BY <2>5, SmallIsExact
  <2> QED
    BY <2>1, <2>2, <2>4, <2>5, <2>6 DEF MoneyRange
<1> HIDE DEF S, zero
<1>5. 0..n \subseteq S
  <2>1. \A k \in 1..n : k - 1 \in S => k \in S
    BY <1>4
  <2>2. 0 \in S
    BY <1>3 DEF zero
  <2> QED
    BY <1>0, <2>1, <2>2, CountInduction
<1>6. n \in S
  BY <1>0, <1>5
<1> QED
  BY <1>1, <1>2, <1>6 DEF S

\* The sum of what a checked transaction pays out and the fee it leaves are the
\* true ones, whatever the amounts (CheckTransaction, GetValueIn, ConnectInputs).
THEOREM AmountsStayReal ==
  ASSUME NEW Input, NEW tx, tx.vin \in Seq(Input), tx.vout \in Seq(Int),
         NEW valueOf, \A c \in Input \ {"null"} : valueOf[c] \in Int
  PROVE  AmountsAreReal(tx, valueOf)
<1> SUFFICES ASSUME CheckTransaction(tx)
             PROVE  /\ Sum(tx.vout) \in 0..MAX_MONEY
                    /\ ~IsCoinBase(tx) /\ TxFee(tx, valueOf) # -1 =>
                         /\ Sum([i \in DOMAIN tx.vin |-> valueOf[tx.vin[i]]])
                              = Sum(tx.vout) + TxFee(tx, valueOf)
                         /\ TxFee(tx, valueOf) \in 0..MAX_MONEY
  BY DEF AmountsAreReal
<1> DEFINE out == TotalValue(tx.vout)
           takes == [i \in DOMAIN tx.vin |-> valueOf[tx.vin[i]]]
           in == TotalValue(takes)
<1>1. out = Sum(tx.vout) /\ out \in 0..MAX_MONEY
  <2>1. out # -1
    BY DEF CheckTransaction
  <2> QED
    BY <2>1, TotalIsSum
<1>2. ASSUME ~IsCoinBase(tx), TxFee(tx, valueOf) # -1
      PROVE  Sum(takes) = Sum(tx.vout) + TxFee(tx, valueOf) /\ TxFee(tx, valueOf) \in 0..MAX_MONEY
  <2>1. takes \in Seq(Int)
    <3> DEFINE ins == tx.vin
               n == Len(ins)
    <3>1. n \in Nat /\ DOMAIN ins = 1..n /\ \A i \in 1..n : ins[i] \in Input
      OBVIOUS
    <3>2. "null" \notin Range(ins)
      BY <1>2, Zenon DEF CheckTransaction
    <3>3. \A i \in 1..n : ins[i] # "null"
      BY <3>1, <3>2, Zenon DEF Range
    <3> HIDE DEF ins, n
    <3>4. takes = [i \in 1..n |-> valueOf[ins[i]]]
      BY <3>1 DEF ins
    <3> HIDE DEF takes
    <3>5. \A i \in 1..n : valueOf[ins[i]] \in Int
      BY <3>1, <3>3
    <3> QED
      BY <3>1, <3>4, <3>5
  <2>2. in = GetValueIn(tx, valueOf)
    BY Zenon DEF GetValueIn
  <2> HIDE DEF takes, in, out
  <2>3. in # -1 /\ MoneyRange(in - out) /\ TxFee(tx, valueOf) = in - out
    BY <1>2, <2>2 DEF TxFee, out
  <2>4. in = Sum(takes) /\ in \in 0..MAX_MONEY
    BY <2>1, <2>3, TotalIsSum DEF in
  <2>5. MAX_MONEY \in Nat
    BY CheckAssumption
  <2>6. TxFee(tx, valueOf) \in 0..MAX_MONEY
    BY <1>1, <2>3, <2>4, <2>5 DEF MoneyRange
  <2>7. Sum(takes) = Sum(tx.vout) + TxFee(tx, valueOf)
    BY <1>1, <2>3, <2>4
  <2> QED
    BY <2>6, <2>7
<1> HIDE DEF takes, out
<1> QED
  BY <1>1, <1>2 DEF takes

----------------------------------------------------------------------------
(* Fees.                                                                    *)

\* The fee before it is raised for the size of the block.
BaseFee(nBytes, outs, n, fAllowFree, nBaseFee) ==
  LET free == fAllowFree /\ IF n = 1 THEN nBytes < FreeTxSize ELSE n + nBytes < FreeBlockSize
      sized == IF free THEN 0 ELSE (1 + nBytes \div KiloByte) * nBaseFee
      dusty == sized < nBaseFee /\ \E i \in DOMAIN outs : outs[i] < CENT
  IN  IF dusty THEN nBaseFee ELSE sized

\* The fee by size alone is at least the base fee.
LEMMA SizedFee ==
  ASSUME NEW nBytes \in Nat, NEW nBaseFee \in Nat
  PROVE  LET sized == (1 + nBytes \div KiloByte) * nBaseFee IN sized \in Nat /\ sized >= nBaseFee
<1> DEFINE k == nBytes \div KiloByte
<1>1. k \in Nat
  BY CheckAssumption
<1> HIDE DEF k
<1>2. k * nBaseFee \in Nat /\ (1 + k) * nBaseFee = nBaseFee + k * nBaseFee
  BY <1>1
<1>3. (1 + k) * nBaseFee \in Nat /\ (1 + k) * nBaseFee >= nBaseFee
  BY <1>2
<1> QED
  BY <1>3 DEF k

\* It does not fall as the block grows: a free transaction may stop being one.
LEMMA BaseFeeRises ==
  ASSUME NEW nBytes \in Nat, NEW outs, NEW fAllowFree \in BOOLEAN, NEW nBaseFee \in Nat,
         NEW n \in Nat, NEW m \in Nat, n # 1, m # 1, n <= m
  PROVE  /\ BaseFee(nBytes, outs, n, fAllowFree, nBaseFee) \in Nat
         /\ BaseFee(nBytes, outs, n, fAllowFree, nBaseFee)
              <= BaseFee(nBytes, outs, m, fAllowFree, nBaseFee)
<1> DEFINE sized == (1 + nBytes \div KiloByte) * nBaseFee
           dust == \E i \in DOMAIN outs : outs[i] < CENT
           Fee(j) == BaseFee(nBytes, outs, j, fAllowFree, nBaseFee)
           Free(j) == fAllowFree /\ j + nBytes < FreeBlockSize
<1>1. sized \in Nat /\ sized >= nBaseFee
  BY SizedFee
<1>2. ASSUME NEW j \in {n, m}
      PROVE  Fee(j) = IF Free(j) THEN (IF 0 < nBaseFee /\ dust THEN nBaseFee ELSE 0) ELSE sized
  <2>1. CASE Free(j)
    <3>1. j # 1
      OBVIOUS
    <3> HIDE DEF dust, sized
    <3> QED
      BY <2>1, <3>1 DEF BaseFee, dust
  <2>2. CASE ~Free(j)
    <3>1. j # 1
      OBVIOUS
    <3>2. ~(sized < nBaseFee)
      BY <1>1
    <3> HIDE DEF dust
    <3> QED
      BY <2>2, <3>1, <3>2 DEF BaseFee, dust
  <2> QED
    BY <2>1, <2>2
<1>3. Free(m) => Free(n)
  BY CheckAssumption
<1> HIDE DEF sized, dust, Fee, Free
<1>4. Fee(n) \in Nat /\ Fee(n) <= Fee(m)
  BY <1>1, <1>2, <1>3
<1> QED
  BY <1>4 DEF Fee

\* What a fee is raised by grows with the block.
LEMMA RaisedRises ==
  ASSUME NEW p \in Nat, NEW q \in Nat, p <= q, NEW a \in Nat, NEW b \in Nat, a <= b,
         NEW n, NEW m, n # 1, m # 1
  PROVE  /\ Raised(p, n, a) \in Nat /\ Raised(q, m, b) \in Nat
         /\ Raised(p, n, a) <= Raised(q, m, b) \/ Raised(q, m, b) = MAX_MONEY
<1> DEFINE M == MAX_BLOCK_SIZE_GEN
           half == M \div 2
           fa == M \div (M - a)
           fb == M \div (M - b)
<1>0. M \in Nat \ {0} /\ MAX_MONEY \in Nat /\ half \in Nat
  BY CheckAssumption
<1>1. ASSUME a < M PROVE fa \in Nat /\ fa >= 1
  BY <1>0, <1>1
<1>2. ASSUME b < M PROVE fb \in Nat /\ fb >= 1 /\ fa \in Nat /\ fa >= 1 /\ fa <= fb
  BY <1>0, <1>2
<1>3. Raised(p, n, a) = IF a < half THEN p ELSE IF a >= M THEN MAX_MONEY ELSE p * fa
  BY DEF Raised
<1>4. Raised(q, m, b) = IF b < half THEN q ELSE IF b >= M THEN MAX_MONEY ELSE q * fb
  BY DEF Raised
<1> HIDE DEF M, half, fa, fb
<1>5. a < M => p * fa \in Nat /\ p * fa >= p
  BY <1>1
<1>6. b < M => q * fb \in Nat /\ q * fb >= q
  BY <1>2
<1>7. b < M => p * fa <= q * fb
  <2> SUFFICES ASSUME b < M PROVE p * fa <= q * fb
    OBVIOUS
  <2>1. p * fa <= p * fb /\ p * fb <= q * fb
    BY <1>2
  <2> QED
    BY <1>2, <2>1
<1> DEFINE x == p * fa
           y == q * fb
           ra == Raised(p, n, a)
           rb == Raised(q, m, b)
<1>8. /\ ra = IF a < half THEN p ELSE IF a >= M THEN MAX_MONEY ELSE x
      /\ rb = IF b < half THEN q ELSE IF b >= M THEN MAX_MONEY ELSE y
      /\ a < M => x \in Nat /\ x >= p
      /\ b < M => y \in Nat /\ y >= q
      /\ b < M => x <= y
  BY <1>3, <1>4, <1>5, <1>6, <1>7
<1> HIDE DEF x, y, ra, rb
<1>9. ra \in Nat /\ rb \in Nat
  BY <1>0, <1>8
<1>10. ra <= rb \/ rb = MAX_MONEY
  <2>1. CASE b >= M /\ b >= half
    <3>1. ~(b < half) /\ b >= M
      BY <1>0, <2>1
    <3> QED
      BY <1>8, <3>1
  <2>2. CASE b < half
    <3>1. a < half
      BY <1>0, <2>2
    <3> QED
      BY <1>8, <2>2, <3>1
  <2>3. CASE b < M /\ b >= half
    <3>1. rb = y /\ y \in Nat /\ y >= q /\ x <= y /\ a < M
      BY <1>0, <1>8, <2>3
    <3>2. CASE a < half
      <4>1. ra = p
        BY <1>8, <3>2
      <4> QED
        BY <3>1, <4>1
    <3>3. CASE ~(a < half)
      <4>1. ra = x
        BY <1>0, <1>8, <3>1, <3>3
      <4> QED
        BY <3>1, <4>1
    <3> QED
      BY <3>2, <3>3
  <2> QED
    BY <1>0, <2>1, <2>2, <2>3
<1> QED
  BY <1>9, <1>10 DEF ra, rb

\* A fee is an amount, and does not fall as a block fills up (GetMinFee).
THEOREM FeesRise ==
  ASSUME NEW nBytes \in Nat, NEW outs, NEW nSize \in Nat,
         NEW fAllowFree \in BOOLEAN, NEW nBaseFee \in Nat
  PROVE  FeeRises(nBytes, outs, nSize, fAllowFree, nBaseFee)
<1> DEFINE Fee(n) == GetMinFee(nBytes, outs, n, fAllowFree, nBaseFee)
           Base(n) == BaseFee(nBytes, outs, n, fAllowFree, nBaseFee)
           Up(n) == Raised(Base(n), n, n + nBytes)
<1>1. MAX_MONEY \in Nat
  BY CheckAssumption
<1>2. ASSUME NEW n \in Nat PROVE Fee(n) = IF MoneyRange(Up(n)) THEN Up(n) ELSE MAX_MONEY
  BY Zenon DEF GetMinFee, BaseFee
<1>3. MoneyRange(Fee(nSize))
  <2>1. MoneyRange(MAX_MONEY)
    BY <1>1 DEF MoneyRange
  <2> HIDE DEF Fee, Up
  <2> QED
    BY <1>2, <2>1
<1>4. ASSUME NEW n \in 2..(nSize - 1) PROVE Fee(n) <= Fee(nSize)
  <2>1. n \in Nat /\ n # 1 /\ nSize # 1 /\ n <= nSize
        /\ n + nBytes \in Nat /\ nSize + nBytes \in Nat /\ n + nBytes <= nSize + nBytes
    OBVIOUS
  <2>2. Base(n) \in Nat /\ Base(n) <= Base(nSize)
    BY <2>1, BaseFeeRises
  <2>3. Base(nSize) \in Nat
    BY <2>1, BaseFeeRises
  <2> HIDE DEF Base
  <2>4. Up(n) <= Up(nSize) \/ Up(nSize) = MAX_MONEY
    BY <2>1, <2>2, <2>3, RaisedRises
  <2>5. Up(n) \in Nat /\ Up(nSize) \in Nat
    BY <2>1, <2>2, <2>3, RaisedRises
  <2> HIDE DEF Up, Fee
  <2> QED
    BY <1>1, <1>2, <2>1, <2>4, <2>5 DEF MoneyRange
<1> HIDE DEF Fee
<1> QED
  BY <1>3, <1>4 DEF FeeRises, Fee

----------------------------------------------------------------------------
(* Merkle trees.                                                            *)

IsSeq(s) == \E S : s \in Seq(S)

\* Levels one above the other, from the leaves up; only the last may be a single
\* entry.
IsTree(L, leaves) ==
  /\ IsSeq(L) /\ L # <<>> /\ L[1] = leaves
  /\ \A n \in 1..Len(L) : IsSeq(L[n]) /\ Len(L[n]) >= 1
  /\ \A n \in 1..(Len(L) - 1) : Len(L[n]) >= 2 /\ L[n + 1] = NextLevel(L[n])

\* The next level has half as many entries.
LEMMA NextLevelIs ==
  ASSUME NEW S, NEW s \in Seq(S), Len(s) >= 1
  PROVE  /\ NextLevel(s) \in Seq([left: S, right: S])
         /\ Len(NextLevel(s)) = (Len(s) + 1) \div 2
         /\ \A i \in 1..((Len(s) + 1) \div 2) :
              /\ 2 * i - 1 \in 1..Len(s) /\ Least(2 * i, Len(s)) \in 1..Len(s)
              /\ NextLevel(s)[i] = Hash(s[2 * i - 1], s[Least(2 * i, Len(s))])
<1> DEFINE n == Len(s)
           h == (n + 1) \div 2
           V == [left: S, right: S]
           e(i) == Hash(s[2 * i - 1], s[Least(2 * i, n)])
<1>1. n \in Nat /\ n >= 1 /\ h \in Nat /\ \A i \in 1..n : s[i] \in S
  OBVIOUS
<1>2. ASSUME NEW i \in 1..h
      PROVE  2 * i - 1 \in 1..n /\ Least(2 * i, n) \in 1..n
  <2> HIDE DEF n
  <2>1. 2 * i - 1 \in 1..n
    BY <1>1
  <2>2. 2 * i \in Nat /\ 2 * i >= 1
    BY <1>1
  <2> QED
    BY <1>1, <2>1, <2>2 DEF Least
<1>3. \A i \in 1..h : e(i) \in V
  <2> SUFFICES ASSUME NEW i \in 1..h PROVE e(i) \in V
    OBVIOUS
  <2> DEFINE a == 2 * i - 1
             b == Least(2 * i, n)
  <2>1. s[a] \in S /\ s[b] \in S
    <3> HIDE DEF a, b, n, h
    <3> QED
      BY <1>1, <1>2 DEF a, b
  <2> HIDE DEF a, b
  <2> QED
    BY <2>1 DEF Hash, a, b
<1>4. NextLevel(s) = [i \in 1..h |-> e(i)]
  BY DEF NextLevel
<1> HIDE DEF h, e, V, n
<1>5. NextLevel(s) \in Seq(V) /\ Len(NextLevel(s)) = h /\ \A i \in 1..h : NextLevel(s)[i] = e(i)
  BY <1>1, <1>3, <1>4
<1> QED
  BY <1>2, <1>5 DEF h, e, V, n

\* A sequence with one entry more.
LEMMA SeqAppends ==
  ASSUME NEW L, IsSeq(L), NEW x
  PROVE  /\ IsSeq(Append(L, x)) /\ Len(Append(L, x)) = Len(L) + 1 /\ Len(L) \in Nat
         /\ Append(L, x)[Len(L) + 1] = x
         /\ \A i \in 1..Len(L) : Append(L, x)[i] = L[i]
<1>1. PICK S : L \in Seq(S)
  BY DEF IsSeq
<1> DEFINE T == S \cup {x}
<1>2. \A i \in 1..Len(L) : L[i] \in T
  BY <1>1
<1>3. L \in Seq(T) /\ x \in T
  BY <1>1, <1>2
<1>4. Append(L, x) \in Seq(T) /\ Len(Append(L, x)) = Len(L) + 1
  <2> HIDE DEF T
  <2> QED
    BY <1>3
<1>5. IsSeq(Append(L, x))
  BY <1>4 DEF IsSeq
<1> HIDE DEF T
<1> QED
  BY <1>3, <1>4, <1>5

\* One step of BuildMerkleTree's loop.
Grow(below) == IF Len(Last(below)) <= 1 THEN below ELSE Append(below, NextLevel(Last(below)))

\* Adding a level to a tree keeps it one, and narrows it unless it is whole.
LEMMA TreeGrows ==
  ASSUME NEW leaves, NEW L, IsTree(L, leaves)
  PROVE  /\ IsTree(Grow(L), leaves)
         /\ Len(Last(L)) \in Nat /\ Len(Last(Grow(L))) \in Nat /\ Len(Last(Grow(L))) >= 1
         /\ Len(Last(L)) > 1 => Len(Last(Grow(L))) < Len(Last(L))
         /\ Len(Last(L)) <= 1 => Len(Last(Grow(L))) = Len(Last(L))
<1> DEFINE d == Len(L)
           s == L[d]
           t == NextLevel(s)
           M == Append(L, t)
<1>1. d \in Nat /\ d >= 1 /\ Last(L) = s
  <2>1. PICK S : L \in Seq(S)
    BY DEF IsTree, IsSeq
  <2> QED
    BY <2>1 DEF Last, IsTree
<1>2. IsSeq(s) /\ Len(s) >= 1
  BY <1>1 DEF IsTree
<1>3. PICK S : s \in Seq(S)
  BY <1>2 DEF IsSeq
<1>4. Len(s) \in Nat
  BY <1>3
<1>5. CASE Len(s) <= 1
  <2>1. Grow(L) = L
    BY <1>1, <1>5 DEF Grow
  <2> HIDE DEF s
  <2> QED
    BY <1>1, <1>2, <1>4, <1>5, <2>1
<1>6. CASE Len(s) > 1
  <2>1. Grow(L) = M
    <3> HIDE DEF s, d
    <3>1. ~(Len(Last(L)) <= 1)
      BY <1>1, <1>4, <1>6
    <3> QED
      BY <1>1, <3>1 DEF Grow
  <2>2. IsSeq(t) /\ Len(t) \in Nat /\ Len(t) >= 1 /\ Len(t) < Len(s)
    <3>1. t \in Seq([left: S, right: S]) /\ Len(t) = (Len(s) + 1) \div 2
      <4> HIDE DEF s
      <4> QED
        BY <1>2, <1>3, NextLevelIs
    <3> HIDE DEF s, t
    <3>2. IsSeq(t)
      BY <3>1 DEF IsSeq
    <3> QED
      BY <1>4, <1>6, <3>1, <3>2
  <2>3. /\ IsSeq(M) /\ Len(M) = d + 1 /\ M[d + 1] = t /\ \A i \in 1..d : M[i] = L[i]
    <3> HIDE DEF t
    <3>1. IsSeq(L)
      BY DEF IsTree
    <3> QED
      BY <3>1, SeqAppends
  <2> HIDE DEF M, t
  <2>4. M # <<>> /\ M[1] = leaves
    BY <1>1, <2>3 DEF IsTree
  <2>5. \A n \in 1..Len(M) : IsSeq(M[n]) /\ Len(M[n]) >= 1
    <3>1. \A n \in 1..d : IsSeq(L[n]) /\ Len(L[n]) >= 1
      BY DEF IsTree
    <3> HIDE DEF d, s
    <3> QED
      BY <1>1, <2>2, <2>3, <3>1
  <2>6. \A n \in 1..(Len(M) - 1) : Len(M[n]) >= 2 /\ M[n + 1] = NextLevel(M[n])
    <3>1. \A n \in 1..(d - 1) : Len(L[n]) >= 2 /\ L[n + 1] = NextLevel(L[n])
      BY DEF IsTree
    <3>2. Len(L[d]) >= 2 /\ M[d + 1] = NextLevel(L[d])
      BY <1>4, <1>6, <2>3 DEF t
    <3> HIDE DEF d, s
    <3> SUFFICES ASSUME NEW n \in 1..(Len(M) - 1) PROVE Len(M[n]) >= 2 /\ M[n + 1] = NextLevel(M[n])
      OBVIOUS
    <3>3. CASE n = d
      BY <1>1, <2>3, <3>2, <3>3
    <3>4. CASE n # d
      <4>1. n \in 1..(d - 1) /\ n + 1 \in 1..d /\ n \in 1..d
        BY <1>1, <2>3, <3>4
      <4>2. M[n + 1] = L[n + 1] /\ M[n] = L[n]
        BY <2>3, <4>1
      <4> QED
        BY <3>1, <4>1, <4>2
    <3> QED
      BY <3>3, <3>4
  <2>7. IsTree(M, leaves)
    BY <2>3, <2>4, <2>5, <2>6 DEF IsTree
  <2>8. Last(M) = t
    BY <2>3 DEF Last
  <2> HIDE DEF s, d
  <2> QED
    BY <1>1, <1>4, <1>6, <2>1, <2>2, <2>7, <2>8
<1> HIDE DEF s, d, t, M
<1> QED
  BY <1>4, <1>5, <1>6
\* Growing level by level, step by step: a rule of a recursive function has one.
LEMMA GrowingExists ==
  ASSUME NEW leaves, NEW n \in Nat
  PROVE  \E f : f = [k \in 0..n |-> IF k = 0 THEN <<leaves>> ELSE Grow(f[k - 1])]
<1> DEFINE Rule(f, k) == IF k = 0 THEN <<leaves>> ELSE Grow(f[k - 1])
           S == {m \in 0..n : \E f : \A k \in 0..m : f[k] = Rule(f, k)}
           zero == 0
<1>1. zero \in S
  <2> DEFINE f == [k \in {0} |-> <<leaves>>]
  <2>1. \A k \in 0..0 : f[k] = Rule(f, k)
    OBVIOUS
  <2> HIDE DEF f, Rule
  <2> QED
    BY <2>1
<1>2. ASSUME NEW m \in 1..n, m - 1 \in S PROVE m \in S
  <2>1. PICK f : \A k \in 0..(m - 1) : f[k] = Rule(f, k)
    BY <1>2
  <2> DEFINE g == [k \in 0..m |-> IF k = m THEN Grow(f[m - 1]) ELSE f[k]]
  <2>2. \A k \in 0..m : g[k] = Rule(g, k)
    <3> SUFFICES ASSUME NEW k \in 0..m PROVE g[k] = Rule(g, k)
      OBVIOUS
    <3>1. CASE k = m
      BY <3>1
    <3>2. CASE k = 0
      BY <2>1, <3>2
    <3>3. CASE k # m /\ k # 0
      <4>1. k \in 0..(m - 1) /\ k - 1 \in 0..m /\ k - 1 # m
        BY <3>3
      <4> QED
        BY <2>1, <3>3, <4>1
    <3> QED
      BY <3>1, <3>2, <3>3
  <2> HIDE DEF g, Rule
  <2> QED
    BY <2>2
<1> HIDE DEF S, zero, Rule
<1>3. 0..n \subseteq S
  <2>1. \A m \in 1..n : m - 1 \in S => m \in S
    BY <1>2
  <2>2. 0 \in S
    BY <1>1 DEF zero
  <2> QED
    BY <2>1, <2>2, CountInduction
<1>4. PICK f : \A k \in 0..n : f[k] = Rule(f, k)
  BY <1>3 DEF S
<1> DEFINE g == [k \in 0..n |-> f[k]]
<1>5. \A k \in 0..n : f[k] = Rule(g, k)
  BY <1>4 DEF Rule
<1>6. g = [k \in 0..n |-> Rule(g, k)]
  <2> HIDE DEF Rule
  <2> QED
    BY <1>5
<1> HIDE DEF g
<1> QED
  BY <1>6 DEF Rule

\* The levels of a block's transactions are a tree that ends in one entry.
LEMMA LevelsAre ==
  ASSUME NEW T, NEW leaves \in Seq(T), leaves # <<>>
  PROVE  IsTree(Levels(leaves), leaves) /\ Len(Last(Levels(leaves))) = 1
<1> DEFINE n == Len(leaves)
           levels == CHOOSE f : f = [k \in 0..n |-> IF k = 0 THEN <<leaves>> ELSE Grow(f[k - 1])]
           zero == 0
<1>1. n \in Nat /\ n >= 1
  OBVIOUS
<1>2. levels = [k \in 0..n |-> IF k = 0 THEN <<leaves>> ELSE Grow(levels[k - 1])]
  <2> HIDE DEF n
  <2> QED
    BY <1>1, GrowingExists
<1>3. Levels(leaves) = levels[n]
  BY Zenon DEF Levels, Grow
<1> HIDE DEF levels, n
<1>4. levels[0] = <<leaves>> /\ \A k \in 1..n : levels[k] = Grow(levels[k - 1])
  <2>1. levels[0] = <<leaves>>
    BY <1>1, <1>2
  <2>2. ASSUME NEW k \in 1..n PROVE levels[k] = Grow(levels[k - 1])
    <3>1. k \in 0..n /\ k # 0
      BY <1>1
    <3> QED
      BY <1>2, <3>1
  <2> QED
    BY <2>1, <2>2
<1> DEFINE Width(k) == Len(Last(levels[k]))
           S == {k \in 0..n : /\ IsTree(levels[k], leaves) /\ Width(k) \in Nat /\ Width(k) >= 1
                              /\ Width(k) = 1 \/ Width(k) <= n - k}
<1>5. zero \in S
  <2>1. <<leaves>> \in Seq({leaves}) /\ Len(<<leaves>>) = 1 /\ <<leaves>>[1] = leaves
    OBVIOUS
  <2>2. IsTree(<<leaves>>, leaves)
    <3>1. IsSeq(<<leaves>>) /\ IsSeq(leaves)
      BY <2>1 DEF IsSeq
    <3>2. <<leaves>> # <<>>
      OBVIOUS
    <3> QED
      BY <1>1, <2>1, <3>1, <3>2 DEF IsTree, n
  <2>3. Last(<<leaves>>) = leaves
    BY <2>1 DEF Last
  <2>4. levels[0] = <<leaves>> /\ Width(0) = n
    BY <1>4, <2>3 DEF n
  <2> HIDE DEF Width
  <2>5. 0 \in 0..n /\ n - 0 = n
    BY <1>1
  <2>6. IsTree(levels[0], leaves) /\ Width(0) \in Nat /\ Width(0) >= 1 /\ Width(0) <= n - 0
    BY <1>1, <2>2, <2>4, <2>5
  <2> QED
    BY <2>5, <2>6
<1>6. ASSUME NEW k \in 1..n, k - 1 \in S PROVE k \in S
  <2> DEFINE L == levels[k - 1]
             a == Width(k - 1)
             b == Width(k)
  <2>1. IsTree(L, leaves) /\ a \in Nat /\ a >= 1 /\ (a = 1 \/ a <= n - (k - 1)) /\ levels[k] = Grow(L)
    BY <1>4, <1>6
  <2>2. IsTree(levels[k], leaves) /\ b \in Nat /\ b >= 1 /\ (a > 1 => b < a) /\ (a <= 1 => b = a)
    <3> HIDE DEF L
    <3>1. IsTree(Grow(L), leaves)
      BY <2>1, TreeGrows
    <3>2. /\ Len(Last(L)) \in Nat /\ Len(Last(Grow(L))) \in Nat /\ Len(Last(Grow(L))) >= 1
          /\ Len(Last(L)) > 1 => Len(Last(Grow(L))) < Len(Last(L))
          /\ Len(Last(L)) <= 1 => Len(Last(Grow(L))) = Len(Last(L))
      BY <2>1, TreeGrows
    <3>3. a = Len(Last(L))
      BY DEF L
    <3> HIDE DEF a
    <3> QED
      BY <2>1, <3>1, <3>2, <3>3
  <2> HIDE DEF a, b, L
  <2>3. b = 1 \/ b <= n - k
    BY <1>1, <2>1, <2>2
  <2> QED
    BY <1>1, <2>2, <2>3 DEF b
<1> HIDE DEF S, zero
<1>7. n \in S
  <2>1. \A k \in 1..n : k - 1 \in S => k \in S
    BY <1>6
  <2>2. 0 \in S
    BY <1>5 DEF zero
  <2>3. 0..n \subseteq S
    BY <1>1, <2>1, <2>2, CountInduction
  <2> QED
    BY <1>1, <2>3
<1> QED
  BY <1>1, <1>3, <1>7 DEF S
\* The place of a leaf is halved from level to level.
LEMMA PlacesAre ==
  ASSUME NEW i \in Nat, NEW n \in Nat
  PROVE  /\ PlacesAbove(i, n)[0] = i
         /\ \A k \in 0..n : PlacesAbove(i, n)[k] \in Nat
         /\ \A k \in 1..n : PlacesAbove(i, n)[k] = PlacesAbove(i, n)[k - 1] \div 2
<1> DEFINE V == Nat
           D == 0..n
           root == 0
           p == [k \in D |-> k - 1]
           G == [k \in D |-> [v \in V |-> v \div 2]]
           place == CHOOSE f : f = [k \in D |-> IF k = 0 THEN i ELSE f[k - 1] \div 2]
<1>1. IsRule(G, D, V) /\ i \in V
  BY DEF IsRule
<1>2. Grounded(D, root, p)
  BY CountdownGrounded
<1>3. PICK f \in [D -> V] : \A k \in D : f[k] = IF k = root THEN i ELSE G[k][f[p[k]]]
  <2> HIDE DEF V, D, root, p, G
  <2> QED
    BY <1>1, <1>2, WalkRecursion
<1>4. f = [k \in D |-> IF k = 0 THEN i ELSE f[k - 1] \div 2]
  <2>1. ASSUME NEW k \in D PROVE f[k] = IF k = 0 THEN i ELSE f[k - 1] \div 2
    <3>1. CASE k = 0
      BY <1>3, <3>1
    <3>2. CASE k # 0
      <4>1. k - 1 \in D /\ p[k] = k - 1 /\ f[k - 1] \in Nat
        BY <3>2
      <4> QED
        BY <1>3, <3>2, <4>1
    <3> QED
      BY <3>1, <3>2
  <2> HIDE DEF D, V
  <2> QED
    BY <2>1
<1>5. place = [k \in D |-> IF k = 0 THEN i ELSE place[k - 1] \div 2]
  <2> HIDE DEF D
  <2> QED
    BY <1>4
<1>6. PlacesAbove(i, n) = place
  BY DEF PlacesAbove
<1> HIDE DEF place
<1>7. place[0] = i /\ \A k \in 1..n : place[k] = place[k - 1] \div 2
  <2>1. 0 \in D /\ \A k \in 1..n : k \in D /\ k # 0
    OBVIOUS
  <2> HIDE DEF D
  <2> QED
    BY <1>5, <2>1
<1> DEFINE S == {k \in D : place[k] \in Nat}
<1>8. 0 \in S /\ \A k \in 1..n : k - 1 \in S => k \in S
  BY <1>7
<1>9. D \subseteq S
  <2> HIDE DEF S
  <2> QED
    BY <1>8, CountInduction
<1> QED
  BY <1>6, <1>7, <1>9

\* The hashes on the way up.
WayUp(hash, branch, place, n) ==
  CHOOSE f : f = [k \in 0..n |-> IF k = 0 THEN hash
                                 ELSE IF place[k - 1] % 2 = 1 THEN Hash(branch[k], f[k - 1])
                                 ELSE Hash(f[k - 1], branch[k])]

\* They are found one after the other.
LEMMA WayUpIs ==
  ASSUME NEW hash, NEW branch, NEW place, NEW n \in Nat
  PROVE  /\ WayUp(hash, branch, place, n)[0] = hash
         /\ \A k \in 1..n : WayUp(hash, branch, place, n)[k]
              = IF place[k - 1] % 2 = 1 THEN Hash(branch[k], WayUp(hash, branch, place, n)[k - 1])
                ELSE Hash(WayUp(hash, branch, place, n)[k - 1], branch[k])
<1> DEFINE Up(x, k) == IF place[k - 1] % 2 = 1 THEN Hash(branch[k], x) ELSE Hash(x, branch[k])
           Rule(f, k) == IF k = 0 THEN hash ELSE Up(f[k - 1], k)
           S == {m \in 0..n : \E f : \A k \in 0..m : f[k] = Rule(f, k)}
           zero == 0
<1>1. zero \in S
  <2> DEFINE f == [k \in {0} |-> hash]
  <2>1. \A k \in 0..0 : f[k] = Rule(f, k)
    OBVIOUS
  <2> HIDE DEF f, Rule
  <2> QED
    BY <2>1
<1>2. ASSUME NEW m \in 1..n, m - 1 \in S PROVE m \in S
  <2> HIDE DEF Up
  <2>1. PICK f : \A k \in 0..(m - 1) : f[k] = Rule(f, k)
    BY <1>2
  <2> DEFINE g == [k \in 0..m |-> IF k = m THEN Up(f[m - 1], m) ELSE f[k]]
  <2>2. \A k \in 0..m : g[k] = Rule(g, k)
    <3> SUFFICES ASSUME NEW k \in 0..m PROVE g[k] = Rule(g, k)
      OBVIOUS
    <3>1. CASE k = m
      <4>1. k - 1 \in 0..m /\ k - 1 # m /\ k # 0
        BY <3>1
      <4> QED
        BY <3>1, <4>1
    <3>2. CASE k = 0
      BY <2>1, <3>2
    <3>3. CASE k # m /\ k # 0
      <4>1. k \in 0..(m - 1) /\ k - 1 \in 0..m /\ k - 1 # m
        BY <3>3
      <4> QED
        BY <2>1, <3>3, <4>1
    <3> QED
      BY <3>1, <3>2, <3>3
  <2> HIDE DEF g, Rule
  <2> QED
    BY <2>2
<1> HIDE DEF S, zero, Rule
<1>3. 0..n \subseteq S
  <2>1. \A m \in 1..n : m - 1 \in S => m \in S
    BY <1>2
  <2>2. 0 \in S
    BY <1>1 DEF zero
  <2> QED
    BY <2>1, <2>2, CountInduction
<1>4. PICK f : \A k \in 0..n : f[k] = Rule(f, k)
  BY <1>3 DEF S
<1> DEFINE g == [k \in 0..n |-> f[k]]
<1> HIDE DEF Up
<1>5. \A k \in 0..n : f[k] = Rule(g, k)
  BY <1>4 DEF Rule
<1>6. g = [k \in 0..n |-> Rule(g, k)]
  <2> HIDE DEF Rule
  <2> QED
    BY <1>5
<1> DEFINE up == WayUp(hash, branch, place, n)
<1>7. up = [k \in 0..n |-> Rule(up, k)]
  <2> HIDE DEF g
  <2> QED
    BY <1>6, Zenon DEF Rule, Up, WayUp
<1> HIDE DEF up
<1>8. up[0] = Rule(up, 0) /\ \A k \in 1..n : up[k] = Rule(up, k)
  <2>1. 0 \in 0..n /\ \A k \in 1..n : k \in 0..n
    OBVIOUS
  <2> HIDE DEF Rule
  <2> QED
    BY <1>7, <2>1
<1>9. up[0] = hash /\ \A k \in 1..n : up[k] = Up(up[k - 1], k)
  BY <1>8 DEF Rule
<1> QED
  BY <1>9 DEF Up, up
\* Two pairs are equal when their halves are.
LEMMA HashIsPair ==
  ASSUME NEW a, NEW b, NEW c, NEW d
  PROVE  Hash(a, b) = Hash(c, d) <=> a = c /\ b = d
<1>1. Hash(a, b).left = a /\ Hash(a, b).right = b /\ Hash(c, d).left = c /\ Hash(c, d).right = d
  BY DEF Hash
<1> QED
  BY <1>1

\* One level up, the pair of an entry and its sibling stands at half its place.
LEMMA OneLevelUp ==
  ASSUME NEW S, NEW s \in Seq(S), Len(s) >= 2, NEW p \in 0..(Len(s) - 1), NEW x
  PROVE  LET b == s[Least(Sibling(p), Len(s) - 1) + 1]
             y == IF p % 2 = 1 THEN Hash(b, x) ELSE Hash(x, b)
         IN  /\ p \div 2 \in 0..(Len(NextLevel(s)) - 1)
             /\ y = NextLevel(s)[(p \div 2) + 1] <=> x = s[p + 1]
<1> DEFINE n == Len(s)
           q == p \div 2
           i == q + 1
           z == NextLevel(s)[i]
           b == s[Least(Sibling(p), n - 1) + 1]
           y == IF p % 2 = 1 THEN Hash(b, x) ELSE Hash(x, b)
<1>0. n \in Nat /\ n >= 2 /\ p \in 0..(n - 1)
  OBVIOUS
<1>1. Len(NextLevel(s)) = (n + 1) \div 2
  <2>1. Len(s) >= 1
    BY <1>0
  <2> QED
    BY <2>1, NextLevelIs
<1>2. \A j \in 1..((n + 1) \div 2) : NextLevel(s)[j] = Hash(s[2 * j - 1], s[Least(2 * j, n)])
  <2>1. Len(s) >= 1
    BY <1>0
  <2> QED
    BY <2>1, NextLevelIs
<1> HIDE DEF n
<1>3. q \in 0..(((n + 1) \div 2) - 1) /\ i \in 1..((n + 1) \div 2)
  BY <1>0
<1>4. z = Hash(s[2 * i - 1], s[Least(2 * i, n)])
  <2> HIDE DEF i
  <2> QED
    BY <1>2, <1>3
<1>5. ASSUME p % 2 = 1 PROVE y = z <=> x = s[p + 1]
  <2>1. p = 2 * q + 1
    BY <1>0, <1>5
  <2>2. Sibling(p) = p - 1
    BY <1>5 DEF Sibling
  <2>3. 2 * i - 1 = p /\ 2 * i = p + 1 /\ Least(p + 1, n) = p + 1 /\ Least(p - 1, n - 1) + 1 = p
    <3> HIDE DEF q
    <3>1. 2 * i - 1 = p /\ 2 * i = p + 1
      BY <1>0, <1>3, <2>1
    <3> HIDE DEF i
    <3> QED
      BY <1>0, <3>1 DEF Least
  <2> DEFINE l == s[p]
             r == s[p + 1]
  <2>4. b = l /\ z = Hash(l, r)
    <3> HIDE DEF i, z
    <3> QED
      BY <1>4, <2>2, <2>3
  <2>5. y = Hash(l, x)
    <3> HIDE DEF b, l
    <3> QED
      BY <1>5, <2>4
  <2> HIDE DEF y, z, l, r
  <2>6. y = z <=> x = r
    BY <2>4, <2>5, HashIsPair
  <2> QED
    BY <2>6 DEF r
<1>6. ASSUME p % 2 # 1 PROVE y = z <=> x = s[p + 1]
  <2>1. p = 2 * q /\ p % 2 = 0
    BY <1>0, <1>6
  <2>2. Sibling(p) = p + 1
    BY <2>1 DEF Sibling
  <2>3. 2 * i - 1 = p + 1 /\ 2 * i = p + 2 /\ Least(p + 1, n - 1) + 1 = Least(p + 2, n)
    <3> HIDE DEF q
    <3>1. 2 * i - 1 = p + 1 /\ 2 * i = p + 2
      BY <1>0, <1>3, <2>1
    <3> HIDE DEF i
    <3> QED
      BY <1>0, <3>1 DEF Least
  <2> DEFINE l == s[p + 1]
             r == s[Least(p + 2, n)]
  <2>4. b = r /\ z = Hash(l, r)
    <3> HIDE DEF i, z
    <3> QED
      BY <1>4, <2>2, <2>3
  <2>5. y = Hash(x, r)
    <3> HIDE DEF b, r
    <3> QED
      BY <1>6, <2>4
  <2> HIDE DEF y, z, l, r
  <2>6. y = z <=> x = l
    BY <2>4, <2>5, HashIsPair
  <2> QED
    BY <2>6 DEF l
<1> HIDE DEF q, y, z, i
<1>7. y = z <=> x = s[p + 1]
  BY <1>5, <1>6
<1> QED
  BY <1>1, <1>3, <1>7 DEF n, q, y, z, i

\* What a tree of levels has where.
LEMMA TreeHas ==
  ASSUME NEW leaves, NEW L, IsTree(L, leaves)
  PROVE  /\ Len(L) \in Nat \ {0} /\ L[1] = leaves /\ Last(L) = L[Len(L)]
         /\ \E S : L \in Seq(S)
         /\ \A n \in 1..Len(L) : Len(L[n]) \in Nat \ {0} /\ \E S : L[n] \in Seq(S)
         /\ \A n \in 1..(Len(L) - 1) : Len(L[n]) >= 2 /\ L[n + 1] = NextLevel(L[n])
<1>1. PICK S : L \in Seq(S)
  BY DEF IsTree, IsSeq
<1>2. Len(L) \in Nat \ {0} /\ L[1] = leaves /\ Last(L) = L[Len(L)]
  BY <1>1 DEF IsTree, Last
<1>3. ASSUME NEW n \in 1..Len(L) PROVE Len(L[n]) \in Nat \ {0} /\ \E V : L[n] \in Seq(V)
  <2> DEFINE s == L[n]
  <2>1. IsSeq(s) /\ Len(s) >= 1
    BY DEF IsTree
  <2> HIDE DEF s
  <2>2. PICK V : s \in Seq(V)
    BY <2>1 DEF IsSeq
  <2>3. Len(s) \in Nat \ {0}
    BY <2>1, <2>2
  <2> QED
    BY <2>2, <2>3 DEF s
<1> QED
  BY <1>1, <1>2, <1>3 DEF IsTree

\* A leaf's place, halved from level to level, is a place of every level.
LEMMA PlacesFit ==
  ASSUME NEW leaves, NEW L, IsTree(L, leaves), NEW i \in 0..(Len(leaves) - 1)
  PROVE  \A k \in 0..(Len(L) - 1) : PlacesAbove(i, Len(L) - 1)[k] \in 0..(Len(L[k + 1]) - 1)
<1> DEFINE n == Len(L) - 1
           place == PlacesAbove(i, n)
           S == {k \in 0..n : place[k] \in 0..(Len(L[k + 1]) - 1)}
           zero == 0
<1>1. /\ Len(L) \in Nat \ {0} /\ L[1] = leaves
      /\ \A k \in 1..Len(L) : Len(L[k]) \in Nat \ {0} /\ \E V : L[k] \in Seq(V)
      /\ \A k \in 1..(Len(L) - 1) : Len(L[k]) >= 2 /\ L[k + 1] = NextLevel(L[k])
  BY TreeHas
<1>2. n \in Nat /\ i \in Nat
  <2>1. Len(leaves) \in Nat
    BY <1>1
  <2> QED
    BY <1>1, <2>1
<1>3. /\ place[0] = i
      /\ \A k \in 0..n : place[k] \in Nat
      /\ \A k \in 1..n : place[k] = place[k - 1] \div 2
  <2> HIDE DEF n
  <2> QED
    BY <1>2, PlacesAre
<1> HIDE DEF place
<1>4. zero \in S
  BY <1>1, <1>2, <1>3
<1>5. ASSUME NEW k \in 1..n, k - 1 \in S PROVE k \in S
  <2> DEFINE s == L[k]
             p == place[k - 1]
  <2>1. k \in 1..(Len(L) - 1) /\ k \in 1..Len(L) /\ k \in 0..n /\ (k - 1) + 1 = k
    BY <1>1
  <2>2. Len(s) >= 2 /\ L[k + 1] = NextLevel(s) /\ \E V : s \in Seq(V)
    BY <1>1, <2>1
  <2>3. p \in 0..(Len(s) - 1) /\ place[k] = p \div 2
    BY <1>3, <1>5, <2>1
  <2> HIDE DEF s, p
  <2>4. PICK V : s \in Seq(V)
    BY <2>2
  <2>5. p \div 2 \in 0..(Len(NextLevel(s)) - 1)
    BY <2>2, <2>3, <2>4, OneLevelUp
  <2> QED
    BY <2>1, <2>2, <2>3, <2>5
<1> HIDE DEF S, zero
<1>6. 0..n \subseteq S
  <2>1. \A k \in 1..n : k - 1 \in S => k \in S
    BY <1>5
  <2>2. 0 \in S
    BY <1>4 DEF zero
  <2> HIDE DEF n
  <2> QED
    BY <1>2, <2>1, <2>2, CountInduction
<1> QED
  BY <1>6 DEF S, place

\* A branch holds one entry of every level but the last.
LEMMA BranchIs ==
  ASSUME NEW T, NEW leaves \in Seq(T), leaves # <<>>, NEW i
  PROVE  LET L == Levels(leaves)
             place == PlacesAbove(i, Len(L) - 1)
             branch == GetMerkleBranch(leaves, i)
         IN  /\ Len(branch) = Len(L) - 1
             /\ \A n \in 1..(Len(L) - 1) :
                  branch[n] = L[n][Least(Sibling(place[n - 1]), Len(L[n]) - 1) + 1]
<1> DEFINE L == Levels(leaves)
           m == Len(L) - 1
           sides == SubSeq(L, 1, m)
           place == PlacesAbove(i, m)
           At(s, n) == s[Least(Sibling(place[n - 1]), Len(s) - 1) + 1]
<1>1. IsTree(L, leaves)
  BY LevelsAre
<1> HIDE DEF L
<1>2. m \in Nat /\ \E S : L \in Seq(S)
  <2>1. Len(L) \in Nat \ {0}
    BY <1>1, TreeHas
  <2> QED
    BY <1>1, <2>1, TreeHas
<1>3. PICK S : L \in Seq(S)
  BY <1>2
<1>4. Len(sides) = m /\ DOMAIN sides = 1..m /\ \A n \in 1..m : sides[n] = L[n]
  <2>1. m \in Nat /\ m <= Len(L) /\ Len(L) \in Nat
    BY <1>2, <1>3
  <2> HIDE DEF m
  <2>2. sides = [n \in 1..m |-> L[n]]
    BY <1>3, <2>1
  <2>3. \A n \in 1..m : L[n] \in S
    BY <1>3, <2>1
  <2> HIDE DEF sides
  <2> QED
    BY <2>1, <2>2, <2>3
<1>5. GetMerkleBranch(leaves, i) = [n \in DOMAIN sides |-> At(sides[n], n)]
  <2>1. GetMerkleBranch(leaves, i) = [n \in DOMAIN sides |->
          sides[n][Least(Sibling(PlacesAbove(i, Len(sides))[n - 1]), Len(sides[n]) - 1) + 1]]
    BY Zenon DEF GetMerkleBranch, L
  <2> HIDE DEF sides, m
  <2> QED
    BY <1>4, <2>1
<1> DEFINE e(n) == At(sides[n], n)
           V == {e(n) : n \in 1..m}
<1> HIDE DEF sides, m, At
<1>6. GetMerkleBranch(leaves, i) = [n \in 1..m |-> e(n)]
  BY <1>4, <1>5
<1>7. \A n \in 1..m : e(n) \in V /\ e(n) = At(L[n], n)
  BY <1>4
<1> HIDE DEF e, V
<1>8. Len(GetMerkleBranch(leaves, i)) = m /\ \A n \in 1..m : GetMerkleBranch(leaves, i)[n] = e(n)
  BY <1>2, <1>6, <1>7
<1>9. \A n \in 1..m : GetMerkleBranch(leaves, i)[n] = At(L[n], n)
  BY <1>7, <1>8
<1> QED
  BY <1>8, <1>9 DEF L, m, At

\* A Merkle branch proves the transaction it was made for and no other, in a
\* block of any number of transactions (GetMerkleBranch, CheckMerkleBranch,
\* BuildMerkleTree).
THEOREM BranchesProve ==
  ASSUME NEW T, NEW leaves \in Seq(T), leaves # <<>>, NEW i \in 0..(Len(leaves) - 1), NEW hash
  PROVE  BranchProves(leaves, i, hash)
<1> DEFINE L == Levels(leaves)
           n == Len(L) - 1
           place == PlacesAbove(i, n)
           branch == GetMerkleBranch(leaves, i)
           Up(x, k) == IF place[k - 1] % 2 = 1 THEN Hash(branch[k], x) ELSE Hash(x, branch[k])
           up == WayUp(hash, branch, place, n)
           Matches(k) == up[k] = L[k + 1][place[k] + 1] <=> hash = leaves[i + 1]
           S == {k \in 0..n : Matches(k)}
           zero == 0
<1>1. IsTree(L, leaves) /\ Len(L[Len(L)]) = 1
  <2>1. IsTree(L, leaves) /\ Len(Last(L)) = 1
    BY LevelsAre
  <2> HIDE DEF L
  <2> QED
    BY <2>1, TreeHas
<1>2. Len(branch) = n /\ \A k \in 1..n : branch[k] = L[k][Least(Sibling(place[k - 1]), Len(L[k]) - 1) + 1]
  BY BranchIs
<1> HIDE DEF L, branch
<1>3. /\ Len(L) \in Nat \ {0} /\ L[1] = leaves /\ Last(L) = L[Len(L)]
      /\ \A k \in 1..Len(L) : Len(L[k]) \in Nat \ {0} /\ \E V : L[k] \in Seq(V)
      /\ \A k \in 1..(Len(L) - 1) : Len(L[k]) >= 2 /\ L[k + 1] = NextLevel(L[k])
  BY <1>1, TreeHas
<1>4. n \in Nat /\ i \in Nat
  BY <1>3
<1>5. place[0] = i /\ \A k \in 1..n : place[k] = place[k - 1] \div 2
  <2> HIDE DEF n
  <2> QED
    BY <1>4, PlacesAre
<1>6. \A k \in 0..n : place[k] \in 0..(Len(L[k + 1]) - 1)
  BY <1>1, PlacesFit
<1> HIDE DEF place
<1>8. CheckMerkleBranch(hash, branch, i) = up[n]
  <2>1. i # -1
    BY <1>4
  <2>2. Len(branch) = n
    BY <1>2
  <2> HIDE DEF n
  <2> QED
    BY <2>1, <2>2, Zenon DEF CheckMerkleBranch, WayUp, place
<1>9. up[0] = hash /\ \A k \in 1..n : up[k] = Up(up[k - 1], k)
  <2> HIDE DEF n
  <2> QED
    BY <1>4, WayUpIs
<1> HIDE DEF up, Up
<1>10. zero \in S
  BY <1>3, <1>4, <1>5, <1>9
<1>11. ASSUME NEW k \in 1..n, k - 1 \in S PROVE k \in S
  <2> DEFINE s == L[k]
             p == place[k - 1]
             x == up[k - 1]
             b == s[Least(Sibling(p), Len(s) - 1) + 1]
             y == IF p % 2 = 1 THEN Hash(b, x) ELSE Hash(x, b)
  <2>1. k \in 1..(Len(L) - 1) /\ k \in 1..Len(L) /\ k \in 0..n /\ (k - 1) + 1 = k /\ k - 1 \in 0..n
    BY <1>3
  <2>2. Len(s) >= 2 /\ L[k + 1] = NextLevel(s) /\ \E V : s \in Seq(V)
    BY <1>3, <2>1
  <2>3. p \in 0..(Len(s) - 1) /\ place[k] = p \div 2
    BY <1>5, <1>6, <2>1
  <2>4. up[k] = y
    <3>1. branch[k] = b
      BY <1>2
    <3>2. up[k] = Up(x, k)
      BY <1>9
    <3> HIDE DEF b, x
    <3> QED
      BY <3>1, <3>2 DEF Up
  <2>5. x = s[p + 1] <=> hash = leaves[i + 1]
    BY <1>11, <2>1
  <2> HIDE DEF s, p, x
  <2>6. PICK V : s \in Seq(V)
    BY <2>2
  <2>7. y = NextLevel(s)[(p \div 2) + 1] <=> x = s[p + 1]
    BY <2>2, <2>3, <2>6, OneLevelUp
  <2> HIDE DEF b, y
  <2>8. Matches(k)
    BY <2>2, <2>3, <2>4, <2>5, <2>7
  <2> QED
    BY <2>1, <2>8
<1> HIDE DEF S, zero
<1>12. n \in S
  <2>1. \A k \in 1..n : k - 1 \in S => k \in S
    BY <1>11
  <2>2. 0 \in S
    BY <1>10 DEF zero
  <2> HIDE DEF n
  <2>3. 0..n \subseteq S
    BY <1>4, <2>1, <2>2, CountInduction
  <2> QED
    BY <1>4, <2>3
<1>13. n \in 0..n /\ n + 1 = Len(L)
  BY <1>3
<1>14. place[n] = 0
  <2> HIDE DEF n, Matches
  <2>1. place[n] \in 0..(Len(L[n + 1]) - 1)
    BY <1>6, <1>13
  <2>2. L[n + 1] = L[Len(L)]
    BY <1>13
  <2>3. Len(L[n + 1]) = 1
    BY <1>1, <2>2
  <2>4. 0..(Len(L[n + 1]) - 1) = {0}
    BY <2>3
  <2> QED
    BY <2>1, <2>4
<1> HIDE DEF n
<1>15. up[n] = L[Len(L)][1] <=> hash = leaves[i + 1]
  BY <1>12, <1>13, <1>14 DEF S
<1>16. BuildMerkleTree(leaves) = L[Len(L)][1]
  BY <1>3 DEF BuildMerkleTree, L
<1> QED
  BY <1>8, <1>15, <1>16 DEF BranchProves, branch

\* Of two levels without repetitions that have the same level above, neither is
\* longer: an odd one would end in a pair of equal entries there.
LEMMA NoneIsLonger ==
  ASSUME NEW S, NEW s \in Seq(S), NEW V, NEW t \in Seq(V), Len(s) >= 1, Len(t) >= 1,
         IsInjective(t), NextLevel(s) = NextLevel(t), Len(s) < Len(t)
  PROVE  FALSE
<1> DEFINE n == Len(s)
           m == Len(t)
           h == (n + 1) \div 2
<1>1. n \in Nat /\ m \in Nat /\ n >= 1 /\ n < m
  OBVIOUS
<1>2. Len(NextLevel(s)) = h /\ \A i \in 1..h : NextLevel(s)[i] = Hash(s[2 * i - 1], s[Least(2 * i, n)])
  <2>1. Len(NextLevel(s)) = h
    BY NextLevelIs
  <2>2. \A i \in 1..h : NextLevel(s)[i] = Hash(s[2 * i - 1], s[Least(2 * i, n)])
    BY NextLevelIs
  <2> QED
    BY <2>1, <2>2
<1>3. /\ Len(NextLevel(t)) = (m + 1) \div 2
      /\ \A i \in 1..((m + 1) \div 2) : NextLevel(t)[i] = Hash(t[2 * i - 1], t[Least(2 * i, m)])
  <2>1. Len(NextLevel(t)) = (m + 1) \div 2
    BY NextLevelIs
  <2>2. \A i \in 1..((m + 1) \div 2) : NextLevel(t)[i] = Hash(t[2 * i - 1], t[Least(2 * i, m)])
    BY NextLevelIs
  <2> QED
    BY <2>1, <2>2
<1>4. h = (m + 1) \div 2
  BY <1>2, <1>3
<1> HIDE DEF n, m
<1>5. n = 2 * h - 1 /\ m = 2 * h /\ h \in 1..h
  BY <1>1, <1>4
<1> HIDE DEF h
<1>6. Least(2 * h, n) = n /\ Least(2 * h, m) = m
  BY <1>1, <1>5 DEF Least
<1>7. NextLevel(s)[h] = Hash(s[n], s[n]) /\ NextLevel(t)[h] = Hash(t[n], t[m])
  <2>1. NextLevel(s)[h] = Hash(s[2 * h - 1], s[Least(2 * h, n)])
    BY <1>2, <1>5
  <2>2. NextLevel(t)[h] = Hash(t[2 * h - 1], t[Least(2 * h, m)])
    BY <1>3, <1>4, <1>5
  <2>3. 2 * h - 1 = n
    BY <1>5
  <2> QED
    BY <1>6, <2>1, <2>2, <2>3
<1>8. t[n] = t[m]
  <2> DEFINE a == s[n]
             b == t[n]
             c == t[m]
  <2>1. Hash(a, a) = Hash(b, c)
    BY <1>7
  <2> HIDE DEF a, b, c
  <2>2. a = b /\ a = c
    BY <2>1, HashIsPair
  <2> QED
    BY <2>2 DEF a, b, c
<1>9. n \in DOMAIN t /\ m \in DOMAIN t
  BY <1>1 DEF m
<1> QED
  BY <1>1, <1>8, <1>9 DEF IsInjective

\* A level without repetitions is determined by the one above it.
LEMMA LevelDetermines ==
  ASSUME NEW S, NEW s \in Seq(S), NEW V, NEW t \in Seq(V), Len(s) >= 1, Len(t) >= 1,
         IsInjective(s), IsInjective(t), NextLevel(s) = NextLevel(t)
  PROVE  s = t
<1> DEFINE n == Len(s)
           h == (n + 1) \div 2
<1>1. n \in Nat /\ n >= 1 /\ Len(t) \in Nat /\ s = [i \in 1..n |-> s[i]] /\ t = [i \in 1..Len(t) |-> t[i]]
  OBVIOUS
<1>2. Len(t) = n
  <2>1. ~(Len(s) < Len(t))
    BY NoneIsLonger
  <2>2. ~(Len(t) < Len(s))
    BY NoneIsLonger
  <2>3. Len(s) \in Nat /\ Len(t) \in Nat
    BY <1>1
  <2>4. Len(s) = Len(t)
    BY <2>1, <2>2, <2>3
  <2> QED
    BY <2>4
<1>3. \A i \in 1..h : NextLevel(s)[i] = Hash(s[2 * i - 1], s[Least(2 * i, n)])
  BY NextLevelIs
<1>4. \A i \in 1..h : NextLevel(t)[i] = Hash(t[2 * i - 1], t[Least(2 * i, n)])
  <2>1. \A i \in 1..((Len(t) + 1) \div 2) :
          NextLevel(t)[i] = Hash(t[2 * i - 1], t[Least(2 * i, Len(t))])
    BY NextLevelIs
  <2> HIDE DEF n
  <2> QED
    BY <1>2, <2>1
<1> HIDE DEF n
<1>5. ASSUME NEW k \in 1..n PROVE s[k] = t[k]
  <2> DEFINE i == (k + 1) \div 2
             a == s[2 * i - 1]
             b == s[Least(2 * i, n)]
             c == t[2 * i - 1]
             d == t[Least(2 * i, n)]
  <2>1. i \in 1..h /\ (k = 2 * i - 1 \/ k = 2 * i)
    <3>1. k \in Nat /\ k >= 1 /\ k <= n /\ n \in Nat
      BY <1>1
    <3>2. i \in Nat /\ i >= 1 /\ (k = 2 * i - 1 \/ k = 2 * i)
      BY <3>1
    <3>3. h \in Nat /\ (n = 2 * h - 1 \/ n = 2 * h)
      BY <3>1
    <3> HIDE DEF i, h
    <3> QED
      BY <3>1, <3>2, <3>3
  <2> HIDE DEF i, h
  <2>2. a = c /\ b = d
    <3>1. Hash(a, b) = Hash(c, d)
      <4>1. NextLevel(s)[i] = Hash(a, b)
        BY <1>3, <2>1
      <4>2. NextLevel(t)[i] = Hash(c, d)
        BY <1>4, <2>1
      <4> HIDE DEF a, b, c, d
      <4> QED
        BY <4>1, <4>2
    <3> HIDE DEF a, b, c, d
    <3> QED
      BY <3>1, HashIsPair
  <2>3. CASE k = 2 * i - 1
    BY <2>2, <2>3
  <2>4. CASE k = 2 * i
    <3>1. Least(2 * i, n) = k
      BY <1>1, <2>4 DEF Least
    <3> QED
      BY <2>2, <3>1
  <2> QED
    BY <2>1, <2>3, <2>4
<1> QED
  BY <1>1, <1>2, <1>5

\* Above a level without repetitions is another one.
LEMMA NextIsInjective ==
  ASSUME NEW S, NEW s \in Seq(S), Len(s) >= 1, IsInjective(s)
  PROVE  IsInjective(NextLevel(s))
<1> DEFINE n == Len(s)
           h == (n + 1) \div 2
           u == NextLevel(s)
<1>1. n \in Nat /\ n >= 1 /\ DOMAIN s = 1..n
  OBVIOUS
<1>2. \A i \in 1..h : 2 * i - 1 \in 1..n /\ u[i] = Hash(s[2 * i - 1], s[Least(2 * i, n)])
  BY NextLevelIs
<1>3. DOMAIN u = 1..h
  BY DEF NextLevel
<1> SUFFICES ASSUME NEW i \in 1..h, NEW j \in 1..h, u[i] = u[j] PROVE i = j
  <2> HIDE DEF h
  <2> QED
    BY <1>3, Zenon DEF IsInjective
<1> HIDE DEF n, u
<1> DEFINE a == s[2 * i - 1]
           b == s[Least(2 * i, n)]
           c == s[2 * j - 1]
           d == s[Least(2 * j, n)]
<1>4. Hash(a, b) = Hash(c, d)
  <2> HIDE DEF h
  <2> QED
    BY <1>2
<1> HIDE DEF a, b, c, d
<1>5. a = c
  BY <1>4, HashIsPair
<1> DEFINE x == 2 * i - 1
           y == 2 * j - 1
<1>6. s[x] = s[y] /\ x \in DOMAIN s /\ y \in DOMAIN s
  <2>1. s[x] = s[y]
    BY <1>5 DEF a, c
  <2>2. x \in 1..n /\ y \in 1..n
    BY <1>2
  <2> HIDE DEF x, y
  <2> QED
    BY <1>1, <2>1, <2>2
<1>7. x = y
  <2> HIDE DEF x, y
  <2> QED
    BY <1>6 DEF IsInjective
<1>8. i \in Int /\ j \in Int
  BY <1>1
<1> QED
  BY <1>7, <1>8

\* No level of a tree repeats an entry when its leaves do not.
LEMMA LevelsAreInjective ==
  ASSUME NEW leaves, NEW L, IsTree(L, leaves), IsInjective(leaves)
  PROVE  \A n \in 1..Len(L) : IsInjective(L[n])
<1> DEFINE d == Len(L) - 1
           S == {k \in 0..d : IsInjective(L[k + 1])}
           zero == 0
<1>1. /\ Len(L) \in Nat \ {0} /\ L[1] = leaves
      /\ \A k \in 1..Len(L) : Len(L[k]) \in Nat \ {0} /\ \E V : L[k] \in Seq(V)
      /\ \A k \in 1..(Len(L) - 1) : Len(L[k]) >= 2 /\ L[k + 1] = NextLevel(L[k])
  BY TreeHas
<1>2. zero \in S
  BY <1>1
<1>3. ASSUME NEW k \in 1..d, k - 1 \in S PROVE k \in S
  <2> DEFINE s == L[k]
  <2>1. k \in 1..(Len(L) - 1) /\ k \in 1..Len(L) /\ k \in 0..d /\ (k - 1) + 1 = k
    BY <1>1
  <2>2. Len(s) >= 2 /\ L[k + 1] = NextLevel(s) /\ (\E V : s \in Seq(V)) /\ Len(s) \in Nat
    BY <1>1, <2>1
  <2>3. IsInjective(s)
    BY <1>3, <2>1
  <2> HIDE DEF s
  <2>4. PICK V : s \in Seq(V)
    BY <2>2
  <2>5. Len(s) >= 1
    BY <2>2
  <2>6. IsInjective(NextLevel(s))
    BY <2>3, <2>4, <2>5, NextIsInjective
  <2> QED
    BY <2>1, <2>2, <2>6
<1> HIDE DEF S, zero
<1>4. d \in Nat
  BY <1>1
<1>5. 0..d \subseteq S
  <2>1. \A k \in 1..d : k - 1 \in S => k \in S
    BY <1>3
  <2>2. 0 \in S
    BY <1>2 DEF zero
  <2> HIDE DEF d
  <2> QED
    BY <1>4, <2>1, <2>2, CountInduction
<1> SUFFICES ASSUME NEW n \in 1..Len(L) PROVE IsInjective(L[n])
  OBVIOUS
<1> DEFINE k == n - 1
<1>6. k \in S /\ k + 1 = n
  BY <1>1, <1>5
<1> HIDE DEF k
<1> QED
  BY <1>6 DEF S

\* Two trees with one root have the same levels as far down as the lower one goes.
LEMMA TreesAgree ==
  ASSUME NEW leaves1, NEW L, IsTree(L, leaves1), IsInjective(leaves1),
         NEW leaves2, NEW M, IsTree(M, leaves2), IsInjective(leaves2),
         Len(L) <= Len(M), L[Len(L)] = M[Len(M)]
  PROVE  L[1] = M[Len(M) - (Len(L) - 1)]
<1> DEFINE c == Len(L)
           e == Len(M)
           d == c - 1
           S == {k \in 0..d : L[c - k] = M[e - k]}
           zero == 0
<1>1. /\ c \in Nat \ {0}
      /\ \A k \in 1..c : Len(L[k]) \in Nat \ {0} /\ \E V : L[k] \in Seq(V)
      /\ \A k \in 1..(c - 1) : Len(L[k]) >= 2 /\ L[k + 1] = NextLevel(L[k])
  BY TreeHas
<1>2. /\ e \in Nat \ {0}
      /\ \A k \in 1..e : Len(M[k]) \in Nat \ {0} /\ \E V : M[k] \in Seq(V)
      /\ \A k \in 1..(e - 1) : Len(M[k]) >= 2 /\ M[k + 1] = NextLevel(M[k])
  BY TreeHas
<1>3. (\A n \in 1..c : IsInjective(L[n])) /\ \A n \in 1..e : IsInjective(M[n])
  <2>1. \A n \in 1..c : IsInjective(L[n])
    BY LevelsAreInjective
  <2>2. \A n \in 1..e : IsInjective(M[n])
    BY LevelsAreInjective
  <2> QED
    BY <2>1, <2>2
<1>4. c <= e /\ L[c] = M[e]
  OBVIOUS
<1> HIDE DEF c, e
<1>5. zero \in S
  <2>1. c - 0 = c /\ e - 0 = e /\ 0 \in 0..d
    BY <1>1, <1>2
  <2> QED
    BY <1>4, <2>1
<1>6. ASSUME NEW k \in 1..d, k - 1 \in S PROVE k \in S
  <2> DEFINE i == c - k
             j == e - k
             s == L[i]
             t == M[j]
  <2>1. /\ k \in 0..d /\ i \in 1..(c - 1) /\ i \in 1..c /\ j \in 1..(e - 1) /\ j \in 1..e
        /\ c - (k - 1) = i + 1 /\ e - (k - 1) = j + 1
    BY <1>1, <1>2, <1>4
  <2>2. L[i + 1] = M[j + 1]
    <3>1. L[c - (k - 1)] = M[e - (k - 1)]
      BY <1>6
    <3> HIDE DEF i, j
    <3> QED
      BY <2>1, <3>1
  <2> HIDE DEF i, j
  <2>3. L[i + 1] = NextLevel(s) /\ (\E V : s \in Seq(V)) /\ Len(s) \in Nat \ {0} /\ IsInjective(s)
    BY <1>1, <1>3, <2>1
  <2>4. M[j + 1] = NextLevel(t) /\ (\E V : t \in Seq(V)) /\ Len(t) \in Nat \ {0} /\ IsInjective(t)
    BY <1>2, <1>3, <2>1
  <2> HIDE DEF s, t
  <2>5. PICK V : s \in Seq(V)
    BY <2>3
  <2>6. PICK W : t \in Seq(W)
    BY <2>4
  <2>7. NextLevel(s) = NextLevel(t) /\ IsInjective(s) /\ IsInjective(t)
    <3>1. L[i + 1] = NextLevel(s) /\ M[j + 1] = NextLevel(t)
      BY <2>3, <2>4
    <3> QED
      BY <2>2, <2>3, <2>4, <3>1
  <2>8. s = t
    <3>1. Len(s) >= 1 /\ Len(t) >= 1
      BY <2>3, <2>4
    <3> QED
      BY <2>5, <2>6, <2>7, <3>1, LevelDetermines
  <2> QED
    BY <2>1, <2>8 DEF s, t, i, j
<1> HIDE DEF S, zero
<1>7. 0..d \subseteq S
  <2>1. \A k \in 1..d : k - 1 \in S => k \in S
    BY <1>6
  <2>2. 0 \in S
    BY <1>5 DEF zero
  <2>3. d \in Nat
    BY <1>1
  <2> HIDE DEF d
  <2> QED
    BY <2>1, <2>2, <2>3, CountInduction
<1>8. d \in S /\ c - d = 1
  BY <1>1, <1>7
<1> HIDE DEF d
<1>9. L[c - d] = M[e - d]
  BY <1>8 DEF S
<1>10. L[1] = M[e - d]
  BY <1>8, <1>9
<1> QED
  BY <1>10 DEF e, d, c

\* Nor is the lower one a part of the higher one: a transaction is not a pair of
\* hashes.
LEMMA DepthsAgree ==
  ASSUME NEW P, \A p \in P : "vin" \in DOMAIN p, NEW leaves1 \in Seq(P),
         NEW L, IsTree(L, leaves1), IsInjective(leaves1), leaves1 # <<>>,
         NEW leaves2, NEW M, IsTree(M, leaves2), IsInjective(leaves2),
         Len(L) <= Len(M), L[Len(L)] = M[Len(M)]
  PROVE  Len(L) = Len(M) /\ leaves1 = leaves2
<1> DEFINE c == Len(L)
           e == Len(M)
           j == e - (c - 1)
<1>1. c \in Nat \ {0} /\ L[1] = leaves1
  BY TreeHas
<1>2. /\ e \in Nat \ {0} /\ M[1] = leaves2
      /\ \A k \in 1..e : Len(M[k]) \in Nat \ {0} /\ \E V : M[k] \in Seq(V)
      /\ \A k \in 1..(e - 1) : Len(M[k]) >= 2 /\ M[k + 1] = NextLevel(M[k])
  BY TreeHas
<1>3. L[1] = M[j]
  BY TreesAgree
<1>4. c <= e
  OBVIOUS
<1> HIDE DEF c, e
<1>5. CASE c = e
  <2>1. j = 1
    BY <1>1, <1>2, <1>5
  <2> QED
    BY <1>1, <1>2, <1>3, <1>5, <2>1 DEF c, e
<1>6. CASE c # e
  <2> DEFINE i == j - 1
             s == M[i]
  <2>1. i \in 1..(e - 1) /\ i \in 1..e /\ i + 1 = j
    BY <1>1, <1>2, <1>4, <1>6
  <2> HIDE DEF j, i
  <2>2. M[j] = NextLevel(s) /\ Len(s) \in Nat \ {0} /\ Len(s) >= 2 /\ \E V : s \in Seq(V)
    BY <1>2, <2>1
  <2> HIDE DEF s
  <2>3. PICK V : s \in Seq(V)
    BY <2>2
  <2>4. Len(s) >= 1
    BY <2>2
  <2>5. \A k \in 1..((Len(s) + 1) \div 2) : NextLevel(s)[k] = Hash(s[2 * k - 1], s[Least(2 * k, Len(s))])
    BY <2>3, <2>4, NextLevelIs
  <2>6. 1 \in 1..((Len(s) + 1) \div 2)
    BY <2>2
  <2>7. \E a, b : leaves1[1] = Hash(a, b)
    BY <1>1, <1>3, <2>2, <2>5, <2>6
  <2>8. leaves1[1] \in P
    OBVIOUS
  <2> DEFINE t == leaves1[1]
  <2> HIDE DEF t
  <2>9. DOMAIN t = {"left", "right"}
    BY <2>7 DEF Hash, t
  <2>10. "vin" \in DOMAIN t
    BY <2>8 DEF t
  <2> QED
    BY <2>9, <2>10
<1> QED
  BY <1>5, <1>6

\* Two checked blocks of one root have the same transactions, in the same order,
\* however many they are: no two of a checked block's transactions are equal, so
\* that none of them can be the repetition that pairs up an odd level
\* (CheckBlock, BuildMerkleTree).
THEOREM RootsDetermine ==
  ASSUME NEW In, NEW Out, NEW N,
         NEW block1, block1.vtx \in Seq([vin: In, vout: Out, nSigOps: N]),
         NEW block2, block2.vtx \in Seq([vin: In, vout: Out, nSigOps: N])
  PROVE  RootDetermines(block1, block2)
<1> SUFFICES ASSUME CheckBlock(block1), CheckBlock(block2),
                    block1.hashMerkleRoot = block2.hashMerkleRoot
             PROVE  block1.vtx = block2.vtx
  BY DEF RootDetermines
<1> DEFINE s == block1.vtx
           t == block2.vtx
           L == Levels(s)
           M == Levels(t)
           P == [vin: In, vout: Out, nSigOps: N]
<1>1. s \in Seq(P) /\ t \in Seq(P)
  OBVIOUS
<1>2. s # <<>> /\ t # <<>> /\ BuildMerkleTree(s) = BuildMerkleTree(t) /\ IsInjective(s) /\ IsInjective(t)
  BY Zenon DEF CheckBlock, UniqueTx
<1>0. \A p \in P : "vin" \in DOMAIN p
  OBVIOUS
<1> HIDE DEF s, t, P
<1>3. IsTree(L, s) /\ Len(Last(L)) = 1 /\ IsTree(M, t) /\ Len(Last(M)) = 1
  <2>1. IsTree(L, s) /\ Len(Last(L)) = 1
    BY <1>1, <1>2, LevelsAre
  <2>2. IsTree(M, t) /\ Len(Last(M)) = 1
    BY <1>1, <1>2, LevelsAre
  <2> QED
    BY <2>1, <2>2
<1>4. Last(L)[1] = Last(M)[1]
  BY <1>2 DEF BuildMerkleTree
<1> HIDE DEF L, M
<1>5. L[Len(L)] = M[Len(M)] /\ Len(L) \in Nat /\ Len(M) \in Nat
  <2>1. /\ Len(L) \in Nat \ {0} /\ Last(L) = L[Len(L)]
        /\ \A n \in 1..Len(L) : \E V : L[n] \in Seq(V)
    BY <1>3, TreeHas
  <2>2. /\ Len(M) \in Nat \ {0} /\ Last(M) = M[Len(M)]
        /\ \A n \in 1..Len(M) : \E V : M[n] \in Seq(V)
    BY <1>3, TreeHas
  <2> DEFINE a == Last(L)
             b == Last(M)
  <2>3. (\E V : a \in Seq(V)) /\ \E V : b \in Seq(V)
    BY <2>1, <2>2
  <2>4. Len(a) = 1 /\ Len(b) = 1 /\ a[1] = b[1]
    BY <1>3, <1>4
  <2> HIDE DEF a, b
  <2>5. PICK V : a \in Seq(V)
    BY <2>3
  <2>6. PICK W : b \in Seq(W)
    BY <2>3
  <2>7. a = [i \in 1..1 |-> a[i]] /\ b = [i \in 1..1 |-> b[i]]
    BY <2>4, <2>5, <2>6
  <2>8. a = b
    BY <2>4, <2>7
  <2> QED
    BY <2>1, <2>2, <2>8 DEF a, b
<1>6. CASE Len(L) <= Len(M)
  <2>2. IsTree(L, s) /\ IsTree(M, t) /\ L[Len(L)] = M[Len(M)]
    BY <1>3, <1>5
  <2>3. IsInjective(s) /\ IsInjective(t) /\ s # <<>>
    BY <1>2
  <2>4. s = t
    BY <1>0, <1>1, <1>6, <2>2, <2>3, DepthsAgree
  <2> QED
    BY <2>4 DEF s, t
<1>7. CASE Len(M) <= Len(L)
  <2>1. M[Len(M)] = L[Len(L)]
    BY <1>5
  <2>3. IsTree(L, s) /\ IsTree(M, t)
    BY <1>3
  <2>4. IsInjective(s) /\ IsInjective(t) /\ t # <<>>
    BY <1>2
  <2>5. t = s
    BY <1>0, <1>1, <1>7, <2>1, <2>3, <2>4, DepthsAgree
  <2> QED
    BY <2>5 DEF s, t
<1> QED
  BY <1>5, <1>6, <1>7
=============================================================================
