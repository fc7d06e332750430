--------------------------- MODULE BlockByHeight ---------------------------
(***************************************************************************)
(* FindBlockByHeight of main.cpp, on top of Chain: it looks for the block  *)
(* of the main chain at a height and remembers the last one it found, from *)
(* which the next search may start.                                        *)
(***************************************************************************)
EXTENDS ChainReference

VARIABLE pblockindexFBBHLast  \* the block found last, or NULL

Distance(m, n) == IF m < n THEN n - m ELSE m - n

\* The search starts at the nearer end of the chain, or at the block found
\* last when that is nearer still.
SearchFrom(n) ==
  LET end == IF n < nBestHeight \div 2 THEN Genesis ELSE pindexBest
  IN  IF /\ pblockindexFBBHLast # NULL
         /\ Distance(n, nHeight[end]) > Distance(n, nHeight[pblockindexFBBHLast])
      THEN pblockindexFBBHLast
      ELSE end

\* The block m times pnext after b, NULL past the end of the main chain.
Forward(b, m) ==
  LET next[k \in 0..m] ==
        IF k = 0 THEN b
        ELSE IF next[k - 1] = NULL THEN NULL
        ELSE pnext[next[k - 1]]
  IN  next[m]

\* What the search returns.  NULL stands for the null pointer it would follow.
Found(n) ==
  LET b == SearchFrom(n)
  IN  IF nHeight[b] > n THEN Back(b, nHeight[b] - n)
      ELSE Forward(b, n - nHeight[b])

----------------------------------------------------------------------------

HeightInit == Init /\ pblockindexFBBHLast = NULL

\* The callers hold cs_main and ask for heights of the chain only.
FindBlockByHeight(n) ==
  /\ nPhase = "idle"
  /\ n \in 0..nBestHeight
  /\ pblockindexFBBHLast' = Found(n)
  /\ UNCHANGED vars

\* Mutant: the block found last outlives a new tip.
ForgetOnCrash ==
  \/ NewBestBlock /\ UNCHANGED pblockindexFBBHLast
  \/ (Crash \/ CrashWithHole) /\ pblockindexFBBHLast' = NULL

\* A new tip makes SetBestChain forget the block found last.
ForgetLast ==
  /\ NewBestBlock \/ Crash \/ CrashWithHole
  /\ pblockindexFBBHLast' = NULL

KeepLast ==
  /\ \/ \E b \in Block : AcceptBlock(b) \/ AddToBlockIndexFails(b) \/ RecordIsLost(b)
     \/ SetBestChain \/ Postpone \/ Reorganize \/ FindFork
     \/ DisconnectTip \/ ConnectNext \/ CommitReorganize \/ ReorganizeFails
     \/ SetBestChainInner \/ SetBestChainInnerFails
     \/ ExtendFault \/ ReorganizeFault \/ SecondaryFault
     \/ LoadChainWork \/ LoadBestChain
  /\ UNCHANGED pblockindexFBBHLast

HeightNext ==
  \/ \E n \in 0..Cardinality(Block) : FindBlockByHeight(n)
  \/ ForgetLast
  \/ KeepLast

HeightSpec == HeightInit /\ [][HeightNext]_<<vars, pblockindexFBBHLast>>

----------------------------------------------------------------------------

\* Whatever was found before, and whatever reorganisation came in between,
\* the search follows no null pointer and returns the block of the main chain
\* at that height.
FindsMainChainBlock ==
  nPhase = "idle" /\ ~ fSecondaryFailed =>
    \A n \in 0..nBestHeight :
      /\ Found(n) \in Ancestors[pindexBest]
      /\ Height(Found(n)) = n
=============================================================================
