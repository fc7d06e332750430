--------------------------- MODULE ChainReference ---------------------------
(***************************************************************************)
(* What Chain has to achieve, stated without its machinery: the coins a    *)
(* branch leaves unspent are found by replaying the branch from the first  *)
(* block, and the properties compare the state of Chain with that.         *)
(***************************************************************************)
EXTENDS Chain

\* A block names the hash of its predecessor, so no walk back goes round or on
\* for ever: every set of blocks has one whose predecessor is not in it.
ASSUME AncestryAssumption ==
  \A S \in SUBSET Block : S # {} => \E b \in S : hashPrevBlock[b] \notin S

\* CheckBlock refuses a block that has a transaction twice.
ASSUME UniqueTxAssumption ==
  \A b \in Block : \A i, j \in DOMAIN vtx[b] : vtx[b][i] = vtx[b][j] => i = j

Ancestors[b \in Block] ==
  IF b = Genesis THEN {b} ELSE {b} \cup Ancestors[hashPrevBlock[b]]

Height(b) == Cardinality(Ancestors[b]) - 1

BranchWork[b \in Block] ==
  GetBlockWork[b] + IF b = Genesis THEN 0 ELSE BranchWork[hashPrevBlock[b]]

\* One transaction of a block at height h: it takes its coins, which must all
\* be there and mature, and leaves new ones.
Pay(state, t, h) ==
  LET taken == {c \in state.coins : c.out \in vin[t]}
  IN  [ok |-> /\ state.ok
              /\ vin[t] = {c.out : c \in taken}
              /\ \A c \in taken : c.out[1] \in CoinBase =>
                                     h - c.height >= COINBASE_MATURITY,
       coins |-> (state.coins \ taken) \cup
                 {[out |-> <<t, n>>, height |-> h] : n \in Outputs(t)}]

\* The transactions of b, one after the other.
PayAll(state, b) ==
  LET paid[i \in 0..Len(vtx[b])] ==
        IF i = 0 THEN state ELSE Pay(paid[i - 1], vtx[b][i], Height(b))
  IN  paid[Len(vtx[b])]

\* The coins after the branch that ends at b, and whether it is valid.  The
\* coinbase of the first block never becomes a coin.
Replay[b \in Block] ==
  IF b = Genesis THEN [ok |-> TRUE, coins |-> {}]
  ELSE LET before == Replay[hashPrevBlock[b]]
           start  ==
             [ok |-> /\ before.ok
                     /\ b \notin BadValue
                     /\ Height(b) > GetTotalBlocksEstimate => b \notin BadSig
                     /\ \A c \in before.coins : c.out[1] \notin Transactions(b),
              coins |-> before.coins]
       IN  PayAll(start, b)

ValidBranches == {b \in Block : Replay[b].ok}

Coins(b) == {c.out : c \in Replay[b].coins}

----------------------------------------------------------------------------

\* The unspent outputs of the transaction index are those of the best chain
\* in the database, whatever was connected, disconnected or given up before
\* (ConnectBlock, DisconnectBlock and the transactions around them).
UnspentIsReplay ==
  ~ fSecondaryFailed => Unspent(dbTxIndex) = Coins(dbHashBestChain)

\* Every block below the best one has a record whose hashNext leads along the
\* best chain, and no block off it has a hashNext: whatever failed before, a
\* crash at any point leaves one chain of records on disk, unless a postponed
\* block failed to connect.  The record of the best block itself may be lost.
DatabaseIsOneChain ==
  ~ fSecondaryFailed =>
    /\ \A c \in Ancestors[dbHashBestChain] \ {Genesis} :
         /\ hashPrevBlock[c] \in DOMAIN dbNext
         /\ dbNext[hashPrevBlock[c]] = c
    /\ \A b \in DOMAIN dbNext :
         dbNext[b] = NULL \/ /\ dbNext[b] \in Ancestors[dbHashBestChain]
                             /\ hashPrevBlock[dbNext[b]] = b

\* No crash, no error: no valid branch of the index has more work than the
\* tip.  Needs every reorganisation to a valid branch to succeed.
TipIsHeaviest ==
  nPhase = "idle" /\ nCrashes = 0 /\ nFaults = 0 =>
    \A b \in mapBlockIndex \cap ValidBranches :
      BranchWork[b] <= BranchWork[pindexBest]

\* What the database shows is a BestChain.
DatabaseBestChain ==
  INSTANCE BestChain WITH
    Prev <- hashPrevBlock, Work <- BranchWork, ValidBranch <- ValidBranches,
    known <- DOMAIN dbHeight, tip <- dbHashBestChain

ImplementsBestChain == DatabaseBestChain!Spec

\* The thread that holds cs_main runs until the block is dealt with: nothing
\* in its steps waits.
FairSpec == Spec /\ WF_vars(Step)

\* SetBestChain and LoadBlockIndex return: the walks to the fork, the blocks
\* to disconnect and connect and the postponed blocks all run out, so
\* cs_main is released again.  A start on a block index with a hole is not
\* followed.
AlwaysReturns == nPhase # "idle" ~> nPhase \in {"idle", "holed"}
=============================================================================
