------------------------------- MODULE Chain -------------------------------
(***************************************************************************)
(* The block index, the best chain and the block database of main.cpp and  *)
(* db.cpp.                                                                 *)
(*                                                                         *)
(* cs_main is held from the moment a block arrives until it is rejected or *)
(* becomes the tip, so the steps of one block are never interleaved with   *)
(* those of another.  They are separate actions here because the process   *)
(* may die between any two of them, and only what a database transaction   *)
(* committed survives.  nPhase says where in SetBestChain, or in           *)
(* CTxDB::LoadBlockIndex after a restart, the thread is.                   *)
(*                                                                         *)
(* A CBlockIndex pointer is the block itself.  pprev is hashPrevBlock,     *)
(* hashBestChain always equals *pindexBest->phashBlock and nBestHeight     *)
(* pindexBest->nHeight, so neither has a variable of its own.              *)
(***************************************************************************)
EXTENDS TxIndex

CONSTANTS
  GetBlockWork,         \* [Block -> work], from the target in nBits
  GetTotalBlocksEstimate, \* the height of the last checkpoint
  LateBlocks,           \* blocks CheckBlock may refuse at start-up, because
                        \* the clock of the restarted node is behind
  MaxCrashes,           \* bound on nCrashes
  MaxFaults             \* bound on nFaults

ASSUME WorkAssumption ==
  /\ GetBlockWork \in [Block -> Nat \ {0}]
  /\ GetTotalBlocksEstimate \in Nat
  /\ LateBlocks \subseteq Block \ {Genesis}
  /\ MaxCrashes \in Nat
  /\ MaxFaults \in Nat

VARIABLES
  nHeight,          \* its domain is mapBlockIndex
  bnChainWork,      \* work of the branch that ends at an indexed block
  pnext,            \* successor in the main chain, or NULL
  pindexBest,       \* the tip, as memory has it
  bnBestChainWork,  \* its work
  bnBestInvalidWork \* most work of a chain found invalid

memory == <<nHeight, bnChainWork, pnext, pindexBest, bnBestChainWork,
            bnBestInvalidWork>>

\* The records of the block database, as last committed.
VARIABLES
  dbHeight,             \* the blocks that have a record, with their heights
  dbNext,               \* the hashNext of each
  dbHashBestChain,
  dbBestInvalidWork,
  dbTxIndex             \* the transaction index

db == <<dbHeight, dbNext, dbHashBestChain, dbBestInvalidWork, dbTxIndex>>

VARIABLES
  nPhase,               \* the step the thread is at
  pindexNew,            \* the block SetBestChain was called for
  pindexIntermediate,   \* the block Reorganize was called for
  vpindexSecondary,     \* the blocks to connect after Reorganize
  pfork, plonger,       \* the two walks that look for the fork
  vDisconnect, vConnect,\* the blocks those walks passed
  pindex,               \* the block the open transaction has reached
  txnNext, txnTxIndex   \* what it has made of dbNext and dbTxIndex
                        \* (it writes the heights that memory has)

txn == <<txnNext, txnTxIndex>>

locals == <<pindexNew, pindexIntermediate, vpindexSecondary, pfork, plonger,
            vDisconnect, vConnect, pindex, txn>>

VARIABLES
  nCrashes,         \* restarts so far
  nFaults,          \* database or disk errors so far
  fSecondaryFailed  \* a block after Reorganize failed to connect, ever

history == <<nCrashes, nFaults, fSecondaryFailed>>

vars == <<memory, db, nPhase, locals, history>>

----------------------------------------------------------------------------
(* State. *)

mapBlockIndex == DOMAIN nHeight

Pointer == Block \cup {NULL}

nBestHeight == nHeight[pindexBest]

Phases == {"idle", "setbest", "postpone", "fork", "reorganize",
           "extend", "secondary", "publish", "load", "holed"}

TypeOK ==
  /\ mapBlockIndex \in SUBSET Block
  /\ nHeight \in [mapBlockIndex -> Nat]
  /\ DOMAIN bnChainWork \subseteq mapBlockIndex
  /\ bnChainWork \in [DOMAIN bnChainWork -> Nat]
  /\ pnext \in [mapBlockIndex -> Pointer]
  /\ pindexBest \in Block
  /\ bnBestChainWork \in Nat
  /\ bnBestInvalidWork \in Nat
  /\ dbHeight \in [DOMAIN dbHeight -> Nat]
  /\ dbNext \in [DOMAIN dbHeight -> Pointer]
  /\ dbHashBestChain \in Block
  /\ dbBestInvalidWork \in Nat
  /\ IsTxIndex(dbTxIndex)
  /\ nPhase \in Phases
  /\ pindexNew \in Block
  /\ pindexIntermediate \in Block
  /\ vpindexSecondary \subseteq Block
  /\ {pfork, plonger, pindex} \subseteq Block
  /\ vDisconnect \subseteq Block
  /\ vConnect \subseteq Block
  /\ txnNext \in [DOMAIN txnNext -> Pointer]
  /\ IsTxIndex(txnTxIndex)
  /\ nCrashes \in 0..MaxCrashes
  /\ nFaults \in 0..MaxFaults
  /\ fSecondaryFailed \in BOOLEAN

\* An empty data directory: LoadBlockIndex has added the genesis block, whose
\* coinbase SetBestChain does not put in the transaction index.
Init ==
  /\ nHeight = [b \in {Genesis} |-> 0]
  /\ bnChainWork = [b \in {Genesis} |-> GetBlockWork[Genesis]]
  /\ pnext = [b \in {Genesis} |-> NULL]
  /\ pindexBest = Genesis
  /\ bnBestChainWork = GetBlockWork[Genesis]
  /\ bnBestInvalidWork = 0
  /\ dbHeight = nHeight
  /\ dbNext = pnext
  /\ dbHashBestChain = Genesis
  /\ dbBestInvalidWork = 0
  /\ dbTxIndex = [t \in {} |-> NULL]
  /\ nPhase = "idle"
  /\ pindexNew = Genesis
  /\ pindexIntermediate = Genesis
  /\ vpindexSecondary = {}
  /\ pfork = Genesis /\ plonger = Genesis
  /\ vDisconnect = {} /\ vConnect = {}
  /\ pindex = Genesis
  /\ txnNext = dbNext
  /\ txnTxIndex = dbTxIndex
  /\ nCrashes = 0
  /\ nFaults = 0
  /\ fSecondaryFailed = FALSE

----------------------------------------------------------------------------
(* A new block. *)

\* AddToBlockIndex: the branch that ends at the new block b has more work.
IsNewBest(b) ==
  bnChainWork[hashPrevBlock[b]] + GetBlockWork[b] > bnBestChainWork

\* AcceptBlock and the start of AddToBlockIndex: a block whose predecessor is
\* indexed is written to its file and inserted into mapBlockIndex.  Its other
\* checks depend on the block and its ancestors only: the blocks that fail
\* one are never indexed, so Block has none of them.
InsertBlock(b) ==
  LET pprev == hashPrevBlock[b]
      nWork == bnChainWork[pprev] + GetBlockWork[b]
  IN  /\ nPhase = "idle"
      /\ b \notin mapBlockIndex
      /\ pprev \in mapBlockIndex
      /\ nHeight' = [x \in mapBlockIndex \cup {b} |->
                       IF x = b THEN nHeight[pprev] + 1 ELSE nHeight[x]]
      /\ bnChainWork' = [x \in mapBlockIndex \cup {b} |->
                           IF x = b THEN nWork ELSE bnChainWork[x]]
      /\ pnext' = [x \in mapBlockIndex \cup {b} |->
                     IF x = b THEN NULL ELSE pnext[x]]
      /\ pindexNew' = b
      /\ UNCHANGED <<pindexBest, bnBestChainWork, bnBestInvalidWork,
                     pindexIntermediate, vpindexSecondary, pfork, plonger,
                     vDisconnect, vConnect, pindex, txn, nCrashes,
                     fSecondaryFailed>>

\* The rest of AddToBlockIndex: the block's record is committed, and if its
\* branch has the most work SetBestChain is called.
AcceptBlock(b) ==
  /\ InsertBlock(b)
  /\ dbHeight' = [x \in DOMAIN dbHeight \cup {b} |->
                    IF x = b THEN nHeight'[b] ELSE dbHeight[x]]
  /\ dbNext' = [x \in DOMAIN dbNext \cup {b} |->
                  IF x = b THEN NULL ELSE dbNext[x]]
  /\ nPhase' = IF IsNewBest(b) THEN "setbest" ELSE "idle"
  /\ UNCHANGED <<dbHashBestChain, dbBestInvalidWork, dbTxIndex, nFaults>>

----------------------------------------------------------------------------
(* SetBestChain. *)

\* It opens a transaction.  A block on top of the tip is connected at once,
\* any other needs a reorganisation.
SetBestChain ==
  /\ nPhase = "setbest"
  /\ txnNext' = dbNext
  /\ txnTxIndex' = dbTxIndex
  /\ pindexIntermediate' = pindexNew
  /\ vpindexSecondary' = {}
  /\ pindex' = pindexBest
  /\ nPhase' = IF hashPrevBlock[pindexNew] = pindexBest THEN "extend" ELSE "postpone"
  /\ UNCHANGED <<memory, db, pindexNew, pfork, plonger, vDisconnect, vConnect,
                 history>>

\* Blocks after the first one with more work than the tip wait until that
\* one is the tip.
Postpone ==
  LET pprev == hashPrevBlock[pindexIntermediate]
  IN  /\ nPhase = "postpone"
      /\ pprev # NULL
      /\ bnChainWork[pprev] > bnBestChainWork
      /\ vpindexSecondary' = vpindexSecondary \cup {pindexIntermediate}
      /\ pindexIntermediate' = pprev
      /\ UNCHANGED <<memory, db, nPhase, pindexNew, pfork, plonger,
                     vDisconnect, vConnect, pindex, txn, history>>

\* Reorganize is called: the search for the fork starts at both tips.
Reorganize ==
  LET pprev == hashPrevBlock[pindexIntermediate]
  IN  /\ nPhase = "postpone"
      /\ pprev = NULL \/ bnChainWork[pprev] <= bnBestChainWork
      /\ pfork' = pindexBest
      /\ plonger' = pindexIntermediate
      /\ vDisconnect' = {}
      /\ vConnect' = {}
      /\ nPhase' = "fork"
      /\ UNCHANGED <<memory, db, pindexNew, pindexIntermediate,
                     vpindexSecondary, pindex, txn, history>>

\* The new branch is above the old one.
NewIsLonger == nHeight[plonger] > nHeight[pfork]

\* The new branch is walked back while it is higher, the old one otherwise.
FindFork ==
  /\ nPhase = "fork"
  /\ IF pfork = plonger
     THEN /\ nPhase' = "reorganize"
          /\ UNCHANGED <<pfork, plonger, vDisconnect, vConnect>>
     ELSE /\ nPhase' = "fork"
          /\ IF NewIsLonger
             THEN /\ vConnect' = vConnect \cup {plonger}
                  /\ plonger' = hashPrevBlock[plonger]
                  /\ UNCHANGED <<pfork, vDisconnect>>
             ELSE /\ vDisconnect' = vDisconnect \cup {pfork}
                  /\ pfork' = hashPrevBlock[pfork]
                  /\ UNCHANGED <<plonger, vConnect>>
  /\ UNCHANGED <<memory, db, pindexNew, pindexIntermediate, vpindexSecondary,
                 pindex, txn, history>>

----------------------------------------------------------------------------
(* Inside the transaction of a reorganisation. *)

fCheckSig == nBestHeight >= GetTotalBlocksEstimate

\* The record of the block before b is written, with this successor, on disk
\* only.  It is written whole, so a block that had no record gets one.
WriteNext(b, hashNext) ==
  [x \in DOMAIN txnNext \cup {hashPrevBlock[b]} |->
     IF x = hashPrevBlock[b] THEN hashNext ELSE txnNext[x]]

\* The heights in the records that a transaction with these successors leaves.
Heights(next) == [x \in DOMAIN next |-> nHeight[x]]

\* The chain of b does not connect: remember how much work it claims.
InvalidChainFound(b) ==
  IF bnChainWork[b] > bnBestInvalidWork
  THEN /\ bnBestInvalidWork' = bnChainWork[b]
       /\ dbBestInvalidWork' = bnChainWork[b]
       /\ UNCHANGED <<dbHeight, dbNext, dbHashBestChain, dbTxIndex>>
  ELSE UNCHANGED <<bnBestInvalidWork, db>>

\* Mutant: the block index is written outside the transaction.
DisconnectTipAtOnce ==
  /\ nPhase = "reorganize"
  /\ pindex \in vDisconnect
  /\ DisconnectBlock(pindex, txnTxIndex)
  /\ txnTxIndex' = Disconnected(pindex, txnTxIndex)
  /\ txnNext' = WriteNext(pindex, NULL)
  /\ dbNext' = txnNext'
  /\ dbHeight' = Heights(txnNext')
  /\ pindex' = hashPrevBlock[pindex]
  /\ UNCHANGED <<memory, dbHashBestChain, dbBestInvalidWork, dbTxIndex,
                 nPhase, pindexNew, pindexIntermediate, vpindexSecondary, pfork,
                 plonger, vDisconnect, vConnect, history>>

\* The blocks of the old branch are disconnected from its tip down to the
\* fork.
DisconnectTip ==
  /\ nPhase = "reorganize"
  /\ pindex \in vDisconnect
  /\ DisconnectBlock(pindex, txnTxIndex)
  /\ txnTxIndex' = Disconnected(pindex, txnTxIndex)
  /\ txnNext' = WriteNext(pindex, NULL)
  /\ pindex' = hashPrevBlock[pindex]
  /\ UNCHANGED <<memory, db, nPhase, pindexNew, pindexIntermediate,
                 vpindexSecondary, pfork, plonger, vDisconnect, vConnect,
                 history>>

\* The blocks of the new branch are connected from the fork up.
ConnectNext ==
  /\ nPhase = "reorganize"
  /\ pindex \notin vDisconnect
  /\ \E b \in vConnect :
       /\ hashPrevBlock[b] = pindex
       /\ ConnectBlock(b, txnTxIndex, fCheckSig)
       /\ txnTxIndex' = Connected(b, txnTxIndex)
       /\ txnNext' = WriteNext(b, b)
       /\ pindex' = b
  /\ UNCHANGED <<memory, db, nPhase, pindexNew, pindexIntermediate,
                 vpindexSecondary, pfork, plonger, vDisconnect, vConnect,
                 history>>

\* The old branch loses its successors, then the new branch gets them.
Relinked ==
  LET After(S, x) == {b \in S : hashPrevBlock[b] = x}
  IN  [x \in mapBlockIndex |->
         IF After(vConnect, x) # {} THEN CHOOSE b \in After(vConnect, x) : TRUE
         ELSE IF After(vDisconnect, x) # {} THEN NULL
         ELSE pnext[x]]

\* The database commits before memory changes.
CommitReorganize ==
  /\ nPhase = "reorganize"
  /\ pindex = pindexIntermediate
  /\ pindex \notin vDisconnect
  /\ dbHashBestChain' = pindexIntermediate
  /\ dbHeight' = Heights(txnNext)
  /\ dbNext' = txnNext
  /\ dbTxIndex' = txnTxIndex
  /\ pnext' = Relinked
  /\ nPhase' = IF vpindexSecondary = {} THEN "publish" ELSE "secondary"
  /\ UNCHANGED <<nHeight, bnChainWork, pindexBest, bnBestChainWork,
                 bnBestInvalidWork, dbBestInvalidWork, locals, history>>

\* A block of either branch is refused: nothing was committed, and the tip
\* stays where it was.
ReorganizeFails ==
  /\ nPhase = "reorganize"
  /\ IF pindex \in vDisconnect
     THEN ~ DisconnectBlock(pindex, txnTxIndex)
     ELSE \E b \in vConnect : /\ hashPrevBlock[b] = pindex
                              /\ ~ ConnectBlock(b, txnTxIndex, fCheckSig)
  /\ InvalidChainFound(pindexNew)
  /\ nPhase' = "idle"
  /\ UNCHANGED <<nHeight, bnChainWork, pnext, pindexBest, bnBestChainWork,
                 locals, history>>

----------------------------------------------------------------------------
(* SetBestChainInner: one block on top of the committed tip. *)

\* The block SetBestChainInner is called for: the new block, or after a
\* reorganisation the next block that was postponed.
InnerBlock ==
  IF nPhase = "extend" THEN pindexNew
  ELSE CHOOSE b \in vpindexSecondary : hashPrevBlock[b] = pindex

\* It connects, and its transaction commits.
SetBestChainInner ==
  LET b == InnerBlock
  IN  /\ nPhase \in {"extend", "secondary"}
      /\ ConnectBlock(b, txnTxIndex, fCheckSig)
      /\ dbHashBestChain' = b
      /\ dbNext' = WriteNext(b, b)
      /\ dbHeight' = Heights(dbNext')
      /\ dbTxIndex' = Connected(b, txnTxIndex)
      /\ txnNext' = dbNext'
      /\ txnTxIndex' = dbTxIndex'
      /\ pnext' = [pnext EXCEPT ![hashPrevBlock[b]] = b]
      /\ pindex' = b
      /\ vpindexSecondary' = vpindexSecondary \ {b}
      /\ nPhase' = IF vpindexSecondary' = {} THEN "publish" ELSE "secondary"
      /\ UNCHANGED <<nHeight, bnChainWork, pindexBest, bnBestChainWork,
                     bnBestInvalidWork, dbBestInvalidWork, pindexNew,
                     pindexIntermediate, pfork, plonger, vDisconnect,
                     vConnect, history>>

\* It does not connect.  A new block on top of the tip is then given up, but
\* a postponed one only ends the loop of SetBestChain: "errors now are not
\* fatal".
SetBestChainInnerFails ==
  /\ nPhase \in {"extend", "secondary"}
  /\ ~ ConnectBlock(InnerBlock, txnTxIndex, fCheckSig)
  /\ InvalidChainFound(InnerBlock)
  /\ nPhase' = IF nPhase = "extend" THEN "idle" ELSE "publish"
  /\ fSecondaryFailed' = (fSecondaryFailed \/ nPhase = "secondary")
  /\ UNCHANGED <<nHeight, bnChainWork, pnext, pindexBest, bnBestChainWork,
                 locals, nCrashes, nFaults>>

\* The end of SetBestChain: the block it was called for becomes the tip.
NewBestBlock ==
  /\ nPhase = "publish"
  /\ pindexBest' = pindexNew
  /\ bnBestChainWork' = bnChainWork[pindexNew]
  /\ nPhase' = "idle"
  /\ UNCHANGED <<nHeight, bnChainWork, pnext, bnBestInvalidWork, db, locals,
                 history>>

----------------------------------------------------------------------------
(* Errors of the database or of the disk. *)

Fault == nFaults < MaxFaults /\ nFaults' = nFaults + 1

\* AddToBlockIndex cannot begin or commit the transaction for the record of b
\* and returns false: memory has the block all the same.
AddToBlockIndexFails(b) ==
  /\ Fault
  /\ InsertBlock(b)
  /\ nPhase' = "idle"
  /\ UNCHANGED db

\* WriteBlockIndex fails there, which AddToBlockIndex does not notice.
RecordIsLost(b) ==
  /\ Fault
  /\ InsertBlock(b)
  /\ nPhase' = IF IsNewBest(b) THEN "setbest" ELSE "idle"
  /\ UNCHANGED db

\* TxnBegin fails, or a write or TxnCommit for a block on top of the tip:
\* SetBestChain returns false and the block stays indexed.  A write that
\* fails counts as an invalid block, a commit that fails does not.
ExtendFault ==
  /\ Fault
  /\ nPhase \in {"setbest", "extend"}
  /\ \/ UNCHANGED <<bnBestInvalidWork, db>>
     \/ nPhase = "extend" /\ InvalidChainFound(pindexNew)
  /\ nPhase' = "idle"
  /\ UNCHANGED <<nHeight, bnChainWork, pnext, pindexBest, bnBestChainWork,
                 locals, nCrashes, fSecondaryFailed>>

\* Mutant: memory has changed before the commit fails.
ReorganizeFaultRelinks ==
  /\ Fault
  /\ nPhase = "reorganize"
  /\ InvalidChainFound(pindexNew)
  /\ pnext' = Relinked
  /\ nPhase' = "idle"
  /\ UNCHANGED <<nHeight, bnChainWork, pindexBest, bnBestChainWork,
                 locals, nCrashes, fSecondaryFailed>>

\* A block cannot be read, a record not written or the transaction not
\* committed: SetBestChain does not tell it from an invalid block.
ReorganizeFault ==
  /\ Fault
  /\ nPhase = "reorganize"
  /\ InvalidChainFound(pindexNew)
  /\ nPhase' = "idle"
  /\ UNCHANGED <<nHeight, bnChainWork, pnext, pindexBest, bnBestChainWork,
                 locals, nCrashes, fSecondaryFailed>>

\* The same errors for a postponed block only end the loop.
SecondaryFault ==
  /\ Fault
  /\ nPhase = "secondary"
  /\ \/ UNCHANGED <<bnBestInvalidWork, db>>
     \/ InvalidChainFound(InnerBlock)
  /\ nPhase' = "publish"
  /\ fSecondaryFailed' = TRUE
  /\ UNCHANGED <<nHeight, bnChainWork, pnext, pindexBest, bnBestChainWork,
                 locals, nCrashes>>

----------------------------------------------------------------------------
(* A restart. *)

\* Every block that a record names has a record, and so has the best block.
RecordsAreWhole ==
  /\ dbHashBestChain \in DOMAIN dbHeight
  /\ \A b \in DOMAIN dbHeight :
       {hashPrevBlock[b], dbNext[b]} \subseteq DOMAIN dbHeight \cup {NULL}

\* The process dies and starts again.  LoadBlockIndexGuts reads the block
\* records; memory starts from its initial values.
Crash ==
  /\ nCrashes < MaxCrashes
  /\ RecordsAreWhole
  /\ nCrashes' = nCrashes + 1
  /\ nHeight' = dbHeight
  /\ pnext' = dbNext
  /\ bnChainWork' = [b \in {} |-> 0]
  /\ pindexBest' = Genesis
  /\ bnBestChainWork' = 0
  /\ bnBestInvalidWork' = 0
  /\ nPhase' = "load"
  /\ UNCHANGED <<db, locals, nFaults, fSecondaryFailed>>

\* It dies after the record of a block was lost that others name: InsertBlockIndex
\* makes an empty entry for that block, or LoadBlockIndex does not find the
\* best one.  What the node is after such a start is not followed.
CrashWithHole ==
  /\ nPhase # "holed"
  /\ nCrashes < MaxCrashes
  /\ ~ RecordsAreWhole
  /\ nCrashes' = nCrashes + 1
  /\ nPhase' = "holed"
  /\ UNCHANGED <<memory, db, locals, nFaults, fSecondaryFailed>>

\* Mutant: only the blocks of the main chain get their work.
LoadMainChainWork ==
  /\ nPhase = "load"
  /\ \E b \in mapBlockIndex \ DOMAIN bnChainWork :
       /\ b = Genesis \/ \E x \in DOMAIN bnChainWork : pnext[x] = b
       /\ bnChainWork' =
            [x \in DOMAIN bnChainWork \cup {b} |->
               IF x # b THEN bnChainWork[x]
               ELSE GetBlockWork[b] +
                    IF b = Genesis THEN 0 ELSE bnChainWork[hashPrevBlock[b]]]
  /\ UNCHANGED <<nHeight, pnext, pindexBest, bnBestChainWork,
                 bnBestInvalidWork, db, nPhase, locals, history>>

\* LoadBlockIndex computes the work of every branch, lowest blocks first.
LoadChainWork ==
  /\ nPhase = "load"
  /\ \E b \in mapBlockIndex \ DOMAIN bnChainWork :
       /\ \A x \in mapBlockIndex \ DOMAIN bnChainWork : nHeight[b] <= nHeight[x]
       /\ bnChainWork' =
            [x \in DOMAIN bnChainWork \cup {b} |->
               IF x # b THEN bnChainWork[x]
               ELSE GetBlockWork[b] +
                    IF b = Genesis THEN 0 ELSE bnChainWork[hashPrevBlock[b]]]
  /\ UNCHANGED <<nHeight, pnext, pindexBest, bnBestChainWork,
                 bnBestInvalidWork, db, nPhase, locals, history>>

\* Then it finds the tip and checks the blocks of the best chain again.  From
\* the lowest that is refused, SetBestChain moves the tip back.
LoadBestChain ==
  /\ nPhase = "load"
  /\ DOMAIN bnChainWork = mapBlockIndex
  /\ pindexBest' = dbHashBestChain
  /\ bnBestChainWork' = bnChainWork[dbHashBestChain]
  /\ bnBestInvalidWork' = dbBestInvalidWork
  /\ \/ /\ nPhase' = "idle"
        /\ UNCHANGED pindexNew
     \/ \E b \in LateBlocks \cap mapBlockIndex :
          /\ pnext[b] # NULL \/ b = dbHashBestChain
          /\ pindexNew' = hashPrevBlock[b]
          /\ nPhase' = "setbest"
  /\ UNCHANGED <<nHeight, bnChainWork, pnext, db, pindexIntermediate,
                 vpindexSecondary, pfork, plonger, vDisconnect, vConnect,
                 pindex, txn, history>>

----------------------------------------------------------------------------

\* The steps of the thread that holds cs_main.
Step ==
  \/ SetBestChain
  \/ Postpone
  \/ Reorganize
  \/ FindFork
  \/ DisconnectTip
  \/ ConnectNext
  \/ CommitReorganize
  \/ ReorganizeFails
  \/ SetBestChainInner
  \/ SetBestChainInnerFails
  \/ NewBestBlock
  \/ LoadChainWork
  \/ LoadBestChain

Next ==
  \/ \E b \in Block : AcceptBlock(b)
  \/ \E b \in Block : AddToBlockIndexFails(b)
  \/ \E b \in Block : RecordIsLost(b)
  \/ Step
  \/ ExtendFault
  \/ ReorganizeFault
  \/ SecondaryFault
  \/ Crash
  \/ CrashWithHole

Spec == Init /\ [][Next]_vars

----------------------------------------------------------------------------

\* Between blocks memory and database agree on the tip ("make sure it's
\* successfully written to disk before changing memory structure"), unless a
\* postponed block failed to connect, and every record is that of the block
\* in memory, with its successor.  The blocks that only memory has are at
\* most one for each error, and no block of the main chain that has a
\* successor is one of them.
MemoryIsDatabase ==
  nPhase = "idle" =>
    /\ ~ fSecondaryFailed => pindexBest = dbHashBestChain
    /\ \A b \in DOMAIN dbHeight : /\ b \in mapBlockIndex
                                  /\ dbHeight[b] = nHeight[b]
                                  /\ dbNext[b] = pnext[b]
    /\ \A b \in mapBlockIndex \ DOMAIN dbHeight : pnext[b] = NULL
    /\ Cardinality(mapBlockIndex \ DOMAIN dbHeight) <= nFaults

\* The same without the exception, as the comments of SetBestChain have it:
\* a failure there is not fatal because the chain it reorganised to is valid.
TipIsCommitted == nPhase = "idle" => pindexBest = dbHashBestChain

\* The tip never gives up work once the index is loaded.
NeverLosesWork ==
  [][nPhase # "load" /\ nPhase' # "load" => bnBestChainWork' >= bnBestChainWork]_vars
=============================================================================
