--------------------------- MODULE TxPoolProofs ---------------------------
(***************************************************************************)
(* Theorems about TxPool, for every set of transactions and blocks.  Those *)
(* of ChainProofs hold of it too, because its behaviours are behaviours of *)
(* Chain.                                                                  *)
(***************************************************************************)
EXTENDS TxPool, ChainProofs

\* Whatever the pool does is a step of Chain or none.
THEOREM PoolRunsChain == PoolSpec => Spec
<1>1. PoolInit => Init
  BY DEF PoolInit
<1>2. [PoolNext]_allVars => [Next]_vars
  <2> SUFFICES ASSUME [PoolNext]_allVars PROVE [Next]_vars
    OBVIOUS
  <2>1. CASE ChainStep
    BY <2>1 DEF ChainStep, Next, Step
  <2>2. CASE PoolCommitReorganize
    BY <2>2 DEF PoolCommitReorganize, Next, Step
  <2>3. CASE PoolSetBestChainInner
    BY <2>3 DEF PoolSetBestChainInner, Next, Step
  <2>4. CASE PoolCrash
    BY <2>4 DEF PoolCrash, Next
  <2>5. CASE \E t \in Tx : AcceptToMemoryPool(t) \/ ReceiveTx(t) \/ AddOrphanTx(t)
    BY <2>5 DEF AcceptToMemoryPool, ReceiveTx, AddOrphanTx
  <2>6. CASE HandlerStep
    BY <2>6 DEF HandlerStep, Resurrect, DeleteRedundant, TryOrphan, NextInQueue, EraseOrphans
  <2>7. CASE UNCHANGED allVars
    BY <2>7 DEF allVars
  <2> QED
    BY <2>1, <2>2, <2>3, <2>4, <2>5, <2>6, <2>7 DEF PoolNext
<1> QED
  BY <1>1, <1>2, PTL DEF PoolSpec, Spec

----------------------------------------------------------------------------
(* The pool. *)

PoolPart ==
  /\ mapTx \subseteq Tx
  /\ DOMAIN mapNextTx \subseteq OutPoint
  /\ mapNextTx \in [DOMAIN mapNextTx -> Tx]
  /\ NextTxIsPool

\* Accepting a transaction whose out points nobody in the pool spends.
LEMMA AddKeepsPool ==
  ASSUME PoolPart, NEW t \in Tx, ~ Refused(t), addUnchecked(t)
  PROVE  PoolPart'
<1>1. vin[t] \subseteq OutPoint
  BY TxAssumption DEF OutPoint
<1>2. vin[t] \cap DOMAIN mapNextTx = {}
  BY DEF Refused
<1>3. /\ mapTx' = mapTx \cup {t}
      /\ DOMAIN mapNextTx' = DOMAIN mapNextTx \cup vin[t]
      /\ \A o \in DOMAIN mapNextTx \cup vin[t] :
           mapNextTx'[o] = IF o \in vin[t] THEN t ELSE mapNextTx[o]
      /\ mapNextTx' \in [DOMAIN mapNextTx' -> Tx]
  BY DEF addUnchecked, PoolPart
<1>4. NextTxIsPool'
  BY <1>2, <1>3 DEF NextTxIsPool, PoolPart
<1> QED
  BY <1>1, <1>3, <1>4 DEF PoolPart

\* Removing any set of transactions.
LEMMA RemoveKeepsPool ==
  ASSUME PoolPart, NEW S, remove(S)
  PROVE  PoolPart'
<1> DEFINE spent == UNION {vin[t] : t \in S \cap mapTx}
<1>1. /\ mapTx' = mapTx \ S
      /\ DOMAIN mapNextTx' = DOMAIN mapNextTx \ spent
      /\ \A o \in DOMAIN mapNextTx \ spent : mapNextTx'[o] = mapNextTx[o]
      /\ mapNextTx' \in [DOMAIN mapNextTx' -> Tx]
  BY DEF remove, PoolPart
<1>2. \A t \in mapTx \ S : vin[t] \cap spent = {}
  BY DEF PoolPart, NextTxIsPool
<1>3. NextTxIsPool'
  BY <1>1, <1>2 DEF NextTxIsPool, PoolPart
<1> QED
  BY <1>1, <1>3 DEF PoolPart

----------------------------------------------------------------------------
(* The orphans. *)

OrphanPart ==
  /\ mapOrphanTransactions \subseteq Tx
  /\ mapOrphanTransactionsByPrev \in [Tx -> SUBSET Tx]
  /\ OrphansByPrev
  /\ IsFiniteSet(mapOrphanTransactions)
  /\ OrphansBounded

\* Erasing orphans takes them out of every set they are in.
LEMMA EraseKeepsOrphans ==
  ASSUME OrphanPart, EraseOrphans
  PROVE  OrphanPart'
<1>1. /\ mapOrphanTransactions' = mapOrphanTransactions \ vEraseQueue
      /\ mapOrphanTransactions' \subseteq mapOrphanTransactions
      /\ mapOrphanTransactionsByPrev' =
           ByPrevWithout(mapOrphanTransactionsByPrev, vEraseQueue \cap mapOrphanTransactions)
  BY DEF EraseOrphans
<1>2. /\ IsFiniteSet(mapOrphanTransactions')
      /\ Cardinality(mapOrphanTransactions') <= Cardinality(mapOrphanTransactions)
      /\ Cardinality(mapOrphanTransactions) \in Nat
      /\ Cardinality(mapOrphanTransactions') \in Nat
  BY <1>1, FS_Subset, FS_CardinalityType DEF OrphanPart
<1>3. OrphansBounded'
  BY <1>2, PoolAssumption DEF OrphansBounded, OrphanPart
<1>4. OrphansByPrev'
  BY <1>1 DEF OrphansByPrev, OrphanPart, ByPrevWithout
<1> QED
  BY <1>1, <1>2, <1>3, <1>4 DEF OrphanPart, ByPrevWithout

\* So does evicting one to make room for another.
LEMMA AddKeepsOrphans ==
  ASSUME OrphanPart, NEW t \in Tx, AddOrphanTx(t)
  PROVE  OrphanPart'
<1> DEFINE with == mapOrphanTransactions \cup {t}
<1>1. /\ with \subseteq Tx /\ t \notin mapOrphanTransactions
      /\ IsFiniteSet(with)
      /\ Cardinality(with) = Cardinality(mapOrphanTransactions) + 1
      /\ Cardinality(mapOrphanTransactions) \in Nat
  BY FS_AddElement, FS_CardinalityType DEF OrphanPart, AddOrphanTx
<1>2. ByPrevWith(t) = [p \in Tx |-> {u \in with : p \in Parents(u)}]
  BY DEF ByPrevWith, OrphanPart, OrphansByPrev
<1>3. CASE Cardinality(with) > MAX_ORPHAN_TRANSACTIONS
  <2>1. PICK o \in with :
          /\ mapOrphanTransactions' = with \ {o}
          /\ mapOrphanTransactionsByPrev' = ByPrevWithout(ByPrevWith(t), {o})
    BY <1>3 DEF AddOrphanTx, TooMany
  <2>2. mapOrphanTransactionsByPrev' =
          [p \in Tx |-> {u \in with \ {o} : p \in Parents(u)}]
    BY <1>2, <2>1 DEF ByPrevWithout
  <2>3. /\ IsFiniteSet(with \ {o})
        /\ Cardinality(with \ {o}) = Cardinality(mapOrphanTransactions)
    BY <1>1, FS_RemoveElement
  <2> QED
    BY <1>1, <2>1, <2>2, <2>3 DEF OrphanPart, OrphansByPrev, OrphansBounded
<1>4. CASE Cardinality(with) <= MAX_ORPHAN_TRANSACTIONS
  <2>1. /\ mapOrphanTransactions' = with
        /\ mapOrphanTransactionsByPrev' = [p \in Tx |-> {u \in with : p \in Parents(u)}]
    BY <1>1, <1>2, <1>4, PoolAssumption DEF AddOrphanTx, TooMany
  <2> QED
    BY <1>1, <1>4, <2>1 DEF OrphanPart, OrphansByPrev, OrphansBounded
<1> QED
  BY <1>1, <1>3, <1>4, PoolAssumption

----------------------------------------------------------------------------
(* The transactions of the index, inside a reorganisation. *)

\* What the open transaction has made of the transactions in the index.
TxDomainInv ==
  /\ nPhase \in {"extend", "postpone", "fork", "secondary"} => txnTxIndex = dbTxIndex
  /\ nPhase = "reorganize" =>
       DOMAIN txnTxIndex \subseteq
         (DOMAIN dbTxIndex \ TransactionsOf(Undone)) \cup TransactionsOf(Done)

\* When the search for the fork ends nothing is undone or done.
LEMMA ReorganizeStarts ==
  ASSUME IInv, FindFork, nPhase' = "reorganize"
  PROVE  Undone' = {}
<1>1. /\ pindex' = pindexBest
      /\ UNCHANGED <<vDisconnect, nHeight>>
      /\ Segment(vDisconnect, pfork, pindexBest, nHeight)
      /\ nHeight[pindexBest] \in Nat
      /\ \A b \in vDisconnect : nHeight[b] \in Nat /\ nHeight[b] <= nHeight[pindexBest]
  BY DEF FindFork, IInv, TxnInv, ForkInv, IndexInv, Linked, Segment, memory
<1>2. CASE pindexBest \in vDisconnect
  BY <1>1, <1>2 DEF Undone
<1>3. CASE pindexBest \notin vDisconnect
  <2>1. pindexBest = pfork /\ vDisconnect = {}
    BY <1>1, <1>3 DEF Segment
  <2> QED
    BY <1>1, <2>1 DEF Undone
<1> QED
  BY <1>2, <1>3

\* Connecting the next block adds it, and all that was undone stays undone.
LEMMA DoneGrows ==
  ASSUME IInv, NEW b \in vConnect, nPhase = "reorganize", pindex \notin vDisconnect,
         hashPrevBlock[b] = pindex, pindex' = b,
         UNCHANGED <<nHeight, vDisconnect, vConnect>>
  PROVE  Undone' = Undone /\ Done \cup {b} \subseteq Done'
<1>1. /\ b \notin vDisconnect
      /\ nHeight[b] = nHeight[pindex] + 1
      /\ nHeight[pindex] \in Nat
      /\ \A c \in vConnect : nHeight[c] \in Nat
  BY DEF IInv, ForkInv, IndexInv, Linked, Segment
<1> QED
  BY <1>1 DEF Undone, Done

\* The domain of the transaction's index follows what was undone and done.
LEMMA TxDomainStep ==
  ASSUME IInv, TxDomainInv, [Next]_vars PROVE TxDomainInv'
<1> USE DEF TxDomainInv, TransactionsOf
<1>1. CASE DisconnectTip
  <2>1. DOMAIN txnTxIndex' = DOMAIN txnTxIndex \ Transactions(pindex)
    BY <1>1 DEF DisconnectTip, Disconnected
  <2>2. Undone' = Undone \cup {pindex} /\ Done = {} /\ Done' = {}
    BY <1>1, UndoneGrows
  <2> QED
    BY <1>1, <2>1, <2>2 DEF DisconnectTip, db
<1>2. CASE ConnectNext
  <2>1. PICK b \in vConnect : /\ hashPrevBlock[b] = pindex /\ pindex' = b
                              /\ txnTxIndex' = Connected(b, txnTxIndex)
    BY <1>2 DEF ConnectNext
  <2>2. Undone' = Undone /\ Done \cup {b} \subseteq Done'
    BY <1>2, <2>1, DoneGrows DEF ConnectNext, memory
  <2>3. DOMAIN txnTxIndex' = DOMAIN txnTxIndex \cup Transactions(b)
    BY <2>1 DEF Connected
  <2> QED
    BY <1>2, <2>2, <2>3 DEF ConnectNext, db
<1>3. CASE FindFork
  <2>1. UNCHANGED <<txnTxIndex, dbTxIndex>> /\ txnTxIndex = dbTxIndex
    BY <1>3 DEF FindFork, db, txn
  <2>2. nPhase' = "reorganize" => Undone' = {}
    BY <1>3, ReorganizeStarts
  <2> QED
    BY <1>3, <2>1, <2>2 DEF FindFork
<1>4. ASSUME NEW b \in Block, AcceptBlock(b) \/ AddToBlockIndexFails(b) \/ RecordIsLost(b)
      PROVE  TxDomainInv'
  BY <1>4 DEF AcceptBlock, AddToBlockIndexFails, RecordIsLost, InsertBlock, db, txn
<1>5. CASE UNCHANGED vars
  BY <1>5 DEF vars, db, locals, txn, memory, Undone, Done
<1> QED
  BY <1>1, <1>2, <1>3, <1>4, <1>5
  DEF Next, Step, SetBestChain, Postpone, Reorganize, CommitReorganize, ReorganizeFails,
      SetBestChainInner, SetBestChainInnerFails, NewBestBlock, ExtendFault,
      ReorganizeFault, SecondaryFault, Crash, CrashWithHole, LoadChainWork, LoadBestChain,
      InvalidChainFound, memory, db, locals, txn

----------------------------------------------------------------------------
(* Pool and index. *)

\* What Reorganize has still to delete accounts for every transaction that is
\* in the index, and in the pool or about to be offered to it.
UnconfirmedInv ==
  /\ vTried \subseteq vResurrect
  /\ (mapTx \cup vResurrect) \cap DOMAIN dbTxIndex \subseteq vDelete

\* No step of Chain but the two that commit a new tip changes the index.
LEMMA IndexKept ==
  ASSUME IInv, ChainStep PROVE dbTxIndex' = dbTxIndex
BY DEF ChainStep, AcceptBlock, AddToBlockIndexFails, RecordIsLost, SetBestChain, Postpone,
       Reorganize, FindFork, DisconnectTip,
       ConnectNext, ReorganizeFails, SetBestChainInnerFails, NewBestBlock, ExtendFault,
       ReorganizeFault, SecondaryFault, LoadChainWork, LoadBestChain, InvalidChainFound, db

\* The new branch is committed: its transactions are those to delete, and the
\* old ones that are not among them have left the index.
LEMMA CommitKeepsUnconfirmed ==
  ASSUME IInv, TxDomainInv, UnconfirmedInv, PoolCommitReorganize
  PROVE  UnconfirmedInv'
<1>1. /\ nPhase = "reorganize" /\ pindex = pindexIntermediate /\ pindex \notin vDisconnect
      /\ dbTxIndex' = txnTxIndex
      /\ mapTx' = mapTx /\ vTried' = {}
      /\ vResurrect' = TransactionsOf(vDisconnect) \ CoinBase
      /\ vDelete' = TransactionsOf(vConnect)
      /\ vDelete = {} /\ vResurrect = {}
  BY DEF PoolCommitReorganize, CommitReorganize, PoolQuiet, pool
<1>2. Undone = vDisconnect /\ Done \subseteq vConnect
  BY <1>1 DEF Undone, Done
<1>3. DOMAIN txnTxIndex \subseteq
        (DOMAIN dbTxIndex \ TransactionsOf(vDisconnect)) \cup TransactionsOf(vConnect)
  BY <1>1, <1>2 DEF TxDomainInv, TransactionsOf
<1> QED
  BY <1>1, <1>3 DEF UnconfirmedInv

\* Every step keeps that account.
LEMMA UnconfirmedStep ==
  ASSUME IInv, TxDomainInv, UnconfirmedInv, PoolPart, [PoolNext]_allVars
  PROVE  UnconfirmedInv'
<1> USE DEF UnconfirmedInv, pool, reorg
<1>1. CASE ChainStep
  BY <1>1, IndexKept DEF ChainStep, poolVars
<1>2. CASE PoolCommitReorganize
  BY <1>2, CommitKeepsUnconfirmed
<1>3. CASE PoolSetBestChainInner
  <2>1. /\ txnTxIndex = dbTxIndex
        /\ dbTxIndex' = Connected(InnerBlock, txnTxIndex)
        /\ mapTx' = mapTx \ Transactions(InnerBlock)
        /\ vResurrect = {} /\ vDelete = {}
        /\ UNCHANGED reorg
    BY <1>3 DEF PoolSetBestChainInner, SetBestChainInner, TxDomainInv, remove, PoolQuiet
  <2>2. DOMAIN dbTxIndex' = DOMAIN dbTxIndex \cup Transactions(InnerBlock)
    BY <2>1 DEF Connected
  <2> QED
    BY <2>1, <2>2
<1>4. CASE PoolCrash
  BY <1>4 DEF PoolCrash
<1>5. ASSUME NEW t \in Tx, AcceptToMemoryPool(t) \/ ReceiveTx(t) \/ AddOrphanTx(t)
      PROVE  UnconfirmedInv'
  BY <1>5 DEF AcceptToMemoryPool, ReceiveTx, AddOrphanTx, AcceptSucceeds, addUnchecked,
              vars, db
<1>6. CASE HandlerStep
  <2>1. dbTxIndex' = dbTxIndex
    BY <1>6 DEF HandlerStep, Resurrect, DeleteRedundant, TryOrphan, NextInQueue,
                EraseOrphans, vars, db
  <2>2. CASE Resurrect
    BY <2>1, <2>2 DEF Resurrect, addUnchecked
  <2>3. CASE DeleteRedundant
    BY <2>1, <2>3 DEF DeleteRedundant, remove
  <2>4. ASSUME NEW o \in Tx, TryOrphan(o) PROVE UnconfirmedInv'
    BY <2>1, <2>4 DEF TryOrphan, AcceptSucceeds, addUnchecked
  <2>5. CASE NextInQueue \/ EraseOrphans
    BY <2>1, <2>5 DEF NextInQueue, EraseOrphans
  <2> QED
    BY <1>6, <2>2, <2>3, <2>4, <2>5 DEF HandlerStep
<1>7. CASE UNCHANGED allVars
  BY <1>7 DEF allVars, vars, db, poolVars
<1> QED
  BY <1>1, <1>2, <1>3, <1>4, <1>5, <1>6, <1>7 DEF PoolNext

----------------------------------------------------------------------------
(* The orphans of what the "tx" handler accepts. *)

\* The handler will still come to the orphan t: it is one of those that spend the
\* transaction at hand, or it spends one further on in the queue.
StillToTry(t) ==
  \/ t \in vByPrev
  \/ \E k \in (nWork + 1)..Len(vWorkQueue) : vWorkQueue[k] \in Parents(t)

\* An orphan that spends something accepted and is not to be erased will be tried
\* yet, or misses an input.
WaitingInv ==
  \A t \in mapOrphanTransactions \ vEraseQueue :
    SpendsAccepted(t) => StillToTry(t) \/ MissingInputs(t)

\* There are orphans to try only while the queue is not empty, and that is never
\* during a reorganisation.
BusyInv ==
  /\ vByPrev # {} => vWorkQueue # <<>>
  /\ vWorkQueue # <<>> => vResurrect \cup vDelete = {}

\* The pool grows by one orphan at a time, and by one that is then in the queue.
LEMMA TryKeepsWaiting ==
  ASSUME PoolTypeOK, OrphanPart, WaitingInv, NEW o \in Tx, TryOrphan(o)
  PROVE  WaitingInv'
<1>1. /\ vByPrev' = vByPrev \ {o} /\ UNCHANGED <<mapOrphanTransactions, nWork, dbTxIndex>>
      /\ nWork \in 0..Len(vWorkQueue) /\ vWorkQueue \in Seq(Tx)
  BY DEF TryOrphan, orphans, vars, db, PoolTypeOK
<1> SUFFICES ASSUME NEW t \in mapOrphanTransactions, t \notin vEraseQueue', SpendsAccepted(t)'
             PROVE  StillToTry(t)' \/ MissingInputs(t)'
  BY <1>1 DEF WaitingInv
<1>2. CASE AcceptSucceeds(o) /\ addUnchecked(o) /\ vWorkQueue' = Append(vWorkQueue, o)
           /\ vEraseQueue' = vEraseQueue \cup {o}
  <2>1. /\ t # o /\ t \notin vEraseQueue /\ mapTx' = mapTx \cup {o}
        /\ Len(vWorkQueue') = Len(vWorkQueue) + 1 /\ vWorkQueue'[Len(vWorkQueue) + 1] = o
        /\ \A k \in 1..Len(vWorkQueue) : vWorkQueue'[k] = vWorkQueue[k]
    BY <1>1, <1>2 DEF addUnchecked
  <2>2. CASE o \in Parents(t)
    <3>1. Len(vWorkQueue) + 1 \in (nWork' + 1)..Len(vWorkQueue')
      BY <1>1, <2>1
    <3> QED
      BY <2>1, <2>2, <3>1 DEF StillToTry
  <2>3. CASE o \notin Parents(t)
    <3>1. MissingInputs(t)' <=> MissingInputs(t)
      BY <1>1, <2>1, <2>3 DEF MissingInputs
    <3>2. SpendsAccepted(t)
      BY <1>1, <2>1, <2>3 DEF SpendsAccepted
    <3>3. StillToTry(t) => StillToTry(t)'
      BY <1>1, <2>1 DEF StillToTry
    <3> QED
      BY <2>1, <3>1, <3>2, <3>3 DEF WaitingInv
  <2> QED
    BY <2>2, <2>3
<1>3. CASE UNCHANGED <<pool, vWorkQueue>> /\ vEraseQueue \subseteq vEraseQueue'
           /\ (o \in vEraseQueue' \/ AcceptFindsMissing(o))
  <2>1. MissingInputs(t)' <=> MissingInputs(t)
    BY <1>1, <1>3 DEF MissingInputs, pool
  <2>2. SpendsAccepted(t) /\ t \notin vEraseQueue
    BY <1>3 DEF SpendsAccepted
  <2>3. StillToTry(t) => t = o \/ StillToTry(t)'
    BY <1>1, <1>3 DEF StillToTry
  <2>4. t = o => MissingInputs(t)
    BY <1>3 DEF AcceptFindsMissing
  <2> QED
    BY <2>1, <2>2, <2>3, <2>4 DEF WaitingInv
<1> QED
  BY <1>2, <1>3 DEF TryOrphan

\* Nothing else takes an orphan out of what is still to be tried, or adds to the pool
\* while the queue is not empty.
LEMMA WaitingStep ==
  ASSUME PoolTypeOK, OrphanPart, BusyInv, WaitingInv, [PoolNext]_allVars
  PROVE  BusyInv' /\ WaitingInv'
<1> USE DEF handler, reorg, BusyInv
<1>1. vWorkQueue' = <<>> => WaitingInv'
  BY DEF WaitingInv, SpendsAccepted
<1>2. CASE ChainStep \/ PoolCommitReorganize \/ PoolSetBestChainInner \/ PoolCrash
  BY <1>1, <1>2 DEF ChainStep, PoolCommitReorganize, PoolSetBestChainInner, PoolCrash, PoolQuiet,
                    poolVars
<1>3. ASSUME NEW t \in Tx, AcceptToMemoryPool(t) \/ AddOrphanTx(t)
      PROVE  BusyInv' /\ WaitingInv'
  BY <1>1, <1>3 DEF AcceptToMemoryPool, AddOrphanTx, Quiet, PoolQuiet
<1>4. ASSUME NEW t \in Tx, ReceiveTx(t)
      PROVE  BusyInv' /\ WaitingInv'
  <2>1. /\ vWorkQueue' = <<t>> /\ vByPrev' = {u \in mapOrphanTransactions : t \in Parents(u)}
        /\ mapOrphanTransactions' = mapOrphanTransactions /\ vResurrect' \cup vDelete' = {}
    BY <1>4 DEF ReceiveTx, Quiet, PoolQuiet, orphans, OrphanPart, OrphansByPrev
  <2>2. Len(<<t>>) = 1 /\ <<t>>[1] = t
    OBVIOUS
  <2>3. ASSUME NEW u \in mapOrphanTransactions, SpendsAccepted(u)' PROVE u \in vByPrev'
    BY <2>1, <2>2, <2>3 DEF SpendsAccepted
  <2> QED
    BY <2>1, <2>3 DEF WaitingInv, StillToTry
<1>5. CASE Resurrect \/ DeleteRedundant
  <2>1. vResurrect \cup vDelete # {} /\ UNCHANGED <<vWorkQueue, vByPrev>>
    BY <1>5 DEF Resurrect, DeleteRedundant
  <2> QED
    BY <1>1, <2>1
<1>6. ASSUME NEW o \in Tx, TryOrphan(o)
      PROVE  BusyInv' /\ WaitingInv'
  <2>1. vWorkQueue # <<>> /\ vResurrect' \cup vDelete' = {}
    BY <1>6 DEF TryOrphan
  <2>2. vWorkQueue' = vWorkQueue \/ vWorkQueue' = Append(vWorkQueue, o)
    BY <1>6 DEF TryOrphan
  <2>3. vWorkQueue' # <<>>
    BY <2>1, <2>2 DEF PoolTypeOK
  <2> QED
    BY <1>6, <2>1, <2>3, TryKeepsWaiting
<1>7. CASE NextInQueue
  <2>1. /\ vByPrev = {} /\ nWork' = nWork + 1 /\ nWork + 1 \in 1..Len(vWorkQueue)
        /\ vByPrev' = {u \in mapOrphanTransactions : vWorkQueue[nWork + 1] \in Parents(u)}
        /\ UNCHANGED <<vWorkQueue, vEraseQueue, mapOrphanTransactions, mapTx, dbTxIndex, vResurrect, vDelete>>
    BY <1>7 DEF NextInQueue, orphans, pool, vars, db, OrphanPart, OrphansByPrev, PoolTypeOK
  <2>2. ASSUME NEW t \in mapOrphanTransactions, StillToTry(t) PROVE StillToTry(t)'
    <3>1. PICK k \in (nWork + 1)..Len(vWorkQueue) : vWorkQueue[k] \in Parents(t)
      BY <2>1, <2>2 DEF StillToTry
    <3>2. k = nWork + 1 \/ k \in (nWork' + 1)..Len(vWorkQueue')
      BY <2>1
    <3> QED
      BY <2>1, <3>1, <3>2 DEF StillToTry
  <2>3. \A t : SpendsAccepted(t)' = SpendsAccepted(t) /\ MissingInputs(t)' = MissingInputs(t)
    BY <2>1 DEF SpendsAccepted, MissingInputs
  <2> QED
    BY <2>1, <2>2, <2>3 DEF WaitingInv
<1>8. CASE EraseOrphans
  BY <1>1, <1>8 DEF EraseOrphans
<1>9. CASE UNCHANGED allVars
  BY <1>9 DEF allVars, vars, db, poolVars, pool, orphans, WaitingInv, StillToTry, SpendsAccepted, MissingInputs
<1> QED
  BY <1>1, <1>2, <1>3, <1>4, <1>5, <1>6, <1>7, <1>8, <1>9 DEF PoolNext, HandlerStep

----------------------------------------------------------------------------
(* All of it together. *)

PoolInv ==
  /\ PoolTypeOK
  /\ PoolPart
  /\ OrphanPart
  /\ TxDomainInv
  /\ UnconfirmedInv
  /\ BusyInv
  /\ WaitingInv

\* The pool starts empty.
LEMMA PoolInvInit == PoolInit => PoolInv
<1> SUFFICES ASSUME PoolInit PROVE PoolInv
  OBVIOUS
<1> USE DEF PoolInit, EmptyPool
<1>1. PoolTypeOK
  BY DEF PoolTypeOK, OutPoint
<1>2. PoolPart
  BY DEF PoolPart, OutPoint, NextTxIsPool
<1>3. OrphanPart
  BY FS_EmptySet, PoolAssumption DEF OrphanPart, OrphansByPrev, OrphansBounded
<1>4. TxDomainInv /\ UnconfirmedInv
  BY DEF Init, TxDomainInv, UnconfirmedInv
<1>5. BusyInv /\ WaitingInv
  BY DEF BusyInv, WaitingInv
<1> QED
  BY <1>1, <1>2, <1>3, <1>4, <1>5 DEF PoolInv

\* No step breaks the part about the pool, or the one about the orphans.
LEMMA PartsStep ==
  ASSUME PoolPart, OrphanPart, vByPrev \subseteq Tx, vResurrect \subseteq Tx,
         [PoolNext]_allVars
  PROVE  PoolPart' /\ OrphanPart'
<1>1. UNCHANGED pool => PoolPart'
  BY DEF PoolPart, pool, NextTxIsPool
<1>2. UNCHANGED orphans => OrphanPart'
  BY DEF OrphanPart, orphans, OrphansByPrev, OrphansBounded
<1>3. CASE ChainStep \/ PoolCommitReorganize
  BY <1>1, <1>2, <1>3 DEF ChainStep, PoolCommitReorganize, poolVars
<1>4. CASE PoolSetBestChainInner
  BY <1>2, <1>4, RemoveKeepsPool DEF PoolSetBestChainInner
<1>5. CASE PoolCrash
  BY <1>5, FS_EmptySet, PoolAssumption
  DEF PoolCrash, PoolPart, NextTxIsPool, OrphanPart, OrphansByPrev, OrphansBounded
<1>6. ASSUME NEW t \in Tx, AcceptToMemoryPool(t) \/ ReceiveTx(t) PROVE PoolPart' /\ OrphanPart'
  BY <1>2, <1>6, AddKeepsPool DEF AcceptToMemoryPool, ReceiveTx, AcceptSucceeds
<1>7. ASSUME NEW t \in Tx, AddOrphanTx(t) PROVE PoolPart' /\ OrphanPart'
  <2>1. UNCHANGED pool
    BY <1>7 DEF AddOrphanTx
  <2> QED
    BY <1>1, <1>7, <2>1, AddKeepsOrphans
<1>8. CASE Resurrect
  BY <1>1, <1>2, <1>8, AddKeepsPool DEF Resurrect
<1>9. CASE DeleteRedundant
  BY <1>2, <1>9, RemoveKeepsPool DEF DeleteRedundant
<1>10. ASSUME NEW o \in Tx, TryOrphan(o) PROVE PoolPart' /\ OrphanPart'
  BY <1>1, <1>2, <1>10, AddKeepsPool DEF TryOrphan, AcceptSucceeds
<1>11. CASE NextInQueue
  BY <1>1, <1>2, <1>11 DEF NextInQueue
<1>12. CASE EraseOrphans
  <2>1. UNCHANGED pool
    BY <1>12 DEF EraseOrphans
  <2> QED
    BY <1>1, <1>12, <2>1, EraseKeepsOrphans
<1>13. CASE UNCHANGED allVars
  BY <1>1, <1>2, <1>13 DEF allVars, poolVars
<1> QED
  BY <1>3, <1>4, <1>5, <1>6, <1>7, <1>8, <1>9, <1>10, <1>11, <1>12, <1>13
  DEF PoolNext, HandlerStep

\* Nor the types of the handlers' locals.
LEMMA PoolTypeStep ==
  ASSUME TypeOK, PoolTypeOK, PoolPart', OrphanPart', [PoolNext]_allVars
  PROVE  PoolTypeOK'
<1> DEFINE LocalsOK == /\ vWorkQueue \in Seq(Tx)
                       /\ nWork \in 0..Len(vWorkQueue)
                       /\ vByPrev \subseteq Tx
                       /\ vEraseQueue \subseteq Tx
                       /\ vResurrect \subseteq Tx
                       /\ vTried \subseteq vResurrect
                       /\ vDelete \subseteq Tx
<1> SUFFICES LocalsOK'
  BY DEF PoolTypeOK, PoolPart, OrphanPart
<1> USE DEF PoolTypeOK, handler, reorg
<1>1. CASE ChainStep
  BY <1>1 DEF ChainStep, poolVars
<1>2. CASE PoolCommitReorganize
  <2>1. vDisconnect \subseteq Block /\ vConnect \subseteq Block
    BY DEF TypeOK
  <2>2. TransactionsOf(vDisconnect) \subseteq Tx /\ TransactionsOf(vConnect) \subseteq Tx
    BY <2>1, TransactionsType DEF TransactionsOf
  <2> QED
    BY <1>2, <2>2 DEF PoolCommitReorganize
<1>3. CASE PoolSetBestChainInner
  BY <1>3 DEF PoolSetBestChainInner
<1>4. CASE PoolCrash
  BY <1>4 DEF PoolCrash
<1>5. ASSUME NEW t \in Tx, AcceptToMemoryPool(t) \/ ReceiveTx(t) \/ AddOrphanTx(t)
      PROVE  LocalsOK'
  <2>1. CASE AcceptToMemoryPool(t) \/ AddOrphanTx(t)
    BY <2>1 DEF AcceptToMemoryPool, AddOrphanTx
  <2>2. CASE ReceiveTx(t)
    <3>1. mapOrphanTransactionsByPrev[t] \subseteq Tx /\ <<t>> \in Seq(Tx)
      OBVIOUS
    <3>2. 1 \in 0..Len(<<t>>)
      OBVIOUS
    <3> QED
      BY <2>2, <3>1, <3>2 DEF ReceiveTx
  <2> QED
    BY <1>5, <2>1, <2>2
<1>6. CASE Resurrect \/ DeleteRedundant
  BY <1>6 DEF Resurrect, DeleteRedundant
<1>7. ASSUME NEW o \in Tx, TryOrphan(o) PROVE LocalsOK'
  <2>1. vByPrev' \subseteq Tx /\ vEraseQueue' \subseteq Tx /\ nWork' = nWork /\ UNCHANGED reorg
    BY <1>7 DEF TryOrphan
  <2>2. vWorkQueue' = vWorkQueue \/ vWorkQueue' = Append(vWorkQueue, o)
    BY <1>7 DEF TryOrphan
  <2> QED
    BY <2>1, <2>2
<1>8. CASE NextInQueue
  <2>1. nWork + 1 \in 1..Len(vWorkQueue) /\ vWorkQueue[nWork + 1] \in Tx
    BY <1>8 DEF NextInQueue
  <2> QED
    BY <1>8, <2>1 DEF NextInQueue
<1>9. CASE EraseOrphans
  <2>1. Len(<<>>) = 0 /\ <<>> \in Seq(Tx)
    OBVIOUS
  <2> QED
    BY <1>9, <2>1 DEF EraseOrphans
<1>10. CASE UNCHANGED allVars
  BY <1>10 DEF allVars, poolVars
<1> QED
  BY <1>1, <1>2, <1>3, <1>4, <1>5, <1>6, <1>7, <1>8, <1>9, <1>10 DEF PoolNext, HandlerStep

\* The invariant of Chain carries the one of the pool.
LEMMA PoolInvariance == PoolSpec => []PoolInv
<1>1. IInv /\ PoolInv /\ [Next]_vars /\ [PoolNext]_allVars => PoolInv'
  <2> SUFFICES ASSUME IInv, PoolInv, [Next]_vars, [PoolNext]_allVars PROVE PoolInv'
    OBVIOUS
  <2>1. PoolPart' /\ OrphanPart'
    BY PartsStep DEF PoolInv, PoolTypeOK
  <2>2. PoolTypeOK'
    BY <2>1, PoolTypeStep DEF PoolInv, IInv
  <2>3. TxDomainInv'
    BY TxDomainStep DEF PoolInv
  <2>4. UnconfirmedInv'
    BY UnconfirmedStep DEF PoolInv
  <2>5. BusyInv' /\ WaitingInv'
    BY WaitingStep DEF PoolInv
  <2> QED
    BY <2>1, <2>2, <2>3, <2>4, <2>5 DEF PoolInv
<1>2. PoolSpec => Spec /\ []IInv
  BY PoolRunsChain, Invariance, PTL
<1> QED
  BY <1>1, <1>2, PoolInvInit, PTL DEF PoolSpec, Spec

\* The maps of the pool and the locals of its handlers keep their types.
THEOREM PoolTypeCorrect == PoolSpec => []PoolTypeOK
<1>1. PoolInv => PoolTypeOK
  BY DEF PoolInv
<1> QED
  BY <1>1, PoolInvariance, PTL

\* The check for conflicts in accept sees every spend of the pool, through
\* resurrection, deletion and orphans: no two of its transactions conflict.
THEOREM PoolHasNoConflict == PoolSpec => []NextTxIsPool
<1>1. PoolInv => NextTxIsPool
  BY DEF PoolInv, PoolPart
<1> QED
  BY <1>1, PoolInvariance, PTL

\* Between handlers no transaction is both in the pool and in the chain.
THEOREM PoolStaysUnconfirmed == PoolSpec => []PoolIsUnconfirmed
<1>1. PoolInv => PoolIsUnconfirmed
  BY DEF PoolInv, UnconfirmedInv, PoolIsUnconfirmed, PoolQuiet
<1> QED
  BY <1>1, PoolInvariance, PTL

\* The two maps of orphans agree, and their number is limited.
THEOREM OrphansIndexed == PoolSpec => [](OrphansByPrev /\ OrphansBounded)
<1>1. PoolInv => OrphansByPrev /\ OrphansBounded
  BY DEF PoolInv, OrphanPart
<1> QED
  BY <1>1, PoolInvariance, PTL

\* The "tx" handler leaves no orphan behind that it could have accepted, past any
\* number of orphans of orphans, refused ones and ones that were evicted.
THEOREM NoOrphanForgotten == PoolSpec => OrphansResolved
<1> DEFINE Leaves == vWorkQueue # <<>> /\ PoolQuiet' =>
                       \A t \in mapOrphanTransactions' : SpendsAccepted(t) => MissingInputs(t)'
<1>1. PoolInv /\ [PoolNext]_allVars => [Leaves]_allVars
  <2> SUFFICES ASSUME PoolInv, PoolNext, vWorkQueue # <<>>, PoolQuiet',
                      NEW t \in mapOrphanTransactions', SpendsAccepted(t)
               PROVE  MissingInputs(t)'
    BY Zenon
  <2>1. CASE EraseOrphans
    <3>1. t \in mapOrphanTransactions \ vEraseQueue /\ ~ StillToTry(t)
      BY <2>1 DEF EraseOrphans, StillToTry, PoolInv, PoolTypeOK
    <3>2. MissingInputs(t)
      BY <3>1 DEF PoolInv, WaitingInv
    <3> QED
      BY <2>1, <3>2 DEF EraseOrphans, pool, vars, db, MissingInputs
  <2>2. CASE PoolCrash
    BY <2>2 DEF PoolCrash
  <2>3. CASE ChainStep \/ PoolCommitReorganize \/ PoolSetBestChainInner
    BY <2>3 DEF ChainStep, PoolCommitReorganize, PoolSetBestChainInner, PoolQuiet
  <2>4. ASSUME NEW u \in Tx, AcceptToMemoryPool(u) \/ ReceiveTx(u) \/ AddOrphanTx(u) PROVE FALSE
    BY <2>4 DEF AcceptToMemoryPool, ReceiveTx, AddOrphanTx, Quiet, PoolQuiet
  <2>5. CASE Resurrect \/ DeleteRedundant \/ NextInQueue
    BY <2>5 DEF Resurrect, DeleteRedundant, NextInQueue, handler, PoolQuiet
  <2>6. ASSUME NEW o \in Tx, TryOrphan(o) PROVE FALSE
    <3>1. vWorkQueue' = vWorkQueue \/ vWorkQueue' = Append(vWorkQueue, o)
      BY <2>6 DEF TryOrphan
    <3> QED
      BY <3>1 DEF PoolInv, PoolTypeOK, PoolQuiet
  <2> QED
    BY <2>1, <2>2, <2>3, <2>4, <2>5, <2>6 DEF PoolNext, HandlerStep
<1> QED
  BY <1>1, PoolInvariance, PTL DEF PoolSpec, OrphansResolved

----------------------------------------------------------------------------
(* What a reorganisation loses. *)

\* What was offered to the pool is in it or spends what one of it spends, unless
\* it is not standard; and what is to be deleted is in the branch of the tip.
OfferedInv ==
  /\ vResurrect \cap CoinBase = {}
  /\ \A t \in vTried \ NonStandard : t \in mapTx \/ vin[t] \cap DOMAIN mapNextTx # {}
  /\ vDelete \subseteq BranchTx(dbHashBestChain)

\* The new branch is committed: the blocks it connected are on it.
LEMMA CommitOffers ==
  ASSUME IInv, PoolCommitReorganize PROVE OfferedInv'
<1>1. /\ nPhase = "reorganize" /\ dbHashBestChain' = pindexIntermediate
      /\ vResurrect' = TransactionsOf(vDisconnect) \ CoinBase
      /\ vTried' = {} /\ vDelete' = TransactionsOf(vConnect)
  BY DEF PoolCommitReorganize, CommitReorganize
<1>2. Linked(nHeight) /\ Segment(vConnect, plonger, pindexIntermediate, nHeight)
  BY <1>1 DEF IInv, IndexInv, ForkInv
<1>3. vConnect \subseteq Ancestors[pindexIntermediate] \ {Genesis}
  <2>1. vConnect \cap {Genesis} = {}
    BY <1>2 DEF Segment
  <2>2. Ancestors[pindexIntermediate] = vConnect \cup Ancestors[plonger]
    BY <1>2, SegmentBranch
  <2> QED
    BY <2>1, <2>2
<1> QED
  BY <1>1, <1>3 DEF OfferedInv, TransactionsOf, BranchTx

\* Between the commit and the deletion the pool only grows.
LEMMA OfferedStep ==
  ASSUME IInv, vTried \subseteq vResurrect, BusyInv, OfferedInv, [PoolNext]_allVars
  PROVE  OfferedInv'
<1> USE DEF pool, reorg
<1>0. vResurrect' = {} /\ vTried' = {} /\ vDelete' = {} => OfferedInv'
  BY DEF OfferedInv
<1>1. CASE ChainStep
  BY <1>1 DEF ChainStep, PoolQuiet, OfferedInv, poolVars
<1>2. CASE PoolCommitReorganize
  BY <1>2, CommitOffers
<1>3. CASE PoolSetBestChainInner
  BY <1>0, <1>3 DEF PoolSetBestChainInner, PoolQuiet
<1>4. CASE PoolCrash
  BY <1>4 DEF PoolCrash, OfferedInv
<1>5. ASSUME NEW t \in Tx, AcceptToMemoryPool(t) \/ ReceiveTx(t) \/ AddOrphanTx(t)
      PROVE  OfferedInv'
  BY <1>0, <1>5 DEF AcceptToMemoryPool, ReceiveTx, AddOrphanTx, Quiet, PoolQuiet
<1>6. CASE Resurrect
  <2>1. PICK t \in vResurrect \ vTried :
          /\ vTried' = vTried \cup {t}
          /\ IF Refused(t) THEN UNCHANGED pool ELSE addUnchecked(t)
    BY <1>6 DEF Resurrect
  <2>2. UNCHANGED <<dbHashBestChain, vResurrect, vDelete>>
    BY <1>6 DEF Resurrect, vars, db
  <2>3. CASE Refused(t)
    BY <2>1, <2>2, <2>3 DEF Refused, OfferedInv
  <2>4. CASE ~ Refused(t)
    BY <2>1, <2>2, <2>4 DEF addUnchecked, OfferedInv
  <2> QED
    BY <2>3, <2>4
<1>7. CASE DeleteRedundant
  BY <1>7 DEF DeleteRedundant, OfferedInv
<1>8. ASSUME NEW o \in Tx, TryOrphan(o) PROVE OfferedInv'
  BY <1>0, <1>8 DEF TryOrphan, BusyInv
<1>9. CASE NextInQueue \/ EraseOrphans
  BY <1>9 DEF NextInQueue, EraseOrphans, vars, db, OfferedInv
<1>10. CASE UNCHANGED allVars
  BY <1>10 DEF allVars, poolVars, vars, db, OfferedInv
<1> QED
  BY <1>1, <1>2, <1>3, <1>4, <1>5, <1>6, <1>7, <1>8, <1>9, <1>10 DEF PoolNext, HandlerStep

\* What leaves the chain with its block is in the pool or the chain at the end of a
\* reorganisation, or the pool or the chain spends one of its inputs otherwise:
\* resurrection and deletion in Reorganize lose nothing else.  Conditions: no valid
\* branch repeats a transaction, no postponed block fails, signatures are verified.
THEOREM OnlyConflictsAreLost ==
  ASSUME NoRepeats
  PROVE  PoolSpec /\ [](~ fSecondaryFailed /\ SignaturesVerified) => LostToConflictOnly
<1> DEFINE Good == ~ fSecondaryFailed /\ SignaturesVerified
           Known == IInv /\ CoinsInv /\ ValidInv /\ RecordsInv
           Kept == vResurrect # {} /\ DeleteRedundant =>
                     \A t \in vResurrect \ NonStandard :
                       \/ t \in mapTx' \cup DOMAIN dbTxIndex
                       \/ \E in \in vin[t] :
                            \/ in \in DOMAIN mapNextTx'
                            \/ /\ in[1] \in DOMAIN dbTxIndex
                               /\ in[2] \in dbTxIndex[in[1]].vSpent
<1>1. Known /\ Good /\ PoolInv /\ OfferedInv => Kept
  <2> SUFFICES ASSUME Known, Good, PoolInv, OfferedInv, DeleteRedundant,
                      NEW t \in vResurrect \ NonStandard
               PROVE  \/ t \in mapTx' \cup DOMAIN dbTxIndex
                      \/ \E in \in vin[t] :
                           \/ in \in DOMAIN mapNextTx'
                           \/ /\ in[1] \in DOMAIN dbTxIndex
                              /\ in[2] \in dbTxIndex[in[1]].vSpent
    OBVIOUS
  <2>1. /\ vDelete \subseteq DOMAIN dbTxIndex
        /\ \A u \in vDelete : \A in \in vin[u] :
             in[1] \in DOMAIN dbTxIndex /\ in[2] \in dbTxIndex[in[1]].vSpent
    <3>1. /\ vDelete \subseteq BranchTx(dbHashBestChain) /\ DOMAIN dbTxIndex = BranchTx(dbHashBestChain)
          /\ Replay[dbHashBestChain].ok /\ Reflects(dbTxIndex, dbHashBestChain)
      BY DEF OfferedInv, RecordsInv, ValidInv, CoinsInv
    <3>2. dbHashBestChain \in Block
      BY DEF IInv, TypeOK, SyncInv, IndexInv, Linked, mapBlockIndex
    <3> QED
      BY <3>1, <3>2, IndexSpends
  <2>2. /\ mapTx' = mapTx \ vDelete
        /\ DOMAIN mapNextTx' = DOMAIN mapNextTx \ UNION {vin[u] : u \in vDelete \cap mapTx}
    BY DEF DeleteRedundant, remove
  <2>3. t \in mapTx \/ vin[t] \cap DOMAIN mapNextTx # {}
    BY DEF DeleteRedundant, OfferedInv
  <2>4. CASE t \in mapTx
    BY <2>1, <2>2, <2>4
  <2>5. CASE vin[t] \cap DOMAIN mapNextTx # {}
    <3>1. PICK in \in vin[t] : in \in DOMAIN mapNextTx
      BY <2>5
    <3>2. CASE in \in DOMAIN mapNextTx'
      BY <3>2
    <3>3. CASE in \notin DOMAIN mapNextTx'
      <4>1. PICK u \in vDelete \cap mapTx : in \in vin[u]
        BY <2>2, <3>1, <3>3
      <4> QED
        BY <2>1, <4>1
    <3> QED
      BY <3>2, <3>3
  <2> QED
    BY <2>3, <2>4, <2>5
<1>2. PoolInit => OfferedInv
  BY DEF PoolInit, EmptyPool, OfferedInv
<1>3. Known /\ PoolInv /\ OfferedInv /\ [PoolNext]_allVars => OfferedInv'
  BY OfferedStep DEF PoolInv, PoolTypeOK
<1>4. Spec /\ []Good => []Known
  BY RecordsInvariance
<1> HIDE DEF Good, Known, Kept
<1>5. PoolSpec /\ []Good => [][Kept]_allVars
  BY <1>1, <1>2, <1>3, <1>4, PoolRunsChain, PoolInvariance, PTL DEF PoolSpec
<1> QED
  BY <1>5 DEF Good, Kept, LostToConflictOnly
=============================================================================
