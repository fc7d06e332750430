------------------------------- MODULE TxPool -------------------------------
(***************************************************************************)
(* The memory pool (CTxMemPool) and the orphan transactions of main.cpp,   *)
(* on top of Chain.                                                        *)
(*                                                                         *)
(* The pool changes with the best chain: a reorganisation resurrects the   *)
(* transactions of the blocks it disconnected and deletes those of the     *)
(* blocks it connected.  And it changes with every "tx" message, whose     *)
(* handler looks for orphans that waited for the transaction.  Both run    *)
(* with cs_main held to the end, one transaction at a time, and neither is *)
(* interleaved with a step of Chain; the process may die in between.       *)
(***************************************************************************)
EXTENDS Chain

CONSTANTS
  NonStandard,     \* transactions that are not IsStandard
  Unrelayable,     \* their inputs are not standard, their fee is too low or a
                   \* signature does not verify
  FreeTx,          \* low-fee transactions, which the rate limiter may refuse
  LargeTx,         \* transactions of more than 5000 bytes
  MAX_ORPHAN_TRANSACTIONS

ASSUME PoolAssumption ==
  /\ NonStandard \cup Unrelayable \cup FreeTx \cup LargeTx \subseteq Tx
  /\ MAX_ORPHAN_TRANSACTIONS \in Nat \ {0}

VARIABLES
  mapTx,                       \* the pool
  mapNextTx,                   \* who in the pool spends an out point
  mapOrphanTransactions,       \* transactions with an unknown input
  mapOrphanTransactionsByPrev  \* by the transactions they spend

pool == <<mapTx, mapNextTx>>

orphans == <<mapOrphanTransactions, mapOrphanTransactionsByPrev>>

\* The locals of the "tx" handler and of Reorganize.
VARIABLES
  vWorkQueue,      \* what the handler accepted, whose orphans are to be looked at
  nWork,           \* the place in it where the handler is (i in the code)
  vByPrev,         \* the orphans of what is there not yet tried
  vEraseQueue,     \* orphans to erase
  vResurrect,      \* transactions of the disconnected blocks
  vTried,          \* those already offered to the pool
  vDelete          \* transactions of the connected blocks

handler == <<vWorkQueue, nWork, vByPrev, vEraseQueue>>

reorg == <<vResurrect, vTried, vDelete>>

poolVars == <<pool, orphans, handler, reorg>>

OutPoint == Tx \X Nat

\* The transactions that t spends.
Parents(t) == {in[1] : in \in vin[t]}

PoolTypeOK ==
  /\ mapTx \subseteq Tx
  /\ DOMAIN mapNextTx \subseteq OutPoint
  /\ mapNextTx \in [DOMAIN mapNextTx -> Tx]
  /\ mapOrphanTransactions \subseteq Tx
  /\ mapOrphanTransactionsByPrev \in [Tx -> SUBSET Tx]
  /\ vWorkQueue \in Seq(Tx)
  /\ nWork \in 0..Len(vWorkQueue)
  /\ vByPrev \subseteq Tx
  /\ vEraseQueue \subseteq Tx
  /\ vResurrect \subseteq Tx
  /\ vTried \subseteq vResurrect
  /\ vDelete \subseteq Tx

EmptyPool ==
  /\ mapTx = {}
  /\ mapNextTx = [o \in {} |-> NULL]
  /\ mapOrphanTransactions = {}
  /\ mapOrphanTransactionsByPrev = [t \in Tx |-> {}]
  /\ vWorkQueue = <<>> /\ nWork = 0 /\ vByPrev = {} /\ vEraseQueue = {}
  /\ vResurrect = {} /\ vTried = {} /\ vDelete = {}

PoolInit == Init /\ EmptyPool

----------------------------------------------------------------------------
(* CTxMemPool::accept. *)

\* Mutant: conflicts with the pool are not looked for.
RefusedNoConflict(t) == t \in CoinBase \cup NonStandard \/ t \in mapTx

\* What is refused before any input is read.
Refused(t) ==
  \/ t \in CoinBase \cup NonStandard
  \/ t \in mapTx
  \/ vin[t] \cap DOMAIN mapNextTx # {}

\* FetchInputs finds an input neither in the index nor in the pool.
MissingInputs(t) == ~ Parents(t) \subseteq DOMAIN dbTxIndex \cup mapTx

\* None of the last COINBASE_MATURITY blocks holds the coinbase t.
MatureAtTip(t) ==
  \A k \in 0..(COINBASE_MATURITY - 1) : Back(pindexBest, k) # dbTxIndex[t].pos

\* The inputs are in range, mature and not spent by the chain, and the
\* transaction may be relayed.
InputsAccepted(t) ==
  /\ t \notin Unrelayable
  /\ \A in \in vin[t] :
       /\ in[2] \in Outputs(in[1])
       /\ in[1] \in DOMAIN dbTxIndex =>
            /\ in[2] \notin dbTxIndex[in[1]].vSpent
            /\ in[1] \in CoinBase => MatureAtTip(in[1])

\* The outcomes of accept with fCheckInputs.
AcceptFindsMissing(t) ==
  ~ Refused(t) /\ t \notin DOMAIN dbTxIndex /\ MissingInputs(t)

AcceptSucceeds(t) ==
  /\ ~ Refused(t)
  /\ t \notin DOMAIN dbTxIndex
  /\ ~ MissingInputs(t)
  /\ InputsAccepted(t)

AcceptRefuses(t) ==
  ~ AcceptFindsMissing(t) /\ (~ AcceptSucceeds(t) \/ t \in FreeTx)

addUnchecked(t) ==
  /\ mapTx' = mapTx \cup {t}
  /\ mapNextTx' = [o \in DOMAIN mapNextTx \cup vin[t] |->
                     IF o \in vin[t] THEN t ELSE mapNextTx[o]]

\* CTxMemPool::remove of every transaction of S.
remove(S) ==
  LET spent == UNION {vin[t] : t \in S \cap mapTx}
  IN  /\ mapTx' = mapTx \ S
      /\ mapNextTx' = [o \in DOMAIN mapNextTx \ spent |-> mapNextTx[o]]

----------------------------------------------------------------------------
(* The pool while the best chain changes. *)

\* cs_main is free, as far as the pool is concerned.
PoolQuiet == vWorkQueue = <<>> /\ vResurrect \cup vDelete = {}

TransactionsOf(S) == UNION {Transactions(b) : b \in S}

\* The steps of Chain that leave the pool alone.
ChainStep ==
  /\ PoolQuiet
  /\ \/ \E b \in Block : AcceptBlock(b) \/ AddToBlockIndexFails(b) \/ RecordIsLost(b)
     \/ SetBestChain
     \/ Postpone
     \/ Reorganize
     \/ FindFork
     \/ DisconnectTip
     \/ ConnectNext
     \/ ReorganizeFails
     \/ SetBestChainInnerFails
     \/ NewBestBlock
     \/ ExtendFault
     \/ ReorganizeFault
     \/ SecondaryFault
     \/ LoadChainWork
     \/ LoadBestChain
  /\ UNCHANGED poolVars

\* Once the new branch is committed, the transactions of the blocks that left
\* the chain are offered to the pool again.
PoolCommitReorganize ==
  /\ PoolQuiet
  /\ CommitReorganize
  /\ vResurrect' = TransactionsOf(vDisconnect) \ CoinBase
  /\ vTried' = {}
  /\ vDelete' = TransactionsOf(vConnect)
  /\ UNCHANGED <<pool, orphans, handler>>

\* Mutant: their inputs are looked for.
ResurrectChecked ==
  /\ \E t \in vResurrect \ vTried :
       /\ vTried' = vTried \cup {t}
       /\ IF Refused(t) \/ MissingInputs(t) THEN UNCHANGED pool ELSE addUnchecked(t)
  /\ UNCHANGED <<vars, orphans, handler, vResurrect, vDelete>>

\* accept without fCheckInputs, for one of them.  Their order makes no
\* difference: no two transactions of a branch spend the same output.
Resurrect ==
  /\ \E t \in vResurrect \ vTried :
       /\ vTried' = vTried \cup {t}
       /\ IF Refused(t) THEN UNCHANGED pool ELSE addUnchecked(t)
  /\ UNCHANGED <<vars, orphans, handler, vResurrect, vDelete>>

\* Last, the transactions of the new branch leave the pool.
DeleteRedundant ==
  /\ vResurrect \cup vDelete # {}
  /\ vTried = vResurrect
  /\ remove(vDelete)
  /\ vResurrect' = {} /\ vTried' = {} /\ vDelete' = {}
  /\ UNCHANGED <<vars, orphans, handler>>

\* Mutant: the pool keeps the transactions of a block on top of the tip.
InnerKeepsPool ==
  /\ PoolQuiet
  /\ SetBestChainInner
  /\ UNCHANGED poolVars

\* A block on top of the tip takes its transactions from the pool.
PoolSetBestChainInner ==
  /\ PoolQuiet
  /\ SetBestChainInner
  /\ remove(Transactions(InnerBlock))
  /\ UNCHANGED <<orphans, handler, reorg>>

\* Nothing of the pool survives the process.
PoolCrash ==
  /\ Crash \/ CrashWithHole
  /\ mapTx' = {}
  /\ mapNextTx' = [o \in {} |-> NULL]
  /\ mapOrphanTransactions' = {}
  /\ mapOrphanTransactionsByPrev' = [t \in Tx |-> {}]
  /\ vWorkQueue' = <<>> /\ nWork' = 0 /\ vByPrev' = {} /\ vEraseQueue' = {}
  /\ vResurrect' = {} /\ vTried' = {} /\ vDelete' = {}

----------------------------------------------------------------------------
(* Transactions from the network and from the wallet. *)

Quiet == nPhase = "idle" /\ PoolQuiet

\* The wallet or the user submits a transaction: no orphan is looked at.
AcceptToMemoryPool(t) ==
  /\ Quiet
  /\ AcceptSucceeds(t)
  /\ addUnchecked(t)
  /\ UNCHANGED <<vars, orphans, handler, reorg>>

\* A "tx" message whose transaction is accepted: next come its orphans.
ReceiveTx(t) ==
  /\ Quiet
  /\ AcceptSucceeds(t)
  /\ addUnchecked(t)
  /\ vWorkQueue' = <<t>>
  /\ nWork' = 1
  /\ vByPrev' = mapOrphanTransactionsByPrev[t]
  /\ vEraseQueue' = {t}
  /\ UNCHANGED <<vars, orphans, reorg>>

\* mapOrphanTransactionsByPrev with the orphan t.
ByPrevWith(t) ==
  [p \in Tx |-> IF p \in Parents(t)
                THEN mapOrphanTransactionsByPrev[p] \cup {t}
                ELSE mapOrphanTransactionsByPrev[p]]

\* EraseOrphanTx, in the map byprev, for every transaction of S.
ByPrevWithout(byprev, S) ==
  [p \in Tx |-> byprev[p] \ {t \in S : p \in Parents(t)}]

\* LimitOrphanTxSize has to evict one of S.
TooMany(S) == Cardinality(S) > MAX_ORPHAN_TRANSACTIONS

\* One with an input that is not known becomes an orphan, unless it is large.
\* LimitOrphanTxSize then makes room by evicting any of the orphans.
AddOrphanTx(t) ==
  LET with == mapOrphanTransactions \cup {t}
  IN  /\ Quiet
      /\ AcceptFindsMissing(t)
      /\ t \notin mapOrphanTransactions \cup LargeTx
      /\ IF TooMany(with)
         THEN \E o \in with :
                /\ mapOrphanTransactions' = with \ {o}
                /\ mapOrphanTransactionsByPrev' = ByPrevWithout(ByPrevWith(t), {o})
         ELSE /\ mapOrphanTransactions' = with
              /\ mapOrphanTransactionsByPrev' = ByPrevWith(t)
      /\ UNCHANGED <<vars, pool, handler, reorg>>

\* An orphan that spends what is at its place in the queue is tried.  It is accepted,
\* and its own orphans will be looked at, or it is refused for good, or it
\* still misses an input and waits on.
TryOrphan(o) ==
  /\ o \in vByPrev
  /\ vByPrev' = vByPrev \ {o}
  /\ \/ /\ AcceptSucceeds(o)
        /\ addUnchecked(o)
        /\ vWorkQueue' = Append(vWorkQueue, o)
        /\ vEraseQueue' = vEraseQueue \cup {o}
     \/ /\ AcceptRefuses(o)
        /\ vEraseQueue' = vEraseQueue \cup {o}
        /\ UNCHANGED <<pool, vWorkQueue>>
     \/ /\ AcceptFindsMissing(o)
        /\ UNCHANGED <<pool, vWorkQueue, vEraseQueue>>
  /\ UNCHANGED <<vars, orphans, nWork, reorg>>

\* Mutant: the orphans of an accepted orphan are not tried.
NextInQueueSkips ==
  /\ vByPrev = {}
  /\ nWork \in 1..(Len(vWorkQueue) - 1)
  /\ nWork' = nWork + 1
  /\ UNCHANGED <<vars, pool, orphans, vWorkQueue, vByPrev, vEraseQueue, reorg>>

\* All orphans of what is at this place have been tried.
NextInQueue ==
  /\ vByPrev = {}
  /\ nWork \in 1..(Len(vWorkQueue) - 1)
  /\ nWork' = nWork + 1
  /\ vByPrev' = mapOrphanTransactionsByPrev[vWorkQueue[nWork + 1]]
  /\ UNCHANGED <<vars, pool, orphans, vWorkQueue, vEraseQueue, reorg>>

\* The end of the handler.
EraseOrphans ==
  /\ vByPrev = {}
  /\ vWorkQueue # <<>> /\ nWork = Len(vWorkQueue)
  /\ mapOrphanTransactions' = mapOrphanTransactions \ vEraseQueue
  /\ mapOrphanTransactionsByPrev' =
       ByPrevWithout(mapOrphanTransactionsByPrev, vEraseQueue \cap mapOrphanTransactions)
  /\ vWorkQueue' = <<>> /\ nWork' = 0
  /\ vEraseQueue' = {}
  /\ UNCHANGED <<vars, pool, vByPrev, reorg>>

----------------------------------------------------------------------------

\* The steps of the pool's handlers once they have begun.
HandlerStep ==
  \/ Resurrect
  \/ DeleteRedundant
  \/ \E o \in Tx : TryOrphan(o)
  \/ NextInQueue
  \/ EraseOrphans

PoolNext ==
  \/ ChainStep
  \/ PoolCommitReorganize
  \/ PoolSetBestChainInner
  \/ PoolCrash
  \/ \E t \in Tx : AcceptToMemoryPool(t) \/ ReceiveTx(t) \/ AddOrphanTx(t)
  \/ HandlerStep

allVars == <<vars, poolVars>>

PoolSpec == PoolInit /\ [][PoolNext]_allVars

----------------------------------------------------------------------------

\* mapNextTx has exactly the inputs of the transactions of the pool, each
\* with the transaction that spends it: the check for conflicts in accept
\* sees every spend, and no two transactions of the pool spend one output.
NextTxIsPool ==
  /\ DOMAIN mapNextTx = UNION {vin[t] : t \in mapTx}
  /\ \A t \in mapTx : \A o \in vin[t] : mapNextTx[o] = t

\* No transaction of the pool is also in the chain: what resurrection offers
\* without looking at the index and the new branch has again is deleted.
PoolIsUnconfirmed == PoolQuiet => mapTx \cap DOMAIN dbTxIndex = {}

\* An orphan is found by every transaction it spends, and what is found there
\* is an orphan ("mapOrphanTransactionsByPrev").
OrphansByPrev ==
  \A p \in Tx :
    mapOrphanTransactionsByPrev[p] = {t \in mapOrphanTransactions : p \in Parents(t)}

\* "Do not allow mapOrphanTransactions to grow unbounded".
OrphansBounded == Cardinality(mapOrphanTransactions) <= MAX_ORPHAN_TRANSACTIONS

\* The transaction t spends one that the "tx" handler has accepted.
SpendsAccepted(t) == \E k \in 1..Len(vWorkQueue) : vWorkQueue[k] \in Parents(t)

\* When the "tx" handler ends, every orphan that is left and spends one of those
\* misses an input still.
OrphansResolved ==
  [][vWorkQueue # <<>> /\ PoolQuiet' =>
       \A t \in mapOrphanTransactions' : SpendsAccepted(t) => MissingInputs(t)']_allVars

\* A standard transaction that leaves the chain with its block is in the pool
\* or in the chain after the reorganisation, unless the pool or the chain
\* spends one of its inputs otherwise.
LostToConflictOnly ==
  [][vResurrect # {} /\ DeleteRedundant =>
       \A t \in vResurrect \ NonStandard :
         \/ t \in mapTx' \cup DOMAIN dbTxIndex
         \/ \E in \in vin[t] :
              \/ in \in DOMAIN mapNextTx'
              \/ /\ in[1] \in DOMAIN dbTxIndex
                 /\ in[2] \in dbTxIndex[in[1]].vSpent]_allVars

\* CreateNewBlock: "all transactions in the memory pool should connect to
\* either transactions in the chain or other transactions in the memory pool".
PoolConnects ==
  Quiet => \A t \in mapTx : Parents(t) \subseteq DOMAIN dbTxIndex \cup mapTx
=============================================================================
