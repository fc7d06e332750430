------------------------------- MODULE Miner -------------------------------
(***************************************************************************)
(* The miner threads of main.cpp: GenerateBitcoins, ThreadBitcoinMiner,    *)
(* BitcoinMiner, CreateNewBlock and CheckWork, beside the threads that     *)
(* change the tip, the memory pool and the peers.                          *)
(*                                                                         *)
(* A block of the main chain is its height.  The steps of a thread are     *)
(* split where it reads pindexBest without cs_main.  Of the key pool it    *)
(* has what KeyPool promises as long as the pool was not drained.          *)
(***************************************************************************)
EXTENDS Integers, FiniteSets, Bags

CONSTANTS
  Threads,     \* bound on the miner threads that exist at a time
  nProcessors, \* hardware_concurrency
  Limits,      \* the values -genproclimit takes, -1 for no limit
  MaxBest,     \* bound on the chain
  MaxUpdates,  \* bound on nTransactionsUpdated
  CheckHeight  \* most recent blocks have version 2: AcceptBlock tests the height in the coinbase

ASSUME MinerAssumption ==
  /\ {nProcessors, MaxBest, MaxUpdates} \subseteq Nat /\ CheckHeight \in BOOLEAN
  /\ Limits \subseteq Int /\ IsFiniteSet(Threads)

VARIABLES
  best,                 \* pindexBest
  nTransactionsUpdated, \* changes of the memory pool
  hasPeers,             \* vNodes is not empty, the download is over
  minerShutdown,        \* fShutdown
  fGenerate,            \* fGenerateBitcoins
  nLimit,               \* nLimitProcessors
  nMining,              \* vnThreadsRunning[THREAD_MINER]
  minerAt,              \* where each thread is
  pindexPrev,           \* BitcoinMiner's reading of pindexBest
  nUpdatedLast,         \* its reading of nTransactionsUpdated
  template,             \* its block: predecessor and the height in the coinbase
  reserved,             \* the pool's key each reservekey holds, or the default key
  paid,                 \* bag of the keys that processed blocks pay
  drained               \* history: fDrained of KeyPool, the pool has begun again at its first index

minerVars == <<best, nTransactionsUpdated, hasPeers, minerShutdown, fGenerate, nLimit,
               nMining, minerAt, pindexPrev, nUpdatedLast, template, reserved, paid, drained>>
chainState == <<best, nTransactionsUpdated, hasPeers, minerShutdown>>
switches == <<fGenerate, nLimit>>
work == <<pindexPrev, nUpdatedLast, template>>
keys == <<reserved, paid, drained>>

\* What a reservation without an index has (nIndex is -1).
vchDefaultKey == 0

MinerInit ==
  /\ best = 0 /\ nTransactionsUpdated = 0 /\ hasPeers = TRUE /\ minerShutdown = FALSE
  /\ fGenerate = FALSE /\ nLimit = -1 /\ nMining = 0
  /\ minerAt = [t \in Threads |-> "none"]
  /\ pindexPrev = [t \in Threads |-> 0]
  /\ nUpdatedLast = [t \in Threads |-> 0]
  /\ template = [t \in Threads |-> [prev |-> 0, height |-> 0]]
  /\ reserved = [t \in Threads |-> vchDefaultKey] /\ paid = EmptyBag /\ drained = FALSE

\* GenerateBitcoins starts as many threads as are missing, going by a count the
\* threads it started before may not have joined yet.
GenerateBitcoins(f, limit) ==
  /\ fGenerate' = (f /\ limit # 0)
  /\ nLimit' = limit
  /\ LET wanted == IF limit # -1 /\ limit < nProcessors THEN limit ELSE nProcessors
         free   == {t \in Threads : minerAt[t] = "none"}
     IN  \E new \in SUBSET free :
           /\ IF f /\ wanted > nMining
              THEN Cardinality(new) = wanted - nMining \/ new = free
              ELSE new = {}
           /\ Cardinality(new) <= nProcessors
           /\ minerAt' = [t \in Threads |-> IF t \in new THEN "starts" ELSE minerAt[t]]
  /\ UNCHANGED <<chainState, nMining, work, keys>>

ThreadStarts(t) ==
  /\ minerAt[t] = "starts"
  /\ nMining' = nMining + 1
  /\ minerAt' = [minerAt EXCEPT ![t] = "loop"]
  /\ UNCHANGED <<chainState, switches, work, keys>>

\* The block and the readings are those of one turn of the loop.
Forgets(t) ==
  /\ pindexPrev' = [pindexPrev EXCEPT ![t] = 0]
  /\ nUpdatedLast' = [nUpdatedLast EXCEPT ![t] = 0]
  /\ template' = [template EXCEPT ![t] = [prev |-> 0, height |-> 0]]

\* The thread ends; its reservekey returns the key it still holds.
ThreadEnds(t) ==
  /\ Forgets(t)
  /\ nMining' = nMining - 1
  /\ minerAt' = [minerAt EXCEPT ![t] = "none"]
  /\ reserved' = [reserved EXCEPT ![t] = vchDefaultKey]
  /\ UNCHANGED <<chainState, switches, paid, drained>>

\* The head of BitcoinMiner's loop; without peers the thread waits in it.
StopsAtLoop(t) ==
  /\ minerAt[t] = "loop" /\ (~fGenerate \/ minerShutdown)
  /\ ThreadEnds(t)

ReadsTip(t) ==
  /\ minerAt[t] = "loop" /\ fGenerate /\ ~minerShutdown /\ hasPeers
  /\ nUpdatedLast' = [nUpdatedLast EXCEPT ![t] = nTransactionsUpdated]
  /\ pindexPrev' = [pindexPrev EXCEPT ![t] = best]
  /\ minerAt' = [minerAt EXCEPT ![t] = "create"]
  /\ UNCHANGED <<chainState, switches, nMining, template, keys>>

TakenKeys == {reserved[t] : t \in Threads} \cup BagToSet(paid)

\* The first key that is neither reserved nor used.
NextKey ==
  CHOOSE k \in 1..(Cardinality(TakenKeys) + 1) : k \notin TakenKeys /\ 1..(k - 1) \subseteq TakenKeys

\* CReserveKey::GetReservedKey: a key nobody has, or the default key when the wallet
\* is locked and has no other.  From a pool that was drained, any.
ReservedKeys == {NextKey, vchDefaultKey} \cup (IF drained THEN TakenKeys ELSE {})

\* CreateNewBlock reads pindexBest again, before it waits for cs_main.
CreateNewBlock(t) ==
  /\ minerAt[t] = "create"
  /\ template' = [template EXCEPT ![t].prev = best]
  /\ \E k \in ReservedKeys :
       reserved' = [reserved EXCEPT ![t] = IF @ # vchDefaultKey THEN @ ELSE k]
  /\ minerAt' = [minerAt EXCEPT ![t] = "increment"]
  /\ UNCHANGED <<chainState, switches, nMining, pindexPrev, nUpdatedLast, paid, drained>>

\* The block does not connect, or no key can be read: CreateNewBlock throws.
\* ThreadBitcoinMiner counts itself off and throws again, which ends the process.
CreateNewBlockThrows(t) ==
  /\ minerAt[t] = "create"
  /\ minerShutdown' = TRUE /\ nMining' = 0
  /\ minerAt' = [u \in Threads |-> "none"]
  /\ pindexPrev' = [u \in Threads |-> 0]
  /\ nUpdatedLast' = [u \in Threads |-> 0]
  /\ template' = [u \in Threads |-> [prev |-> 0, height |-> 0]]
  /\ reserved' = [u \in Threads |-> vchDefaultKey]
  /\ UNCHANGED <<best, nTransactionsUpdated, hasPeers, switches, paid, drained>>

\* Mutant: BitcoinMiner takes the tip after its block was created.
ReadsTipLate(t) ==
  /\ minerAt[t] = "increment"
  /\ pindexPrev' = [pindexPrev EXCEPT ![t] = best]
  /\ template' = [template EXCEPT ![t].height = best + 1]
  /\ minerAt' = [minerAt EXCEPT ![t] = "search"]
  /\ UNCHANGED <<chainState, switches, nMining, nUpdatedLast, keys>>

\* IncrementExtraNonce takes the height from BitcoinMiner's reading.
IncrementExtraNonce(t) ==
  /\ minerAt[t] = "increment"
  /\ template' = [template EXCEPT ![t].height = pindexPrev[t] + 1]
  /\ minerAt' = [minerAt EXCEPT ![t] = "search"]
  /\ UNCHANGED <<chainState, switches, nMining, pindexPrev, nUpdatedLast, keys>>

Accepted(block) == CheckHeight => block.height = block.prev + 1

\* Mutant: the key stays reserved.
KeepsKeyNever(t) ==
  /\ paid' = paid (+) SetToBag({reserved[t]})
  /\ UNCHANGED reserved

\* KeepKey: the key is used, the next block needs another.
KeepsKey(t) ==
  /\ reserved' = [reserved EXCEPT ![t] = vchDefaultKey]
  /\ paid' = paid (+) SetToBag({reserved[t]})

\* CheckWork with a solution: a stale block is given up with the key still
\* reserved; another block takes the key and is processed.
Finds(t) ==
  /\ minerAt[t] = "search"
  /\ minerAt' = [minerAt EXCEPT ![t] = "loop"]
  /\ Forgets(t)
  /\ IF template[t].prev # best THEN UNCHANGED <<best, reserved, paid>>
     ELSE /\ best < MaxBest
          /\ KeepsKey(t)
          /\ best' = IF Accepted(template[t]) THEN best + 1 ELSE best
  /\ UNCHANGED <<nTransactionsUpdated, hasPeers, minerShutdown, switches, nMining, drained>>

\* The search found nothing so far.
MustStop == minerShutdown \/ ~fGenerate \/ (nLimit # -1 /\ nMining > nLimit)

StopsSearching(t) ==
  /\ minerAt[t] = "search" /\ MustStop
  /\ ThreadEnds(t)

\* The block is built again: always when the tip has changed or the peers have
\* gone, perhaps when the pool has changed, depending on the time.
MustRebuild(t) == ~hasPeers \/ pindexPrev[t] # best
MayRebuild(t) == MustRebuild(t) \/ nUpdatedLast[t] # nTransactionsUpdated

Rebuilds(t) ==
  /\ minerAt[t] = "search" /\ ~MustStop /\ MayRebuild(t)
  /\ minerAt' = [minerAt EXCEPT ![t] = "loop"]
  /\ Forgets(t)
  /\ UNCHANGED <<chainState, switches, nMining, keys>>

MinerThread(t) ==
  \/ ThreadStarts(t) \/ StopsAtLoop(t) \/ ReadsTip(t) \/ CreateNewBlock(t)
  \/ IncrementExtraNonce(t) \/ StopsSearching(t) \/ Rebuilds(t)

----------------------------------------------------------------------------
(* The other threads. *)

TipChanges ==
  /\ best < MaxBest
  /\ best' = best + 1
  /\ nTransactionsUpdated' = IF nTransactionsUpdated < MaxUpdates THEN nTransactionsUpdated + 1
                             ELSE nTransactionsUpdated
  /\ UNCHANGED <<hasPeers, minerShutdown, switches, nMining, minerAt, work, keys>>

PoolChanges ==
  /\ nTransactionsUpdated < MaxUpdates
  /\ nTransactionsUpdated' = nTransactionsUpdated + 1
  /\ UNCHANGED <<best, hasPeers, minerShutdown, switches, nMining, minerAt, work, keys>>

PeersChange ==
  /\ hasPeers' = ~hasPeers
  /\ UNCHANGED <<best, nTransactionsUpdated, minerShutdown, switches, nMining, minerAt, work, keys>>

\* The last key of a locked wallet, or of one with -keypool=0, was reserved: TopUpKeyPool
\* begins again at the first index, which a reservation may still hold.
PoolDrains ==
  /\ ~drained /\ \E t \in Threads : reserved[t] # vchDefaultKey
  /\ drained' = TRUE
  /\ UNCHANGED <<chainState, switches, nMining, minerAt, work, reserved, paid>>

ShutsDown ==
  /\ ~minerShutdown
  /\ minerShutdown' = TRUE
  /\ UNCHANGED <<best, nTransactionsUpdated, hasPeers, switches, nMining, minerAt, work, keys>>

MinerNext ==
  \/ \E t \in Threads : MinerThread(t) \/ Finds(t) \/ CreateNewBlockThrows(t)
  \/ ~minerShutdown /\ \E f \in BOOLEAN, limit \in Limits : GenerateBitcoins(f, limit)
  \/ TipChanges \/ PoolChanges \/ PeersChange \/ PoolDrains \/ ShutsDown

MinerFairness == \A t \in Threads : WF_minerVars(MinerThread(t))

MinerSpec == MinerInit /\ [][MinerNext]_minerVars /\ MinerFairness

----------------------------------------------------------------------------

\* The unlocked readings of the tip never leave a thread searching for a
\* successor of a block that is no longer the tip.
StaleIsAbandoned ==
  \A t \in Threads :
    (minerAt[t] = "search" /\ template[t].prev # best) ~> minerAt[t] # "search"

\* No two blocks that were handed to ProcessBlock pay one key of the pool, whether or
\* not they were accepted, unless the pool was drained.  The default key is not in the
\* pool: every block for which a locked wallet had no key pays it (wallet.cpp:1751-1755).
PaidOnce ==
  ~drained => \A k \in BagToSet(paid) \ {vchDefaultKey} : paid[k] <= 1

\* When the node shuts down every miner thread ends, and the count the
\* shutdown waits for stays zero.
MinersEnd == <>[](minerShutdown => \A t \in Threads : minerAt[t] = "none")

\* The height in the coinbase is that of the block it is in.  It is not when the tip
\* moves before CreateNewBlock reads it again (main.cpp:3844, 3849).
CoinbaseHasHeight ==
  \A t \in Threads : minerAt[t] = "search" => template[t].height = template[t].prev + 1
=============================================================================
