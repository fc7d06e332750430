--------------------------- MODULE BlockTemplate ---------------------------
(***************************************************************************)
(* Which transactions of the memory pool CreateNewBlock puts into a block: *)
(* first those of high priority, then those that pay most, each after the  *)
(* ones it spends, within the limits on size and signature operations.     *)
(*                                                                         *)
(* A pool is a function from its transactions to what is known of each.    *)
(***************************************************************************)
EXTENDS Integers, Sequences, FiniteSets, SequencesExt

CONSTANTS
  Pools,       \* pools that are tried
  nBlockMaxSize, nBlockPrioritySize, nBlockMinSize, MAX_BLOCK_SIGOPS,
  nMinTxFee,   \* fee for its size below which a transaction counts as free
  HighPriority \* COIN * 144 / 250

ASSUME TemplateAssumption ==
  /\ {nBlockMaxSize, nBlockPrioritySize, nBlockMinSize, MAX_BLOCK_SIGOPS, nMinTxFee, HighPriority} \subseteq Int
  /\ nBlockPrioritySize <= nBlockMaxSize /\ nBlockMinSize <= nBlockMaxSize

VARIABLES
  pool,        \* mempool.mapTx
  templateTxs, \* pblock->vtx behind the coinbase
  vecPriority, \* transactions in the queue
  setDependsOn,\* of each COrphan, the parents that are not in the block
  fSortedByFee,
  exempt       \* the transaction that was added when the order changed

templateVars == <<pool, templateTxs, vecPriority, setDependsOn, fSortedByFee, exempt>>

\* A transaction: its parents in the pool, its priority and its fee for the size,
\* its size, its signature operations, those of the scripts it spends by their
\* hash, and whether its inputs are found and ConnectInputs takes them.
PoolTx(parents, priority, fee, size, ops, p2sh, ok) ==
  [parents |-> parents, priority |-> priority, fee |-> fee, size |-> size, ops |-> ops, p2sh |-> p2sh,
   ok |-> ok]

IsPool(p) ==
  \A t \in DOMAIN p :
    /\ p[t].parents \subseteq DOMAIN p
    /\ {p[t].priority, p[t].fee} \subseteq Int /\ {p[t].size, p[t].ops, p[t].p2sh} \subseteq Nat
    /\ p[t].ok \in BOOLEAN

ASSUME PoolsAssumption == \A p \in Pools : IsPool(p)

\* What waits for nothing enters the queue; the rest is held with its parents.
TemplateInit ==
  /\ pool \in Pools
  /\ templateTxs = <<>>
  /\ vecPriority = {t \in DOMAIN pool : pool[t].parents = {}}
  /\ setDependsOn = [t \in DOMAIN pool |-> pool[t].parents]
  /\ fSortedByFee = (nBlockPrioritySize <= 0)
  /\ exempt = {}

InBlock == Range(templateTxs)

\* What the transactions up to each one come to; the coinbase counts for 1.
Counted(txs, of) ==
  LET count[i \in 0..Len(txs)] == IF i = 0 THEN 1 ELSE count[i - 1] + of[txs[i]] IN count
TxSizes == [t \in DOMAIN pool |-> pool[t].size]
TxSigOps == [t \in DOMAIN pool |-> pool[t].ops + pool[t].p2sh]
nBlockSize == Counted(templateTxs, TxSizes)[Len(templateTxs)]
nBlockSigOps == Counted(templateTxs, TxSigOps)[Len(templateTxs)]

\* TxPriorityCompare: by fee and then by priority, or the other way round.
Before(byFee, t, u) ==
  LET a == pool[t]
      b == pool[u]
  IN  IF byFee THEN a.fee < b.fee \/ (a.fee = b.fee /\ a.priority < b.priority)
      ELSE a.priority < b.priority \/ (a.priority = b.priority /\ a.fee < b.fee)

First == {t \in vecPriority : \A u \in vecPriority : ~Before(fSortedByFee, t, u)}

Fits(t) ==
  /\ nBlockSize + pool[t].size < nBlockMaxSize
  /\ nBlockSigOps + pool[t].ops < MAX_BLOCK_SIGOPS

\* With its inputs at hand, the scripts they spend by hash count as well.
Connectible(t) == pool[t].ok /\ nBlockSigOps + pool[t].ops + pool[t].p2sh < MAX_BLOCK_SIGOPS

IsFree(t) == pool[t].fee < nMinTxFee /\ nBlockSize + pool[t].size >= nBlockMinSize

\* The order changes with the first transaction that leaves the area for high
\* priority; that one is added all the same.
ChangesOrder(t) ==
  ~fSortedByFee /\ (\/ nBlockSize + pool[t].size >= nBlockPrioritySize
                    \/ pool[t].priority < HighPriority)

\* Mutant: a transaction is queued with the first of its parents.
ReleasedEarly(t) == {u \in DOMAIN pool : t \in setDependsOn[u]}

\* Those that waited for t last.
Released(t) == {u \in DOMAIN pool : setDependsOn[u] = {t}}

Adds(t) ==
  /\ templateTxs' = Append(templateTxs, t)
  /\ vecPriority' = (vecPriority \ {t}) \cup Released(t)
  /\ setDependsOn' = [u \in DOMAIN pool |-> setDependsOn[u] \ {t}]

PassesOver(t) ==
  /\ vecPriority' = vecPriority \ {t}
  /\ UNCHANGED <<templateTxs, setDependsOn>>

\* One turn of the loop.
TakesFirst ==
  /\ \E t \in First :
       IF ~Fits(t) \/ (fSortedByFee /\ IsFree(t))
       THEN PassesOver(t) /\ UNCHANGED <<fSortedByFee, exempt>>
       ELSE /\ fSortedByFee' = (fSortedByFee \/ ChangesOrder(t))
            /\ exempt' = IF ChangesOrder(t) THEN {t} ELSE exempt
            /\ IF Connectible(t) THEN Adds(t) ELSE PassesOver(t)
  /\ UNCHANGED pool

TemplateNext == TakesFirst
TemplateSpec == TemplateInit /\ [][TemplateNext]_templateVars /\ WF_templateVars(TemplateNext)

----------------------------------------------------------------------------

\* The block is within its limits and every transaction comes after those it
\* spends, at every point of the loop.
TemplateIsOrdered ==
  /\ nBlockSize < nBlockMaxSize \/ templateTxs = <<>>
  /\ nBlockSigOps < MAX_BLOCK_SIGOPS \/ templateTxs = <<>>
  /\ IsInjective(templateTxs)
  /\ \A i \in DOMAIN templateTxs :
       pool[templateTxs[i]].parents \subseteq Range(SubSeq(templateTxs, 1, i - 1))

\* Nothing is left out that could have gone in: when the queue is empty, what is
\* not in the block waits for something that is not, or does not fit behind what
\* is there, or pays nothing, or does not connect.
NothingIsForgotten ==
  vecPriority = {} =>
    \A t \in DOMAIN pool \ InBlock :
      \/ ~(pool[t].parents \subseteq InBlock)
      \/ ~Fits(t) \/ IsFree(t) \/ ~Connectible(t)

\* A transaction that pays nothing is there for its priority, or because the
\* block was below its least size, or it is the one the order changed with.
FreeForAReason ==
  \A i \in DOMAIN templateTxs :
    LET t == templateTxs[i]
        size == Counted(templateTxs, TxSizes)[i]
    IN  \/ pool[t].fee >= nMinTxFee \/ t \in exempt \/ size < nBlockMinSize
        \/ pool[t].priority >= HighPriority /\ size < nBlockPrioritySize

TemplateIsSound == TemplateIsOrdered /\ NothingIsForgotten /\ FreeForAReason
=============================================================================
