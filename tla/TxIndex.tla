------------------------------ MODULE TxIndex ------------------------------
(***************************************************************************)
(* The transaction index of the block database (CTxDB, records CTxIndex):  *)
(* for every transaction of the main chain, the block it is stored in and  *)
(* which of its outputs are spent.  Connecting a block adds its            *)
(* transactions and marks what they spend; disconnecting undoes it.        *)
(*                                                                         *)
(* Blocks and transactions are constants: a block never changes, and what  *)
(* a block does to the index depends only on the block and on the index.   *)
(* A transaction is its set of inputs and its number of outputs; a         *)
(* position on disk is the block the transaction was read from.            *)
(***************************************************************************)
EXTENDS Integers, Sequences, FiniteSets

CONSTANTS
  Block,           \* the blocks this node may ever receive
  Genesis,         \* hashGenesisBlock
  NULL,            \* the null hash and the null pointer
  hashPrevBlock,   \* [Block -> Block], NULL for Genesis
  Tx,              \* the transactions of these blocks
  vtx,             \* [Block -> sequence of Tx], the coinbase first
  vin,             \* [Tx -> set of out points <<tx, n>>], {} for a coinbase
  vout,            \* [Tx -> number of outputs]
  CoinBase,        \* the coinbase transactions
  COINBASE_MATURITY,
  BadValue,        \* blocks ConnectBlock refuses for sigops, values or subsidy
  BadSig           \* blocks that carry a signature which does not verify

ASSUME BlockAssumption ==
  /\ Genesis \in Block
  /\ NULL \notin Block
  /\ hashPrevBlock \in [Block -> Block \cup {NULL}]
  /\ \A b \in Block : hashPrevBlock[b] = NULL <=> b = Genesis
  /\ BadValue \subseteq Block
  /\ BadSig \subseteq Block

ASSUME TxAssumption ==
  /\ vtx \in [Block -> Seq(Tx)]
  /\ vin \in [Tx -> SUBSET (Tx \X Nat)]
  /\ vout \in [Tx -> Nat]
  /\ CoinBase \subseteq Tx
  /\ \A t \in CoinBase : vin[t] = {}
  /\ COINBASE_MATURITY \in Nat

----------------------------------------------------------------------------
(* What the database stores. *)

\* CTxIndex: where the transaction is, and the outputs that are not null in
\* its vSpent.
CTxIndex == [pos : Block, vSpent : SUBSET Nat]

\* The contents of the "tx" records of the database.
IsTxIndex(txindex) ==
  /\ DOMAIN txindex \subseteq Tx
  /\ txindex \in [DOMAIN txindex -> CTxIndex]

Outputs(t) == 0..(vout[t] - 1)

Transactions(b) == {vtx[b][i] : i \in DOMAIN vtx[b]}

\* The transactions of b before the i-th: the keys of mapQueuedChanges that
\* ConnectBlock's loop has added when it comes to the i-th.
Earlier(b, i) == {vtx[b][k] : k \in 1..(i - 1)}

\* The out points those transactions spend.
SpentBefore(b, i) == UNION {vin[vtx[b][k]] : k \in 1..(i - 1)}

\* The outputs of t that b spends.
SpentIn(b, t) ==
  {in[2] : in \in {x \in SpentBefore(b, Len(vtx[b]) + 1) : x[1] = t}}

----------------------------------------------------------------------------
(* Connecting a block. *)

\* The k-th ancestor of b, NULL past the first block.
Back(b, m) ==
  LET back[k \in 0..m] ==
        IF k = 0 THEN b
        ELSE IF back[k - 1] = NULL THEN NULL
        ELSE hashPrevBlock[back[k - 1]]
  IN  back[m]

\* Mutant: records are overwritten whatever they hold.
AllowOverwrite(b, txindex) == TRUE

\* BIP30: a transaction whose index already exists may be overwritten only
\* when all its outputs are spent.
EnforceBIP30(b, txindex) ==
  \A t \in Transactions(b) \cap DOMAIN txindex :
    Outputs(t) \subseteq txindex[t].vSpent

\* The i-th transaction of b finds the index of every transaction it spends,
\* in the changes queued for this block or else in the database, and every
\* out point is in range.
FetchInputs(b, i, txindex) ==
  \A in \in vin[vtx[b][i]] :
    /\ in[1] \in Earlier(b, i) \cup DOMAIN txindex
    /\ in[2] \in Outputs(in[1])

\* The block that holds t as the i-th transaction of b sees it.
PosSeen(b, i, t, txindex) ==
  IF t \in Earlier(b, i) THEN b ELSE txindex[t].pos

\* Mutant: one block too many.
MatureOneLater(b, i, t, txindex) ==
  \A k \in 0..COINBASE_MATURITY : Back(b, k) # PosSeen(b, i, t, txindex)

\* None of the last COINBASE_MATURITY blocks up to b holds the coinbase t.
Mature(b, i, t, txindex) ==
  \A k \in 0..(COINBASE_MATURITY - 1) :
    Back(b, k) # PosSeen(b, i, t, txindex)

\* The i-th transaction of b spends mature outputs that nothing has spent.
ConnectInputs(b, i, txindex) ==
  \A in \in vin[vtx[b][i]] :
    /\ in[1] \in CoinBase => Mature(b, i, in[1], txindex)
    /\ in \notin SpentBefore(b, i)
    /\ in[1] \notin Earlier(b, i) => in[2] \notin txindex[in[1]].vSpent

\* CBlock::ConnectBlock succeeds.  Signatures are verified only when the
\* best height of the node has reached the last checkpoint.
ConnectBlock(b, txindex, fCheckSig) ==
  /\ b \notin BadValue
  /\ fCheckSig => b \notin BadSig
  /\ EnforceBIP30(b, txindex)
  /\ \A i \in DOMAIN vtx[b] :
       /\ FetchInputs(b, i, txindex)
       /\ ConnectInputs(b, i, txindex)

\* Mutant: what the block itself spends of its own outputs is not queued.
ConnectedOwnUnspent(b, txindex) ==
  [t \in DOMAIN txindex \cup Transactions(b) |->
     IF t \in Transactions(b) THEN [pos |-> b, vSpent |-> {}]
     ELSE [pos |-> txindex[t].pos,
           vSpent |-> txindex[t].vSpent \cup SpentIn(b, t)]]

\* The index after ConnectBlock wrote its queued changes.
Connected(b, txindex) ==
  [t \in DOMAIN txindex \cup Transactions(b) |->
     IF t \in Transactions(b)
     THEN [pos |-> b, vSpent |-> SpentIn(b, t)]
     ELSE [pos |-> txindex[t].pos,
           vSpent |-> txindex[t].vSpent \cup SpentIn(b, t)]]

----------------------------------------------------------------------------
(* Disconnecting a block. *)

\* CBlock::DisconnectBlock succeeds: the transactions are undone from the
\* last to the first, and each finds the index of what it spends, which no
\* transaction undone before it has erased.
DisconnectBlock(b, txindex) ==
  \A i \in DOMAIN vtx[b] : \A in \in vin[vtx[b][i]] :
    /\ in[1] \in DOMAIN txindex
    /\ \A k \in DOMAIN vtx[b] : k > i => vtx[b][k] # in[1]
    /\ in[2] \in Outputs(in[1])

\* The index after CTransaction::DisconnectInputs on every transaction: what
\* they spent is unspent again and their own records are erased.
Disconnected(b, txindex) ==
  [t \in DOMAIN txindex \ Transactions(b) |->
     [pos |-> txindex[t].pos,
      vSpent |-> txindex[t].vSpent \ SpentIn(b, t)]]

\* The spendable outputs the index describes.
Unspent(txindex) ==
  UNION {{<<t, n>> : n \in Outputs(t) \ txindex[t].vSpent} : t \in DOMAIN txindex}
=============================================================================
