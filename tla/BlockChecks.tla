---------------------------- MODULE BlockChecks ----------------------------
(***************************************************************************)
(* The checks of blocks and transactions that need no context: amounts,    *)
(* duplicates, and the Merkle tree that binds the transactions to the      *)
(* header (main.cpp:432-526, 1802-1854, main.h:850-896).                   *)
(***************************************************************************)
EXTENDS Integers, Sequences, FiniteSets, SequencesExt

CONSTANTS
  MAX_MONEY, CENT,
  MoneyWidth,                       \* bits of an int64
  MAX_BLOCK_SIZE_GEN, FreeTxSize, FreeBlockSize, KiloByte, \* GetMinFee's sizes
  nMaxSigOps

ASSUME CheckAssumption ==
  /\ {MAX_MONEY, CENT, MoneyWidth, MAX_BLOCK_SIZE_GEN, KiloByte} \subseteq Nat \ {0}
  /\ {FreeTxSize, FreeBlockSize, nMaxSigOps} \subseteq Nat
  /\ 2 ^ (MoneyWidth - 1) \in Nat   \* which the provers do not know of a power
  /\ 2 * MAX_MONEY < 2 ^ (MoneyWidth - 1)

----------------------------------------------------------------------------
(* Amounts: sums wrap around, so a total is looked at after every step.     *)

Int64(n) ==
  LET half == 2 ^ (MoneyWidth - 1) IN ((n + half) % (2 * half)) - half

MoneyRange(n) == 0 <= n /\ n <= MAX_MONEY

\* The wrapped total, or -1 once a value or the total so far is out of range.
AddsAmount(total, n) ==
  IF total # -1 /\ MoneyRange(n) /\ MoneyRange(Int64(total + n)) THEN Int64(total + n) ELSE -1

TotalValue(values) == FoldLeft(AddsAmount, 0, values)

\* A transaction: its inputs, an input being the output it spends, or "null"; and
\* the amounts of its outputs.
IsCoinBase(tx) == tx.vin = <<"null">>

CheckTransaction(tx) ==
  /\ tx.vin # <<>> /\ tx.vout # <<>>
  /\ TotalValue(tx.vout) # -1
  /\ IsInjective(tx.vin)
  /\ ~IsCoinBase(tx) => "null" \notin Range(tx.vin)

GetValueIn(tx, valueOf) == TotalValue([i \in DOMAIN tx.vin |-> valueOf[tx.vin[i]]])

\* What ConnectInputs finds of the amounts of a transaction other than a
\* coinbase: its fee, or -1.
TxFee(tx, valueOf) ==
  LET nTxFee == GetValueIn(tx, valueOf) - TotalValue(tx.vout) IN
  IF GetValueIn(tx, valueOf) = -1 \/ ~MoneyRange(nTxFee) THEN -1 ELSE nTxFee

----------------------------------------------------------------------------
(* The least fee of a transaction of nBytes with these outputs, in a block  *)
(* of nBlockSize so far; 1 stands for no block.                             *)

Raised(nMinFee, nBlockSize, nNewBlockSize) ==
  IF nBlockSize = 1 \/ nNewBlockSize < MAX_BLOCK_SIZE_GEN \div 2 THEN nMinFee
  ELSE IF nNewBlockSize >= MAX_BLOCK_SIZE_GEN THEN MAX_MONEY
  ELSE nMinFee * (MAX_BLOCK_SIZE_GEN \div (MAX_BLOCK_SIZE_GEN - nNewBlockSize))

GetMinFee(nBytes, vout, nBlockSize, fAllowFree, nBaseFee) ==
  LET nNewBlockSize == nBlockSize + nBytes
      free == fAllowFree /\ IF nBlockSize = 1 THEN nBytes < FreeTxSize
                            ELSE nNewBlockSize < FreeBlockSize
      sized == IF free THEN 0 ELSE (1 + nBytes \div KiloByte) * nBaseFee
      dusty == sized < nBaseFee /\ \E i \in DOMAIN vout : vout[i] < CENT
      raised == Raised(IF dusty THEN nBaseFee ELSE sized, nBlockSize, nNewBlockSize)
  IN  IF MoneyRange(raised) THEN raised ELSE MAX_MONEY

----------------------------------------------------------------------------
(* Merkle trees: a hash is the pair of what it is of. An odd last entry of a *)
(* level is paired with itself.                                              *)

Hash(left, right) == [left |-> left, right |-> right]
Least(a, b) == IF a < b THEN a ELSE b

NextLevel(level) ==
  [i \in 1..((Len(level) + 1) \div 2) |-> Hash(level[2 * i - 1], level[Least(2 * i, Len(level))])]

\* The levels above and including the given one, down to the root's.
Levels(vtx) ==
  LET levels[n \in 0..Len(vtx)] ==
        IF n = 0 THEN <<vtx>>
        ELSE LET below == levels[n - 1]
             IN  IF Len(Last(below)) <= 1 THEN below ELSE Append(below, NextLevel(Last(below)))
  IN  levels[Len(vtx)]

BuildMerkleTree(vtx) == IF vtx = <<>> THEN "0" ELSE Last(Levels(vtx))[1]

\* Where a leaf's place, which counts from zero, is n levels up.
PlacesAbove(nIndex, n) ==
  LET place[k \in 0..n] == IF k = 0 THEN nIndex ELSE place[k - 1] \div 2 IN place

\* The other half of every pair on the way up from nIndex.
Sibling(i) == IF i % 2 = 0 THEN i + 1 ELSE i - 1

GetMerkleBranch(vtx, nIndex) ==
  LET sides == SubSeq(Levels(vtx), 1, Len(Levels(vtx)) - 1)
      place == PlacesAbove(nIndex, Len(sides))
  IN  [n \in DOMAIN sides |->
         sides[n][Least(Sibling(place[n - 1]), Len(sides[n]) - 1) + 1]]

CheckMerkleBranch(hash, branch, nIndex) ==
  IF nIndex = -1 THEN "0"
  ELSE LET place == PlacesAbove(nIndex, Len(branch))
           up[n \in 0..Len(branch)] ==
             IF n = 0 THEN hash
             ELSE IF place[n - 1] % 2 = 1 THEN Hash(branch[n], up[n - 1])
             ELSE Hash(up[n - 1], branch[n])
       IN  up[Len(branch)]

----------------------------------------------------------------------------

\* Mutant: a block may hold a transaction twice.
UniqueTxAny(vtx) == TRUE

UniqueTx(vtx) == IsInjective(vtx)

\* A block: its transactions, each with its signature operations, and the root
\* its header claims. Proof of work and time are in Work.
CheckBlock(block) ==
  /\ block.vtx # <<>>
  /\ IsCoinBase(block.vtx[1])
  /\ \A i \in 2..Len(block.vtx) : ~IsCoinBase(block.vtx[i])
  /\ \A i \in DOMAIN block.vtx : CheckTransaction(block.vtx[i])
  /\ UniqueTx(block.vtx)
  /\ FoldLeft(LAMBDA n, tx : n + tx.nSigOps, 0, block.vtx) <= nMaxSigOps
  /\ block.hashMerkleRoot = BuildMerkleTree(block.vtx)

----------------------------------------------------------------------------

Sum(values) == FoldLeft(LAMBDA s, n : s + n, 0, values)

\* No sum of amounts wraps around into a small one: what a checked transaction
\* pays out, and the fee it leaves, are the true sums, and it takes in no less
\* than it pays out.
AmountsAreReal(tx, valueOf) ==
  CheckTransaction(tx) =>
    /\ Sum(tx.vout) \in 0..MAX_MONEY
    /\ ~IsCoinBase(tx) /\ TxFee(tx, valueOf) # -1 =>
         /\ Sum([i \in DOMAIN tx.vin |-> valueOf[tx.vin[i]]]) = Sum(tx.vout) + TxFee(tx, valueOf)
         /\ TxFee(tx, valueOf) \in 0..MAX_MONEY

\* A fee is an amount, and does not fall as a block fills up.
FeeRises(nBytes, vout, nBlockSize, fAllowFree, nBaseFee) ==
  LET Fee(n) == GetMinFee(nBytes, vout, n, fAllowFree, nBaseFee) IN
  /\ MoneyRange(Fee(nBlockSize))
  /\ \A n \in 2..(nBlockSize - 1) : nBlockSize > 1 => Fee(n) <= Fee(nBlockSize)

\* Two blocks that pass CheckBlock with one root have the same transactions, so
\* that refusing one of them says something about the other.
RootDetermines(block1, block2) ==
  CheckBlock(block1) /\ CheckBlock(block2) /\ block1.hashMerkleRoot = block2.hashMerkleRoot
    => block1.vtx = block2.vtx

\* A branch proves the transaction it was made for, and no other.
BranchProves(vtx, i, hash) ==
  (CheckMerkleBranch(hash, GetMerkleBranch(vtx, i), i) = BuildMerkleTree(vtx)) <=> hash = vtx[i + 1]
=============================================================================
