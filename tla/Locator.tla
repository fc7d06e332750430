------------------------------ MODULE Locator ------------------------------
(***************************************************************************)
(* CBlockLocator of main.h: a node describes the branch that ends at its   *)
(* tip by a list of its blocks, dense near the tip and sparser further     *)
(* down, and another node finds in it the last block both have.            *)
(*                                                                         *)
(* The branch is 0..tip, a block is its height in it.  The blocks up to    *)
(* fork are in the main chain of the node that reads the locator, those    *)
(* above it are not.                                                       *)
(***************************************************************************)
EXTENDS Integers, Sequences

CONSTANT MaxHeight  \* bound on the length of the branch

ASSUME HeightAssumption == MaxHeight \in Nat

NONE == -1          \* the null pointer, below the first block

VARIABLES
  tip, fork,        \* the branch, and how much of it the reader shares
  pindex, nStep,    \* the walk of Set
  vHave             \* the blocks it listed

locatorVars == <<tip, fork, pindex, nStep, vHave>>

LocatorInit ==
  /\ tip \in 0..MaxHeight
  /\ fork \in 0..tip
  /\ pindex = tip
  /\ nStep = 1
  /\ vHave = <<>>

\* Mutant: the steps grow too fast.
SetInLeaps ==
  /\ pindex # NONE
  /\ vHave' = Append(vHave, pindex)
  /\ pindex' = IF nStep > pindex THEN NONE ELSE pindex - nStep
  /\ nStep' = IF Len(vHave') > 10 THEN 4 * nStep ELSE nStep
  /\ UNCHANGED <<tip, fork>>

\* One turn of Set's loop: the block is listed, then the walk goes nStep
\* blocks back, or past the first block.
Set ==
  /\ pindex # NONE
  /\ vHave' = Append(vHave, pindex)
  /\ pindex' = IF nStep > pindex THEN NONE ELSE pindex - nStep
  /\ nStep' = IF Len(vHave') > 10 THEN 2 * nStep ELSE nStep
  /\ UNCHANGED <<tip, fork>>

\* The first block ends the list, whether or not the walk met it.
hashGenesisBlock == 0

Locator == Append(vHave, hashGenesisBlock)

LocatorNext == Set

LocatorSpec == LocatorInit /\ [][LocatorNext]_locatorVars

Listed == pindex = NONE

----------------------------------------------------------------------------
(* The reader. *)

\* The place in the list of the first block of the reader's main chain.
FirstShared ==
  CHOOSE i \in DOMAIN Locator :
    /\ Locator[i] <= fork
    /\ \A j \in 1..(i - 1) : Locator[j] > fork

GetBlockIndex == Locator[FirstShared]

\* How far back that block was, from its place in the list alone.
GetDistanceBack ==
  LET retrace[i \in 1..Len(Locator)] ==
        IF i = 1 THEN [nDistance |-> 0, nStep |-> 1]
        ELSE LET last      == retrace[i - 1]
                 nDistance == last.nDistance + last.nStep
             IN  [nDistance |-> nDistance,
                  nStep |-> IF nDistance > 10 THEN 2 * last.nStep ELSE last.nStep]
  IN  retrace[FirstShared].nDistance

----------------------------------------------------------------------------

\* The reader starts no further below the fork than the branch has blocks above
\* it, so what getblocks sends twice is at most what it sends at all; and to
\* retrace the steps gives the distance to that block, or no less when only the
\* first block was shared (CBlockLocator, GetDistanceBack).
NotTooFarBack ==
  Listed =>
    /\ GetBlockIndex = fork \/ fork - GetBlockIndex < tip - fork
    /\ IF FirstShared <= Len(vHave) THEN GetDistanceBack = tip - GetBlockIndex
       ELSE GetDistanceBack >= tip
=============================================================================
