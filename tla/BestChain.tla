----------------------------- MODULE BestChain -----------------------------
(***************************************************************************)
(* What the block database promises whoever reads it, after a restart too: *)
(* it knows more and more blocks, and its tip only ever moves to a known   *)
(* block whose whole branch is valid and has more work than the tip had.   *)
(***************************************************************************)
EXTENDS Naturals

CONSTANTS
  Block,
  Genesis,
  Prev,        \* [Block -> Block], the previous block, but for Genesis
  Work,        \* [Block -> work of the branch that ends there]
  ValidBranch  \* the blocks whose whole branch is valid

VARIABLES
  known,       \* the blocks of the database
  tip          \* its best block

Init ==
  /\ known = {Genesis}
  /\ tip = Genesis

\* A block is stored once its predecessor is.
Learn(b) ==
  /\ b \notin known
  /\ Prev[b] \in known
  /\ known' = known \cup {b}
  /\ UNCHANGED tip

\* A valid branch with more work takes over.
Adopt(b) ==
  /\ b \in known
  /\ b \in ValidBranch
  /\ Work[b] > Work[tip]
  /\ tip' = b
  /\ UNCHANGED known

Next == \E b \in Block : Learn(b) \/ Adopt(b)

Spec == Init /\ [][Next]_<<known, tip>>
=============================================================================
