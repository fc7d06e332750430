------------------------------ MODULE MCChain ------------------------------
(***************************************************************************)
(* Instances of Chain: two small block trees.  A configuration takes one,  *)
(* or a part of it, with its transactions.                                 *)
(*                                                                         *)
(*   Fork       g - c1 - a2 - a3 - a4 - a5                                 *)
(*                    \ b2 - b3 - b4 - b5                                  *)
(*                              \ x4 - y5                                  *)
(*              a3 and b3 spend the coinbase of c1 with the same           *)
(*              transaction p, a3 and b4 what p paid.  No branch with one  *)
(*              of these is valid: a5 spends the coinbase of c1 once more, *)
(*              b5 has the coinbase of b2 again, which is not spent        *)
(*              (BIP30), and x4 can be given a bad signature.              *)
(*                                                                         *)
(*   Duplicate  g - d1 - d2 - d3                                           *)
(*                    \ e2 - e3 - e4                                       *)
(*              d2 spends the coinbase of d1, d3 has that coinbase again.  *)
(***************************************************************************)
EXTENDS ChainReference, TLC

ForkTree ==
  ("g" :> NULL) @@ ("c1" :> "g")
  @@ ("a2" :> "c1") @@ ("a3" :> "a2") @@ ("a4" :> "a3") @@ ("a5" :> "a4")
  @@ ("b2" :> "c1") @@ ("b3" :> "b2") @@ ("b4" :> "b3") @@ ("b5" :> "b4")
  @@ ("x4" :> "b3") @@ ("y5" :> "x4")

ForkBlocks == DOMAIN ForkTree

ForkPrev == [b \in Block |-> ForkTree[b]]

UnitWork == [b \in Block |-> 1]

\* a4 is worth three of the others: the heaviest branch is not the highest.
UnequalWork == [b \in Block |-> IF b = "a4" THEN 3 ELSE 1]

\* One coinbase a block, named after the first that has it; the coinbase of g
\* is no coin.
ForkCoinBase == ForkBlocks \ {"g", "b5"}

ForkTx == ForkCoinBase \cup {"p", "q", "r"}

ForkVin ==
  [t \in ForkTx |-> CASE t \in {"p", "r"} -> {<<"c1", 0>>}
                      [] t = "q"          -> {<<"p", 1>>}
                      [] OTHER            -> {}]

ForkVout == [t \in ForkTx |-> IF t = "p" THEN 2 ELSE 1]

ForkVtx ==
  [b \in Block |-> CASE b = "g"  -> <<>>
                          [] b = "a3" -> <<b, "p", "q">>
                          [] b = "b3" -> <<b, "p">>
                          [] b = "b4" -> <<b, "q">>
                          [] b = "b5" -> <<"b2">>
                          [] b = "a5" -> <<b, "r">>
                          [] OTHER    -> <<b>>]

\* The part of the Fork tree without the invalid blocks: a block is postponed
\* here only after an error.
SoundBlocks == ForkBlocks \ {"a5", "b5", "x4", "y5"}

DuplicateTree ==
  ("g" :> NULL) @@ ("d1" :> "g") @@ ("d2" :> "d1") @@ ("d3" :> "d2")
  @@ ("e2" :> "d1") @@ ("e3" :> "e2") @@ ("e4" :> "e3")

DuplicateBlocks == DOMAIN DuplicateTree

DuplicatePrev == [b \in Block |-> DuplicateTree[b]]

DuplicateCoinBase == {"d1", "d2", "e2", "e3", "e4"}

DuplicateTx == DuplicateCoinBase \cup {"s"}

DuplicateVin == [t \in DuplicateTx |-> IF t = "s" THEN {<<"d1", 0>>} ELSE {}]

DuplicateVout == [t \in DuplicateTx |-> 1]

DuplicateVtx ==
  [b \in Block |-> CASE b = "g"  -> <<>>
                               [] b = "d2" -> <<"d2", "s">>
                               [] b = "d3" -> <<"d1">>
                               [] OTHER    -> <<b>>]
=============================================================================
