------------------------- MODULE MCBlockProcessing -------------------------
(***************************************************************************)
(* An instance of BlockProcessing: blocks without transactions but their   *)
(* coinbase, which nobody spends.                                          *)
(*                                                                         *)
(*   g - k - a1 - a2                                                       *)
(*         \ b1 - b2 - b3                                                  *)
(*         \ c1 - c2                                                       *)
(*                                                                         *)
(* k is a checkpoint; the time in c1 is before that in k.                  *)
(***************************************************************************)
EXTENDS BlockProcessing, TLC

Tree ==
  ("g" :> NULL) @@ ("k" :> "g") @@ ("a1" :> "k") @@ ("a2" :> "a1")
  @@ ("b1" :> "k") @@ ("b2" :> "b1") @@ ("b3" :> "b2")
  @@ ("c1" :> "k") @@ ("c2" :> "c1")

Blocks == DOMAIN Tree

Prev == [b \in Block |-> Tree[b]]

UnitWork == [b \in Block |-> 1]

CoinBases == Blocks \ {"g"}

Vtx == [b \in Block |-> IF b = "g" THEN <<>> ELSE <<b>>]

NoInputs == [t \in Tx |-> {}]

OneOutput == [t \in Tx |-> 1]

BeforeCheckpoint == [c \in Checkpoints |-> {"c1"}]
=============================================================================
