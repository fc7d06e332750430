------------------------------ MODULE MCTxPool ------------------------------
(***************************************************************************)
(* An instance of TxPool:                                                  *)
(*                                                                         *)
(*   g - c1 - a2 - a3         a2 confirms p, a3 confirms q and s           *)
(*          \ b2 - b3 - b4    b3 confirms p as well, b4 confirms r         *)
(*                                                                         *)
(* p spends the coinbase of c1.  q and r both spend the first output of p; *)
(* s spends its second and q.                                              *)
(***************************************************************************)
EXTENDS TxPool, TLC

Tree ==
  ("g" :> NULL) @@ ("c1" :> "g")
  @@ ("a2" :> "c1") @@ ("a3" :> "a2")
  @@ ("b2" :> "c1") @@ ("b3" :> "b2") @@ ("b4" :> "b3")

Blocks == DOMAIN Tree

Prev == [b \in Block |-> Tree[b]]

UnitWork == [b \in Block |-> 1]

CoinBases == Blocks \ {"g"}

Loose == {"p", "q", "r", "s"}

Transaction == CoinBases \cup Loose

Vin ==
  [t \in Transaction |->
     CASE t = "p"          -> {<<"c1", 0>>}
       [] t \in {"q", "r"} -> {<<"p", 0>>}
       [] t = "s"          -> {<<"p", 1>>, <<"q", 0>>}
       [] OTHER            -> {}]

Vout == [t \in Transaction |-> IF t = "p" THEN 2 ELSE 1]

Vtx ==
  [b \in Block |-> CASE b = "g"           -> <<>>
                     [] b \in {"a2", "b3"} -> <<b, "p">>
                     [] b = "a3"           -> <<b, "q", "s">>
                     [] b = "b4"           -> <<b, "r">>
                     [] OTHER              -> <<b>>]
=============================================================================
