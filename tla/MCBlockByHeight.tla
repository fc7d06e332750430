-------------------------- MODULE MCBlockByHeight --------------------------
(***************************************************************************)
(* An instance of BlockByHeight, over the block trees of MCChain.          *)
(***************************************************************************)
EXTENDS BlockByHeight, MCChain
=============================================================================
