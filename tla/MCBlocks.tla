------------------------------ MODULE MCBlocks ------------------------------
(* Instances of Blocks for TLC.                                            *)
EXTENDS Blocks
=============================================================================
