----------------------------- MODULE MCCoinds ------------------------------
(* Instances of Coinds for TLC.                                            *)
EXTENDS Coinds
=============================================================================
