---------------------------- MODULE MCJobUpdate ----------------------------
(* Instances of JobUpdate for TLC.                                         *)
EXTENDS JobUpdate

(* Each miner on the coin of a daemon of its own.                          *)
CONSTANTS d1, d2, c1, c2
OnePerCoin == [c \in {c1, c2} |-> IF c = c1 THEN d1 ELSE d2]
OneMiner == [c \in {c1} |-> d1]
=============================================================================
