----------------------------- MODULE MCVardiff -----------------------------
(* Instances of Vardiff for TLC.                                           *)
EXTENDS Vardiff

(* From far too slow to far too fast for any difficulty up to diff_max.    *)
Steady == {2^k * m : k \in 2..24, m \in {5, 7}}

(* 0.0015, 0.01, 0.7, 1, 1.5, 3, 30 and 1000.                              *)
Asked == {6, 40, 2800, 4000, 6000, 12000, 120000, 4000000}
=============================================================================
