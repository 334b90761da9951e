---------------------------- MODULE MCJobSignal ----------------------------
(* Instances of JobSignal for TLC.                                         *)
EXTENDS JobSignal
=============================================================================
