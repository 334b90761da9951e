----------------------------- MODULE MCJobRefs -----------------------------
(* Instances of JobRefs for TLC.                                           *)
EXTENDS JobRefs
=============================================================================
