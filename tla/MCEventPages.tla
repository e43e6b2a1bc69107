---------------------------- MODULE MCEventPages -----------------------------
(* Pages of one and four callbacks, with a clock that lets one of them expire *)
(* while others are not old enough.                                           *)
EXTENDS EventPages, TLC

MCSymmetry == Permutations(Events)
=============================================================================
