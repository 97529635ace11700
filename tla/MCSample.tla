------------------------------ MODULE MCSample ------------------------------
(***************************************************************************)
(* Sample for TLC: both programs in one run.                               *)
(***************************************************************************)
EXTENDS Sample, TLC
=============================================================================
