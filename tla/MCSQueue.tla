------------------------------ MODULE MCSQueue ------------------------------
(***************************************************************************)
(* SQueue for TLC: two producers, as when the threads of two runs overlap, *)
(* and two consumers, framer_thread or the reader with a time limit and    *)
(* SiDaqResetQueue without.                                                *)
(***************************************************************************)
EXTENDS SQueueDelete
=============================================================================
