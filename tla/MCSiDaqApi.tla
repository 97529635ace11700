----------------------------- MODULE MCSiDaqApi -----------------------------
(***************************************************************************)
(* SiDaqApi for TLC.  With one handle value every socket() returns the     *)
(* handle closed last, which is the hardest case for a thread that still   *)
(* holds a closed one; with two, a leaked socket and a new one coexist.    *)
(* Handles are compared with each other and with INVALID_SOCKET only, so   *)
(* permuting them is sound for safety.                                     *)
(***************************************************************************)
EXTENDS SiDaqApi, TLC

HandleSymmetry == Permutations(Handles)
=============================================================================
