------------------------------- MODULE MCRbcp -------------------------------
(***************************************************************************)
(* Rbcp for TLC.  The ids wrap around within the calls of the run, a reply *)
(* may come one call late and one more may wait in the buffer, and one of  *)
(* the two addresses has no register.                                      *)
(***************************************************************************)
EXTENDS Rbcp
=============================================================================
