----------------------------- MODULE MCManagers -----------------------------
(***************************************************************************)
(* Managers for TLC: two managers, as when the application reads from two  *)
(* devices, and enough handles for both their sockets, of which one may    *)
(* have leaked or belong to the application.                               *)
(***************************************************************************)
EXTENDS Managers, TLC

\* Managers and handles are interchangeable.
Symmetry == Permutations(Mngrs) \cup Permutations(Handles)
=============================================================================
