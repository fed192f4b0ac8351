---------------------------- MODULE MCDhsAdapter ----------------------------
(***************************************************************************)
(* DhsAdapter under TLC.  The state space is finite as it stands.          *)
(***************************************************************************)
EXTENDS DhsAdapter, TLC

Symmetry == Permutations(Threads)
=============================================================================
