--------------------------- MODULE MCCodexBridge ---------------------------
(* Instances of CodexBridge for TLC. *)
EXTENDS CodexBridge, TLC

CONSTANTS j1, j2

Symmetry == Permutations(Jobs)
=============================================================================
