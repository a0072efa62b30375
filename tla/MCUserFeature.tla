--------------------------- MODULE MCUserFeature ---------------------------
(* The instance of UserFeature that TLC checks.                            *)
EXTENDS UserFeature, TLC

Symmetry == Permutations(Nonce)
=============================================================================
