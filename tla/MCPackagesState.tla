-------------------------- MODULE MCPackagesState --------------------------
(* TLC instances of PackagesState. *)
EXTENDS PackagesState

(* Packages and texts are interchangeable. *)
Symmetry == Permutations(PackageId) \cup Permutations(CabalFile)
=============================================================================
