--------------------------- MODULE MCPackageList ---------------------------
(* TLC instances of PackageList.                                           *)
EXTENDS PackageList, TLC

CONSTANTS p1, p2, library

MCImmutableTags == (p1 :> {library}) @@ (p2 :> {})

Symmetry == Permutations(Request)
=============================================================================
