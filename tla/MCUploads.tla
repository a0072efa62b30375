----------------------------- MODULE MCUploads -----------------------------
(* TLC instances of Uploads: three versions of one name, two of which      *)
(* differ in a trailing zero only, and a name that differs in its case.    *)
EXTENDS Uploads, TLC

CONSTANTS foo, Foo

MCPackageId == {[name |-> foo, version |-> <<1>>],
                [name |-> foo, version |-> <<1, 0>>],
                [name |-> foo, version |-> <<2>>],
                [name |-> Foo, version |-> <<1>>]}

MCCandidateId == {[name |-> foo, version |-> <<1>>]}

MCLowercase == [n \in Name |-> foo]

Symmetry == Permutations(Request) \cup Permutations(User)
=============================================================================
