------------------------------ MODULE MCVouch ------------------------------
(* TLC instances of Vouch.                                                 *)
EXTENDS Vouch, TLC

(* Requests and the first uploaders are interchangeable.                   *)
Symmetry == Permutations(Request) \cup Permutations(Founders)
=============================================================================
