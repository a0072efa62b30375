---------------------------- MODULE TrailingCopy ----------------------------
(***************************************************************************)
(* What an asynchronous cache promises its readers, with no channel, loop  *)
(* thread or prodding: a copy that trails the source, possibly skipping    *)
(* changes, and that catches up.  It never goes past the source, and goes  *)
(* back only after a race of two updates, which lasts until it has caught   *)
(* up.                                                                     *)
(***************************************************************************)
EXTENDS Naturals

VARIABLES source, copy,
          raced    \* two updates have raced and the later one is not out yet

vars == <<source, copy, raced>>

Init == source = 0 /\ copy = 0 /\ raced = FALSE

Change == source' = source + 1 /\ UNCHANGED <<copy, raced>>

Race == raced' = TRUE /\ UNCHANGED <<source, copy>>

(* An update that comes out ends the race if it is the current value.      *)
Recover == raced' = raced \/ (raced' = FALSE /\ copy' = source)

Refresh  == copy' \in copy + 1 .. source /\ Recover /\ UNCHANGED source
Confirm  == copy' = copy /\ Recover /\ UNCHANGED source
FallBack == raced /\ copy' \in 0 .. copy - 1 /\ Recover /\ UNCHANGED source

Next == Change \/ Race \/ Refresh \/ Confirm \/ FallBack
Spec == Init /\ [][Next]_vars

(* It catches up.                                                          *)
Fairness == WF_vars(Refresh)
=============================================================================
