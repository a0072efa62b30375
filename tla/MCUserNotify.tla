---------------------------- MODULE MCUserNotify ----------------------------
EXTENDS UserNotify, TLC

Pref(range, upload, pending) ==
    [optOut |-> FALSE, range |-> range, upload |-> upload, pendingTags |-> pending]

(* The first user wants all, the other only releases; either may choose to *)
(* hear of revisions of the newest version only, or of nothing.            *)
MCFirstPrefs == {<<Pref("all", TRUE, TRUE), Pref("no", TRUE, FALSE)>>}
MCPrefs == {Pref("newest", FALSE, TRUE),
            [Pref("all", TRUE, TRUE) EXCEPT !.optOut = TRUE]}

Symmetry == Permutations(Tag) \cup Permutations(Request)
=============================================================================
