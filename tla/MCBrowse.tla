------------------------------ MODULE MCBrowse ------------------------------
(* Instances of Browse: nine pages of two packages, two columns.           *)
EXTENDS Browse

MCPackage == 1 .. 17
MCItem ==
    [p \in 1 .. 17 |-> [tags       |-> IF p < 6 THEN {"bsd"} ELSE {},
                        deprecated |-> p = 2,
                        age        |-> 3 * p,
                        votes      |-> IF p > 3 THEN 2 ELSE 1]]
MCHits == [w |-> {1, 2, 3, 4}]
MCRanking == {} :> [p \in 1 .. 17 |-> p] @@ {"w"} :> [p \in 1 .. 17 |-> 0 - p]
MCSortKey == [name  |-> [p \in 1 .. 17 |-> p], votes |-> [p \in 1 .. 17 |-> MCItem[p].votes]]

(* A word with a stray parenthesis; "0d", "xd" and "1h".                   *)
MCTyped == {<<Word("w"), Close>>}
MCAgeText == {[amount |-> 0, unit |-> "d"],
              [amount |-> -1, unit |-> "d"], [amount |-> 1, unit |-> "h"]}

(* The first visit, and loading again after a search.                      *)
MCHistories ==
    {<<Entry(NoState, << >>)>>,
     <<Entry(NoState, << >>), Entry(Model(<<Word("w")>>), <<Word("w")>>)>>}
=============================================================================
