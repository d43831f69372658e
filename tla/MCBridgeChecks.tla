---------------------------- MODULE MCBridgeChecks ----------------------------
(* Small instances of BridgeChecks: two commits, the second on top of the  *)
(* first, two pull requests, a protected branch and another, and the moves *)
(* that may meet in one behaviour.                                         *)
EXTENDS BridgeChecks, TLC

CONSTANTS c1, c2, h1, h2, p1, p2, main, side

Below == (h1 :> {c1}) @@ (h2 :> {c1, c2})

\* The first commit is on the other branch already.
First == (main :> {}) @@ (side :> {c1})

Only(moves) == [m \in Moves |-> IF m \in DOMAIN moves THEN moves[m] ELSE 0]

\* Two pull requests, perhaps of one head; one behind an API that lags; one that
\* moves to another base, is asked for again or queued while trust changes; one
\* orphaned meanwhile; one closed and reopened; checks cut off, requests that
\* fail, deliveries lost.
CheckPlans ==
    {Only([open |-> 2, trust |-> 1]),
     Only([open |-> 1, push |-> 1, lag |-> 1]),
     Only([open |-> 1, retarget |-> 1, trust |-> 1]),
     Only([open |-> 1, rerun |-> 1, trust |-> 1]),
     Only([open |-> 1, group |-> 1, trust |-> 1]),
     Only([open |-> 1, rerun |-> 1, orphan |-> 1]),
     Only([open |-> 1, close |-> 2]),
     Only([open |-> 1, push |-> 1, crash |-> 1]),
     Only([open |-> 1, push |-> 1, failure |-> 1]),
     Only([open |-> 1, rerun |-> 1, failure |-> 1]),
     Only([open |-> 1, loss |-> 1, failure |-> 1])}
=============================================================================
