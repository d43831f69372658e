------------------------------ MODULE MCMirror ------------------------------
(* Small instances of Mirror: one or two hosts, one or two records, and the *)
(* mishaps that may meet in one behaviour.                                 *)
EXTENDS Mirror

CONSTANTS h1, h2, k1, k2

Only(hosts, keys, changes, mishaps) ==
    [hosts |-> hosts, keys |-> keys, changes |-> changes,
     mishaps |-> [m \in Mishaps |-> IF m \in mishaps THEN 1 ELSE 0]]

\* Two hosts on one record; and one host whose VTA is restored, whose records
\* are deleted, one of them twice, or that dies with changes pending.
MixedPlans ==
    {Only({h1, h2}, {k1}, 3, {"stop", "loss", "failure", "lostAnswer"}),
     Only({h1}, {k1, k2}, 3, {"stop", "loss", "restore"}),
     Only({h1}, {k1, k2}, 3, {"stop", "deletion", "loss", "reaping", "failure"}),
     [Only({h1}, {k1}, 4, Mishaps \ {"crash", "restore"}) EXCEPT !.mishaps["deletion"] = 2],
     Only({h1}, {k1, k2}, 3, {"crash", "deletion", "reaping"})}
=============================================================================
