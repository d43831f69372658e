--------------------------- MODULE MCNamespaceLife ---------------------------
(* Small instances of NamespaceLife: two ids for one owner, one repository,*)
(* and the moves that may meet in one behaviour.                           *)
EXTENDS NamespaceLife

CONSTANTS a, b, r1

Only(moves) == [m \in Moves |-> IF m \in DOMAIN moves THEN moves[m] ELSE 0]

\* A bind and a re-binding while the VTC loses the namespace and finds it again;
\* while a job runs; an id bound twice and then under another; a crash anywhere;
\* one namespace orphaned, brought back and swept while jobs run.
LifePlans ==
    {Only([bind |-> 2, loss |-> 1, regain |-> 1, refusal |-> 1]),
     Only([bind |-> 2, loss |-> 1, work |-> 1]),
     Only([bind |-> 3, refusal |-> 1]),
     Only([bind |-> 2, work |-> 1, crash |-> 1]),
     Only([bind |-> 1, work |-> 2, loss |-> 1, regain |-> 1, retention |-> 1, report |-> 1]),
     Only([bind |-> 2, loss |-> 1, regain |-> 1, report |-> 1])}

LinkPlans == {Only([bind |-> 3])}
SweepPlans == {Only([bind |-> 1, work |-> 1, loss |-> 1, retention |-> 1])}
=============================================================================
