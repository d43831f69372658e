---------------------------- MODULE MCJobLedger ----------------------------
(* Small instances of JobLedger: which kinds of job, in which namespaces.  *)
EXTENDS JobLedger, TLC

CONSTANTS w1, w2, b1, d1, n1

MCKind == (w1 :> "work") @@ (w2 :> "work") @@ (b1 :> "bind") @@ (d1 :> "deviceLink")

KindOf == [j \in Jobs |-> MCKind[j]]
OneNamespace == [j \in Jobs |-> n1]
=============================================================================
