---------------------------- MODULE JobContract ----------------------------
(***************************************************************************)
(* What the bridge promises its VTC about jobs, with everything about how  *)
(* it keeps the promise left out: a job is taken once, gets exactly one    *)
(* outcome, and what the VTC hears is that outcome however often the       *)
(* answer is sent, lost or asked for again.  JobLedger implements it.      *)
(***************************************************************************)
CONSTANTS Jobs, Outcomes, NoOutcome

VARIABLES
    phase,      \* what the bridge knows of each job
    outcome,    \* the one outcome it recorded
    heard       \* the outcome the VTC holds

vars == <<phase, outcome, heard>>

Init == /\ phase = [j \in Jobs |-> "unknown"]
        /\ outcome = [j \in Jobs |-> NoOutcome]
        /\ heard = [j \in Jobs |-> NoOutcome]

Accept(j) == /\ phase[j] = "unknown"
             /\ phase' = [phase EXCEPT ![j] = "accepted"]
             /\ UNCHANGED <<outcome, heard>>

Finish(j, r) == /\ phase[j] = "accepted"
                /\ phase' = [phase EXCEPT ![j] = "done"]
                /\ outcome' = [outcome EXCEPT ![j] = r]
                /\ UNCHANGED heard

\* The VTC hears the recorded outcome and no other.
Hear(j) == /\ phase[j] = "done"
           /\ heard' = [heard EXCEPT ![j] = outcome[j]]
           /\ UNCHANGED <<phase, outcome>>

\* The VTC may lose what it heard while the bridge still holds the job.
Mislay(j) == /\ phase[j] # "unknown"
             /\ heard' = [heard EXCEPT ![j] = NoOutcome]
             /\ UNCHANGED <<phase, outcome>>

\* A job is forgotten only once the VTC holds its outcome.
Forget(j) == /\ phase[j] = "done"
             /\ heard[j] = outcome[j]
             /\ phase' = [phase EXCEPT ![j] = "unknown"]
             /\ outcome' = [outcome EXCEPT ![j] = NoOutcome]
             /\ UNCHANGED heard

Next == \E j \in Jobs : \/ Accept(j)
                        \/ \E r \in Outcomes : Finish(j, r)
                        \/ Hear(j)
                        \/ Mislay(j)
                        \/ Forget(j)

Spec == Init /\ [][Next]_vars
=============================================================================
