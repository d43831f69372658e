------------------------------ MODULE LeaseTimes ------------------------------
(* Who writes under the lease, what is written, and the times it rests on.   *)
EXTENDS Integers

CONSTANTS
  Processes, Nobody,
  Secrets, Plain,   \* the records that are sealed, and the others
  Half,             \* half the lease's time: it is renewed when no more is left
  Timeout,          \* the longest a request takes
  MaxSkew,          \* by how much clocks differ
  Clocks,           \* by how much each process's clock is ahead
  Attempts          \* how often a secret is sealed for one write

TTL == 2 * Half

(* The code's own static assertion.                                          *)
ASSUME RequestAssumption == Half \in Nat /\ Timeout \in Nat \ {0} /\ 3 * Timeout <= Half
(* And what it leaves: clocks may differ by as much as one request takes.    *)
ASSUME ClockAssumption ==
  MaxSkew \in Nat /\ MaxSkew <= Timeout /\ Clocks \subseteq [Processes -> 0..MaxSkew]
ASSUME AttemptsAssumption == Attempts \in Nat \ {0}
ASSUME NameAssumption == Nobody \notin Processes \cup Secrets \cup Plain
=============================================================================
