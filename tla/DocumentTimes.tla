---------------------------- MODULE DocumentTimes ----------------------------
(* What the VTC's documents are about, and the times their checks rest on.   *)
EXTENDS Integers

CONSTANTS
  Jobs, VtcKeys, Nobody,   \* Nobody: no job, no key
  MaxAge,           \* the oldest document taken, what clocks may differ included
  Skew,             \* by how much the VTC's clock may be ahead
  Retention,        \* how long a finished job is kept
  Lifetime,         \* how long a resolved DID document is believed
  Pause,            \* the least time between two fresh resolutions
  Slow              \* the longest it takes to handle a document

(* Hours against thirty days in the code's defaults.                         *)
ASSUME TimesAssumption ==
  /\ {MaxAge, Skew, Retention, Lifetime, Pause, Slow} \subseteq Nat
  /\ MaxAge + Skew + Slow <= Retention
ASSUME NobodyAssumption == Nobody \notin Jobs \cup VtcKeys
=============================================================================
