--------------------------- MODULE StateLeaseProofs ---------------------------
(* One writer at a time, and no secret that does not open: for any number    *)
(* of processes and records, any timing the two assumptions on it allow.     *)
(*                                                                           *)
(* The argument is about time.  A write is sent with more than half a lease  *)
(* left by the holder's clock, and arrives within one timeout; the lease is  *)
(* free for another only when it has run out by that one's clock, and the    *)
(* record says `until' at most one timeout too early.  Two timeouts and the  *)
(* difference of the clocks fit into half a lease, so that a lease cannot be *)
(* taken from under a write on its way: whoever takes the lease takes it     *)
(* after the last write under it.                                            *)
(*                                                                           *)
(* A secret whose write landed at another version than foreseen is sealed    *)
(* again.  Others' writes are fewer than the attempts, and each attempt uses *)
(* one up; and the lease outlasts the attempts, for each follows a write     *)
(* that had more than half of it left within two timeouts.                   *)
EXTENDS StateLease, TLAPS

(* A look is at most one timeout old, and so is a request.                   *)
Timely(p) ==
  /\ proc[p].at = "looking" => proc[p].began <= now /\ now <= proc[p].began + Timeout
  /\ req[p] # NoRequest => req[p].sent <= now /\ now <= req[p].sent + Timeout

Writes == {"put", "delete"}
Having == {"held", "renewing", "writing", "ending"}

(* No version anybody knows is ahead of the counter.                         *)
Versioned(p) ==
  /\ proc[p].version <= vta.counter /\ proc[p].next <= vta.counter + 1
  /\ req[p].kind \notin Writes => req[p].expected <= vta.counter
  /\ req[p].took <= vta.counter

(* What a process waits for, and what it asks.                               *)
Shaped(p) ==
  /\ proc[p].at = "taking" => req[p].kind = "take"
  /\ proc[p].at = "renewing" => req[p].kind = "renew"
  /\ proc[p].at = "writing" => req[p].kind \in Writes
  /\ proc[p].at = "releasing" => req[p].kind = "release"
  /\ proc[p].at \in {"idle", "looking", "held", "ending"} => req[p] = NoRequest
  /\ req[p].kind = "none" => req[p] = NoRequest
  /\ req[p].kind \in Writes => req[p].key \in Keys
  /\ req[p].kind \in {"renew", "release"} => req[p].expected # 0
  /\ req[p].kind \in {"take", "renew"} => req[p].sent + TTL <= req[p].until + Timeout
  /\ proc[p].at \in Having => proc[p].version # 0

(* A lease that another is about to take had run out when it asked.          *)
Takes(p) ==
  /\ req[p].kind = "take" /\ req[p].took = 0 /\ vta.lease.who # p
  /\ vta.lease.version # 0 /\ req[p].expected = vta.lease.version
TakesWhatIsOver(p) == Takes(p) => Expiry(vta.lease) < req[p].sent + plan.clock[p]

(* Only its holder renews or releases a lease.                               *)
Keeps(p) ==
  /\ req[p].kind \in {"renew", "release"} /\ req[p].took = 0
  /\ req[p].expected = vta.lease.version
KeepsItsOwn(p) == Keeps(p) => vta.lease.who = p

(* A holder whose lease is the current one knows when it runs out, to within *)
(* a timeout, and which version comes next.                                  *)
Holds(p) == proc[p].at \in Having /\ proc[p].version = vta.lease.version
HolderKnows(p) ==
  Holds(p) =>
    /\ vta.lease.who = p
    /\ proc[p].deadline <= Expiry(vta.lease) + Timeout
    /\ proc[p].at = "held" /\ count["foreign"] = 0 => proc[p].next = vta.counter + 1

(* One whose lease is not has less than half of it left.                     *)
LoserStops(p) ==
  proc[p].at = "held" /\ proc[p].version # vta.lease.version
    => proc[p].deadline < now + MaxSkew + Timeout

(* A lease just got, or got again, is the current one.                       *)
Got(p) == proc[p].at \in {"taking", "renewing"} /\ req[p].took # 0
GotIsCurrent(p) ==
  Got(p) =>
    /\ vta.lease.version = req[p].took /\ vta.lease.who = p
    /\ req[p].sent + TTL <= Expiry(vta.lease) + Timeout
    /\ count["foreign"] = 0 => vta.counter = req[p].took

(* A write on its way is under the current lease, which lasts.               *)
UnderTheLease(p) ==
  req[p].kind \in Writes =>
    /\ vta.lease.version # 0 /\ vta.lease.who = p
    /\ req[p].sent + Half < Expiry(vta.lease) + Timeout
    /\ proc[p].at = "writing" => proc[p].version = vta.lease.version

(* And it takes the version that was foreseen.                               *)
Foreseen(p) ==
  req[p].kind \in Writes /\ count["foreign"] = 0 =>
    /\ req[p].took # 0 => vta.counter = req[p].took
    /\ req[p].took = 0 /\ req[p].kind = "put" /\ req[p].key \in Secrets
         => req[p].seal = vta.counter + 1

Good(p) ==
  /\ Timely(p) /\ Versioned(p) /\ Shaped(p) /\ TakesWhatIsOver(p) /\ KeepsItsOwn(p)
  /\ HolderKnows(p) /\ LoserStops(p) /\ GotIsCurrent(p) /\ UnderTheLease(p)
  /\ Foreseen(p)

IInv ==
  /\ TypeOK
  /\ vta.lease.version <= vta.counter
  /\ \A p \in Processes : Good(p)
  /\ SecretsOpen

-----------------------------------------------------------------------------
(* Types.                                                                   *)

Constants == TTL \in Nat /\ TTL = 2 * Half /\ Half \in Nat /\ Timeout \in Nat
             /\ Timeout > 0 /\ MaxSkew \in Nat /\ MaxSkew + 2 * Timeout <= Half

(* What the assumptions come to.                                            *)
LEMMA Bounds == Constants
BY RequestAssumption, ClockAssumption, SMT DEF Constants, TTL

(* A process's clock is ahead by no more than the clocks may differ.        *)
LEMMA Clock ==
  ASSUME TypeOK, NEW p \in Processes
  PROVE  plan.clock[p] \in Nat /\ plan.clock[p] <= MaxSkew
BY ClockAssumption DEF TypeOK

(* A move that happens changes its own count.                               *)
LEMMA Counting ==
  ASSUME TypeOK, NEW m \in Moves, Happens(m)
  PROVE  /\ plan' = plan /\ count' \in [Moves -> Nat]
         /\ m # "foreign" => count'["foreign"] = count["foreign"]
         /\ m = "foreign" => count'["foreign"] # 0
BY DEF TypeOK, Happens, Moves

(* Whatever a process does, every variable keeps its type.                  *)
LEMMA StepType ==
  ASSUME TypeOK, NEW p \in Processes, Step(p)
  PROVE  TypeOK'
<1> USE Bounds DEF Constants
<1> DEFINE S == plan.clock[p]
<1>0. S \in Nat
  BY Clock
<1>1. /\ proc[p] \in Procs /\ req[p] \in Requests
      /\ NoRequest \in Requests /\ Idle \in Procs
  BY DEF TypeOK, NoRequest, Idle, Requests, Procs, Kinds, Places
<1>2. \A k \in Keys : vta.rec[k].version \in Nat
  BY DEF TypeOK, Vtas
<1>3. vta.lease.version \in Nat /\ now \in Nat /\ vta.counter \in Nat
  BY DEF TypeOK, Vtas
<1>4. ASSUME Begin(p)
      PROVE  TypeOK'
  <2>1. plan' = plan /\ count' \in [Moves -> Nat]
    BY <1>4, Counting DEF Begin, Moves
  <2> QED
    BY <1>4, <1>0, <1>1, <1>2, <1>3, <2>1 DEF Begin, TypeOK, Procs, Places
<1>5. ASSUME Take(p)
      PROVE  TypeOK'
  <2>1. proc[p].began + S + TTL \in Int
    BY <1>0, <1>1 DEF Procs
  <2>2. proc' \in [Processes -> Procs]
    BY <1>5, <1>1 DEF Take, TypeOK, Procs, Places
  <2>3. req' \in [Processes -> Requests]
    BY <1>5, <1>3, <2>1 DEF Take, Send, Ask, TypeOK, Requests, Kinds, NoRequest, Wall
  <2> QED
    BY <1>5, <2>2, <2>3 DEF Take, TypeOK
<1>6. ASSUME LookAgain(p)
      PROVE  TypeOK'
  BY <1>6, <1>0, <1>1, <1>2, <1>3 DEF LookAgain, TypeOK, Procs
<1>7. ASSUME GiveUp(p)
      PROVE  TypeOK'
  BY <1>7, <1>0, <1>1, <1>2, <1>3 DEF GiveUp, TypeOK
<1>8. ASSUME Granted(p)
      PROVE  TypeOK'
  <2>1. /\ req[p].sent + TTL \in Nat /\ req[p].took \in Nat
        /\ req[p].took + 1 \in Nat
    BY <1>1 DEF Requests
  <2>2. proc' \in [Processes -> Procs]
    BY <1>8, <1>1, <2>1 DEF Granted, TypeOK, Procs, Places
  <2>3. req' \in [Processes -> Requests]
    BY <1>8, <1>1 DEF Granted, TypeOK
  <2> QED
    BY <1>8, <2>2, <2>3 DEF Granted, TypeOK
<1>9. ASSUME Renew(p)
      PROVE  TypeOK'
  <2>1. now + S + TTL \in Int /\ proc[p].version \in Nat
    BY <1>0, <1>1, <1>3 DEF Procs
  <2>2. proc' \in [Processes -> Procs]
    BY <1>9, <1>1 DEF Renew, TypeOK, Procs, Places
  <2>3. req' \in [Processes -> Requests]
    BY <1>9, <1>3, <2>1 DEF Renew, Send, Ask, TypeOK, Requests, Kinds, NoRequest, Wall
  <2> QED
    BY <1>9, <2>2, <2>3 DEF Renew, TypeOK
<1>10. ASSUME Renewed(p)
      PROVE  TypeOK'
  <2>1. /\ req[p].sent + TTL \in Nat /\ req[p].took \in Nat
        /\ Larger(proc[p].next, req[p].took + 1) \in Nat
    BY <1>1 DEF Requests, Procs, Larger
  <2>2. proc' \in [Processes -> Procs]
    BY <1>10, <1>1, <2>1 DEF Renewed, TypeOK, Procs, Places
  <2>3. req' \in [Processes -> Requests]
    BY <1>10, <1>1 DEF Renewed, TypeOK
  <2> QED
    BY <1>10, <2>2, <2>3 DEF Renewed, TypeOK
<1>11. ASSUME RanOut(p)
      PROVE  TypeOK'
  BY <1>11, <1>0, <1>1, <1>2, <1>3 DEF RanOut, TypeOK, Procs, Places
<1>12. ASSUME NEW k \in Keys, Put(p, k)
      PROVE  TypeOK'
  <2>1. plan' = plan /\ count' \in [Moves -> Nat]
    BY <1>12, Counting DEF Put, Moves
  <2>2. Seal(p, k) \in Nat /\ vta.rec[k].version \in Nat
    BY <1>1, <1>2, <1>12 DEF Seal, Procs
  <2>3. proc' \in [Processes -> Procs]
    BY <1>12, <1>1 DEF Put, Writing, TypeOK, Procs, Places
  <2>4. req' \in [Processes -> Requests]
    BY <1>12, <1>3, <2>2 DEF Put, Writing, Send, Ask, TypeOK, Requests, Kinds
  <2> QED
    BY <1>12, <2>1, <2>3, <2>4 DEF Put, Writing, TypeOK
<1>13. ASSUME NEW k \in Keys, Delete(p, k)
      PROVE  TypeOK'
  <2>1. plan' = plan /\ count' \in [Moves -> Nat]
    BY <1>13, Counting DEF Delete, Moves
  <2> QED
    BY <1>13, <1>0, <1>1, <1>2, <1>3, <2>1 DEF Delete, TypeOK, Writing, Send, Ask,
       Procs, Places, Requests, Kinds, NoRequest
<1>14. ASSUME SealAgain(p)
      PROVE  TypeOK'
  BY <1>14, <1>0, <1>1, <1>2, <1>3 DEF SealAgain, TypeOK, Writing, Send, Ask, Seal,
     Procs, Places, Requests, Kinds, NoRequest
<1>15. ASSUME Written(p)
      PROVE  TypeOK'
  <2>1. /\ Larger(proc[p].next, req[p].took + 1) \in Nat
        /\ proc[p].tries + 1 \in Nat /\ req[p].took \in Nat
        /\ req[p].key \in Keys \cup {Nobody}
    BY <1>1 DEF Requests, Procs, Larger
  <2> DEFINE after == Larger(proc[p].next, req[p].took + 1)
             again == Unpredicted(req[p]) /\ proc[p].tries + 1 < Attempts
             Becomes(a, q, l, t) ==
               proc' = [proc EXCEPT ![p].at = a, ![p].next = after, ![p].key = q,
                                    ![p].last = l, ![p].tries = t]
  <2>2. \/ Becomes("held", req[p].key, req[p].took, proc[p].tries + 1)
        \/ Becomes("held", Nobody, 0, 0) \/ Becomes("ending", Nobody, 0, 0)
    <3>1. CASE again
      BY <1>15, <3>1 DEF Written, TypeOK
    <3>2. CASE Unpredicted(req[p]) /\ ~again
      BY <1>15, <3>2 DEF Written, TypeOK
    <3>3. CASE ~Unpredicted(req[p])
      BY <1>15, <3>3 DEF Written, TypeOK
    <3> QED
      BY <3>1, <3>2, <3>3
  <2> HIDE DEF after, again
  <2>4. proc' \in [Processes -> Procs]
    <3>1. proc' = [proc EXCEPT ![p] = proc'[p]]
      BY <2>2 DEF TypeOK
    <3>2. proc'[p] \in Procs
      BY <2>1, <2>2, <1>1 DEF Procs, Places, TypeOK, after
    <3> QED
      BY <3>1, <3>2 DEF TypeOK
  <2>3. req' \in [Processes -> Requests]
    BY <1>15, <1>1 DEF Written, TypeOK
  <2> QED
    BY <1>15, <2>4, <2>3 DEF Written, TypeOK
<1>16. ASSUME Release(p)
      PROVE  TypeOK'
  BY <1>16, <1>0, <1>1, <1>2, <1>3 DEF Release, TypeOK, Send, Ask, Procs, Places,
     Requests, Kinds, NoRequest, Idle
<1>17. ASSUME Released(p)
      PROVE  TypeOK'
  BY <1>17, <1>0, <1>1, <1>2, <1>3 DEF Released, TypeOK, Procs, Places
<1>18. ASSUME Apply(p)
      PROVE  TypeOK'
  <2> DEFINE n == vta.counter + 1
             r == req[p]
  <2>1. n \in Nat /\ r.until \in Int /\ r.seal \in Nat
    BY <1>1, <1>3 DEF Requests
  <2>2. req' \in [Processes -> Requests]
    BY <1>18, <1>1, <2>1 DEF Apply, TypeOK, Requests
  <2>3. vta' \in Vtas
    <3>1. CASE OfLease(r) /\ r.kind = "release"
      <4>1. vta' = [vta EXCEPT !.counter = n, !.lease = NoLease]
        BY <1>18, <3>1 DEF Apply
      <4>2. NoLease \in [version : Nat, who : Processes \cup {Nobody}, until : Int, at : Nat]
        BY DEF NoLease
      <4> QED
        BY <4>1, <4>2, <2>1 DEF TypeOK, Vtas
    <3>2. CASE OfLease(r) /\ r.kind # "release"
      BY <1>18, <3>2, <1>3, <2>1 DEF Apply, TypeOK, Vtas
    <3>3. CASE ~OfLease(r)
      <4> DEFINE new == IF r.kind = "delete" THEN NoRecord
                        ELSE [version |-> n, seal |-> r.seal]
      <4>1. new \in [version : Nat, seal : Nat]
        BY <2>1 DEF NoRecord
      <4>2. vta' = [vta EXCEPT !.counter = n, !.rec[r.key] = new]
        BY <1>18, <3>3 DEF Apply
      <4>3. vta.rec \in [Keys -> [version : Nat, seal : Nat]]
        BY DEF TypeOK, Vtas
      <4> HIDE DEF n, new
      <4>4. [vta.rec EXCEPT ![r.key] = new] \in [Keys -> [version : Nat, seal : Nat]]
        BY <4>1, <4>3
      <4> QED
        BY <4>2, <4>4, <2>1 DEF TypeOK, Vtas
    <3> QED
      BY <3>1, <3>2, <3>3
  <2> QED
    BY <1>18, <2>2, <2>3 DEF Apply, TypeOK
<1>19. ASSUME Refused(p)
      PROVE  TypeOK'
  BY <1>19, <1>0, <1>1, <1>2, <1>3 DEF Refused, TypeOK, Fallen, Procs, Places, Idle
<1>20. ASSUME Fails(p)
      PROVE  TypeOK'
  <2>1. plan' = plan /\ count' \in [Moves -> Nat]
    BY <1>20, Counting DEF Fails, Moves
  <2> QED
    BY <1>20, <1>0, <1>1, <1>2, <1>3, <2>1 DEF Fails, TypeOK, Fallen, Procs,
       Places, Idle
<1>21. ASSUME Crash(p)
      PROVE  TypeOK'
  <2>1. plan' = plan /\ count' \in [Moves -> Nat]
    BY <1>21, Counting DEF Crash, Moves
  <2> QED
    BY <1>21, <1>0, <1>1, <1>2, <1>3, <2>1 DEF Crash, TypeOK, Procs, Places, Idle
<1>22. ASSUME Lost(p)
      PROVE  TypeOK'
  BY <1>22, <1>0, <1>1, <1>2, <1>3 DEF Lost, TypeOK
<1> QED
  BY <1>4, <1>5, <1>6, <1>7, <1>8, <1>9, <1>10, <1>11, <1>12, <1>13, <1>14, <1>15,
     <1>16, <1>17, <1>18, <1>19, <1>20, <1>21, <1>22 DEF Step

(* Every variable keeps its type.                                           *)
LEMMA TypeStep ==
  ASSUME TypeOK, [Next]_vars
  PROVE  TypeOK'
<1> USE Bounds DEF Constants
<1>1. CASE UNCHANGED vars
  BY <1>1 DEF TypeOK, vars
<1>2. CASE Tick
  BY <1>2, SMT DEF TypeOK, Tick
<1>3. CASE Foreign
  <2>1. vta' \in Vtas
    BY <1>3 DEF TypeOK, Foreign, Vtas
  <2>2. plan' = plan /\ count' \in [Moves -> Nat]
    BY <1>3, Counting DEF Foreign, Moves
  <2> QED
    BY <1>3, <2>1, <2>2 DEF TypeOK, Foreign
<1>4. ASSUME NEW p \in Processes, Step(p)
      PROVE  TypeOK'
  BY <1>4, StepType
<1> QED
  BY <1>1, <1>2, <1>3, <1>4 DEF Next

-----------------------------------------------------------------------------
(* A step of a process that does not touch the VTA.                         *)

Local(p) ==
  /\ now' = now /\ vta' = vta /\ plan' = plan
  /\ count'["foreign"] = count["foreign"]
  /\ \A q \in Processes \ {p} : proc'[q] = proc[q] /\ req'[q] = req[q]

(* Such a step disturbs nothing that is said of another process.            *)
LEMMA LocalStep ==
  ASSUME IInv, TypeOK', NEW p \in Processes, Local(p), Good(p)'
  PROVE  IInv'
<1>1. ASSUME NEW q \in Processes
      PROVE  Good(q)'
  <2>1. CASE q = p
    BY <2>1
  <2>2. CASE q # p
    BY <2>2 DEF IInv, Local, Good, Timely, Versioned, Shaped, TakesWhatIsOver,
       Takes, KeepsItsOwn, Keeps, HolderKnows, Holds, LoserStops, GotIsCurrent,
       Got, UnderTheLease, Foreseen, Expiry
  <2> QED
    BY <2>1, <2>2
<1>2. SecretsOpen'
  BY DEF IInv, Local, SecretsOpen, Opens
<1> QED
  BY <1>1, <1>2 DEF IInv, Local

(* The state of a process, and what is known of it.                         *)
LEMMA Known ==
  ASSUME IInv, NEW p \in Processes
  PROVE  /\ TypeOK /\ Good(p) /\ proc[p] \in Procs /\ req[p] \in Requests
         /\ now \in Nat /\ vta.counter \in Nat /\ vta.lease.version \in Nat
         /\ vta.lease.until \in Int /\ vta.lease.at \in Nat
BY DEF IInv, TypeOK, Vtas

(* Each of the steps of a process is such a step, and keeps what is known   *)
(* of that process.                                                         *)
LEMMA BeginGood ==
  ASSUME IInv, NEW p \in Processes, Begin(p)
  PROVE  Local(p) /\ Good(p)'
<1> USE Bounds DEF Constants
<1>1. /\ TypeOK /\ Good(p) /\ proc[p] \in Procs /\ req[p] \in Requests
      /\ now \in Nat /\ vta.counter \in Nat /\ vta.lease.version \in Nat
      /\ vta.lease.until \in Int /\ vta.lease.at \in Nat
  BY Known
<1>2. Local(p)
  BY Counting, <1>1 DEF Local, Begin, TypeOK, Moves
<1>3. Timely(p)' /\ Versioned(p)' /\ Shaped(p)'
  BY <1>1, <1>2 DEF Begin, Local, TypeOK, Procs, Requests, Having, Writes, Good,
     Timely, Versioned, Shaped
<1>4. /\ TakesWhatIsOver(p)' /\ KeepsItsOwn(p)' /\ HolderKnows(p)'
      /\ LoserStops(p)' /\ GotIsCurrent(p)'
  BY <1>1, <1>2 DEF Begin, Local, TypeOK, Procs, Requests, Having, Writes, Good,
     Timely, Versioned, Shaped, TakesWhatIsOver, Takes, KeepsItsOwn, Keeps,
     HolderKnows, Holds, LoserStops, GotIsCurrent, Got, UnderTheLease, Foreseen,
     Expiry
<1>5. UnderTheLease(p)' /\ Foreseen(p)'
  BY <1>1, <1>2 DEF Begin, Local, TypeOK, Procs, Requests, Having, Writes, Good,
     Shaped, HolderKnows, Holds, LoserStops, UnderTheLease, Foreseen, Expiry
<1> QED
  BY <1>2, <1>3, <1>4, <1>5 DEF Good

LEMMA TakeGood ==
  ASSUME IInv, NEW p \in Processes, Take(p)
  PROVE  Local(p) /\ Good(p)'
<1> USE Bounds DEF Constants
<1>1. /\ TypeOK /\ Good(p) /\ proc[p] \in Procs /\ req[p] \in Requests
      /\ now \in Nat /\ vta.counter \in Nat /\ vta.lease.version \in Nat
      /\ vta.lease.until \in Int /\ vta.lease.at \in Nat
  BY Known
<1>2. Local(p)
  BY <1>1 DEF Local, Take, TypeOK, Send
<1> DEFINE r == Ask("take", Nobody, vta.lease.version, Wall(p, proc[p].began) + TTL, 0)
<1>a. /\ req'[p] = r /\ proc'[p] = [proc[p] EXCEPT !.at = "taking"]
      /\ now' = now /\ vta' = vta /\ proc[p].at = "looking"
  BY <1>1 DEF Take, Send, Ask, TypeOK
<1>b. /\ r.kind = "take" /\ r.sent = now /\ r.expected = vta.lease.version
      /\ r.took = 0 /\ r.until = Wall(p, proc[p].began) + TTL
  BY DEF Ask
<1>c. now + TTL <= r.until + Timeout
  BY <1>1, <1>a, <1>b, Clock DEF Good, Timely, Wall, Procs
<1> HIDE DEF r
<1>3. Timely(p)' /\ Versioned(p)' /\ Shaped(p)'
  BY <1>1, <1>a, <1>b, <1>c DEF Procs, Having, Writes, Good, Timely, Versioned,
     Shaped, IInv
<1>4. /\ TakesWhatIsOver(p)' /\ KeepsItsOwn(p)' /\ HolderKnows(p)'
      /\ LoserStops(p)' /\ GotIsCurrent(p)'
  BY Clock, <1>1, <1>2 DEF Take, Local, TypeOK, Procs, Requests, Send, Ask, Wall, Free,
     NoRequest, Having, Writes, Good, Timely, Versioned, Shaped, TakesWhatIsOver,
     Takes, KeepsItsOwn, Keeps, HolderKnows, Holds, LoserStops, GotIsCurrent, Got,
     UnderTheLease, Foreseen, Expiry
<1>5. UnderTheLease(p)' /\ Foreseen(p)'
  BY Clock, <1>1, <1>2 DEF Take, Local, TypeOK, Procs, Requests, Send, Ask, Wall, Free,
     NoRequest, Having, Writes, Good, Shaped, HolderKnows, Holds, LoserStops,
     UnderTheLease, Foreseen, Expiry
<1> QED
  BY <1>2, <1>3, <1>4, <1>5 DEF Good

LEMMA LookAgainGood ==
  ASSUME IInv, NEW p \in Processes, LookAgain(p)
  PROVE  Local(p) /\ Good(p)'
<1> USE Bounds DEF Constants
<1>1. /\ TypeOK /\ Good(p) /\ proc[p] \in Procs /\ req[p] \in Requests
      /\ now \in Nat /\ vta.counter \in Nat /\ vta.lease.version \in Nat
      /\ vta.lease.until \in Int /\ vta.lease.at \in Nat
  BY Known
<1>2. Local(p)
  BY <1>1 DEF Local, LookAgain, TypeOK
<1>3. Timely(p)' /\ Versioned(p)' /\ Shaped(p)'
  BY <1>1, <1>2 DEF LookAgain, Local, TypeOK, Procs, Requests, Having, Writes, Good,
     Timely, Versioned, Shaped
<1>4. /\ TakesWhatIsOver(p)' /\ KeepsItsOwn(p)' /\ HolderKnows(p)'
      /\ LoserStops(p)' /\ GotIsCurrent(p)'
  BY <1>1, <1>2 DEF LookAgain, Local, TypeOK, Procs, Requests, Having, Writes, Good,
     Timely, Versioned, Shaped, TakesWhatIsOver, Takes, KeepsItsOwn, Keeps,
     HolderKnows, Holds, LoserStops, GotIsCurrent, Got, UnderTheLease, Foreseen,
     Expiry
<1>5. UnderTheLease(p)' /\ Foreseen(p)'
  BY <1>1, <1>2 DEF LookAgain, Local, TypeOK, Procs, Requests, Having, Writes, Good,
     Shaped, HolderKnows, Holds, LoserStops, UnderTheLease, Foreseen, Expiry
<1> QED
  BY <1>2, <1>3, <1>4, <1>5 DEF Good

LEMMA GiveUpGood ==
  ASSUME IInv, NEW p \in Processes, GiveUp(p)
  PROVE  Local(p) /\ Good(p)'
<1> USE Bounds DEF Constants
<1>1. /\ TypeOK /\ Good(p) /\ proc[p] \in Procs /\ req[p] \in Requests
      /\ now \in Nat /\ vta.counter \in Nat /\ vta.lease.version \in Nat
      /\ vta.lease.until \in Int /\ vta.lease.at \in Nat
  BY Known
<1>2. Local(p)
  BY <1>1 DEF Local, GiveUp, TypeOK
<1>3. Timely(p)' /\ Versioned(p)' /\ Shaped(p)'
  BY <1>1, <1>2 DEF GiveUp, Local, TypeOK, Procs, Requests, Idle, Having, Writes,
     Good, Timely, Versioned, Shaped
<1>4. /\ TakesWhatIsOver(p)' /\ KeepsItsOwn(p)' /\ HolderKnows(p)'
      /\ LoserStops(p)' /\ GotIsCurrent(p)'
  BY <1>1, <1>2 DEF GiveUp, Local, TypeOK, Procs, Requests, Idle, Having, Writes,
     Good, Timely, Versioned, Shaped, TakesWhatIsOver, Takes, KeepsItsOwn, Keeps,
     HolderKnows, Holds, LoserStops, GotIsCurrent, Got, UnderTheLease, Foreseen,
     Expiry
<1>5. UnderTheLease(p)' /\ Foreseen(p)'
  BY <1>1, <1>2 DEF GiveUp, Local, TypeOK, Procs, Requests, Idle, Having, Writes,
     Good, Shaped, HolderKnows, Holds, LoserStops, UnderTheLease, Foreseen, Expiry
<1> QED
  BY <1>2, <1>3, <1>4, <1>5 DEF Good

LEMMA GrantedGood ==
  ASSUME IInv, NEW p \in Processes, Granted(p)
  PROVE  Local(p) /\ Good(p)'
<1> USE Bounds DEF Constants
<1>1. /\ TypeOK /\ Good(p) /\ proc[p] \in Procs /\ req[p] \in Requests
      /\ now \in Nat /\ vta.counter \in Nat /\ vta.lease.version \in Nat
      /\ vta.lease.until \in Int /\ vta.lease.at \in Nat
  BY Known
<1>2. Local(p)
  BY <1>1 DEF Local, Granted, TypeOK
<1>3. Timely(p)' /\ Versioned(p)' /\ Shaped(p)'
  BY <1>1, <1>2 DEF Granted, Local, TypeOK, Procs, Requests, NoRequest, Having,
     Writes, Good, Timely, Versioned, Shaped
<1>4. /\ TakesWhatIsOver(p)' /\ KeepsItsOwn(p)' /\ HolderKnows(p)'
      /\ LoserStops(p)' /\ GotIsCurrent(p)'
  BY <1>1, <1>2 DEF Granted, Local, TypeOK, Procs, Requests, NoRequest, Having,
     Writes, Good, Timely, Versioned, Shaped, TakesWhatIsOver, Takes, KeepsItsOwn,
     Keeps, HolderKnows, Holds, LoserStops, GotIsCurrent, Got, UnderTheLease,
     Foreseen, Expiry
<1>5. UnderTheLease(p)' /\ Foreseen(p)'
  BY <1>1, <1>2 DEF Granted, Local, TypeOK, Procs, Requests, NoRequest, Having,
     Writes, Good, Shaped, HolderKnows, Holds, LoserStops, UnderTheLease, Foreseen,
     Expiry
<1> QED
  BY <1>2, <1>3, <1>4, <1>5 DEF Good

LEMMA RenewGood ==
  ASSUME IInv, NEW p \in Processes, Renew(p)
  PROVE  Local(p) /\ Good(p)'
<1> USE Bounds DEF Constants
<1>1. /\ TypeOK /\ Good(p) /\ proc[p] \in Procs /\ req[p] \in Requests
      /\ now \in Nat /\ vta.counter \in Nat /\ vta.lease.version \in Nat
      /\ vta.lease.until \in Int /\ vta.lease.at \in Nat
  BY Known
<1>2. Local(p)
  BY <1>1 DEF Local, Renew, TypeOK, Send
<1>3. Timely(p)' /\ Versioned(p)' /\ Shaped(p)'
  BY Clock, <1>1, <1>2 DEF Renew, Local, TypeOK, Procs, Requests, Send, Ask, Left,
     LongEnough, Wall, NoRequest, Having, Writes, Good, Timely, Versioned, Shaped
<1>4. /\ TakesWhatIsOver(p)' /\ KeepsItsOwn(p)' /\ HolderKnows(p)'
      /\ LoserStops(p)' /\ GotIsCurrent(p)'
  BY Clock, <1>1, <1>2 DEF Renew, Local, TypeOK, Procs, Requests, Send, Ask, Left,
     LongEnough, Wall, NoRequest, Having, Writes, Good, Timely, Versioned, Shaped,
     TakesWhatIsOver, Takes, KeepsItsOwn, Keeps, HolderKnows, Holds, LoserStops,
     GotIsCurrent, Got, UnderTheLease, Foreseen, Expiry
<1>5. UnderTheLease(p)' /\ Foreseen(p)'
  BY Clock, <1>1, <1>2 DEF Renew, Local, TypeOK, Procs, Requests, Send, Ask, Left,
     LongEnough, Wall, NoRequest, Having, Writes, Good, Shaped, HolderKnows, Holds,
     LoserStops, UnderTheLease, Foreseen, Expiry
<1> QED
  BY <1>2, <1>3, <1>4, <1>5 DEF Good

LEMMA RenewedGood ==
  ASSUME IInv, NEW p \in Processes, Renewed(p)
  PROVE  Local(p) /\ Good(p)'
<1> USE Bounds DEF Constants
<1>1. /\ TypeOK /\ Good(p) /\ proc[p] \in Procs /\ req[p] \in Requests
      /\ now \in Nat /\ vta.counter \in Nat /\ vta.lease.version \in Nat
      /\ vta.lease.until \in Int /\ vta.lease.at \in Nat
  BY Known
<1>2. Local(p)
  BY <1>1 DEF Local, Renewed, TypeOK
<1>3. Timely(p)' /\ Versioned(p)' /\ Shaped(p)'
  BY <1>1, <1>2 DEF Renewed, Local, TypeOK, Procs, Requests, Larger, NoRequest,
     Having, Writes, Good, Timely, Versioned, Shaped
<1>a. /\ proc'[p].at = "held" /\ proc'[p].version = req[p].took
      /\ proc'[p].deadline = req[p].sent + TTL
      /\ proc'[p].next = Larger(proc[p].next, req[p].took + 1)
      /\ req'[p] = NoRequest /\ Got(p)
  BY <1>1 DEF Renewed, TypeOK, Procs, Got
<1>b. count["foreign"] = 0 => proc'[p].next = vta.counter + 1
  BY <1>1, <1>a DEF Good, GotIsCurrent, Versioned, Larger, Procs, Requests
<1>4. /\ TakesWhatIsOver(p)' /\ KeepsItsOwn(p)' /\ HolderKnows(p)'
      /\ LoserStops(p)' /\ GotIsCurrent(p)'
  BY <1>1, <1>2, <1>a, <1>b DEF Local, Good, GotIsCurrent, TakesWhatIsOver, Takes,
     KeepsItsOwn, Keeps, HolderKnows, Holds, LoserStops, Got, NoRequest, Expiry
<1>5. UnderTheLease(p)' /\ Foreseen(p)'
  BY <1>1, <1>2 DEF Renewed, Local, TypeOK, Procs, Requests, Larger, NoRequest,
     Having, Writes, Good, Shaped, HolderKnows, Holds, LoserStops, UnderTheLease,
     Foreseen, Expiry
<1> QED
  BY <1>2, <1>3, <1>4, <1>5 DEF Good

LEMMA RanOutGood ==
  ASSUME IInv, NEW p \in Processes, RanOut(p)
  PROVE  Local(p) /\ Good(p)'
<1> USE Bounds DEF Constants
<1>1. /\ TypeOK /\ Good(p) /\ proc[p] \in Procs /\ req[p] \in Requests
      /\ now \in Nat /\ vta.counter \in Nat /\ vta.lease.version \in Nat
      /\ vta.lease.until \in Int /\ vta.lease.at \in Nat
  BY Known
<1>2. Local(p)
  BY <1>1 DEF Local, RanOut, TypeOK
<1>3. Timely(p)' /\ Versioned(p)' /\ Shaped(p)'
  BY <1>1, <1>2 DEF RanOut, Local, TypeOK, Procs, Requests, Having, Writes, Good,
     Timely, Versioned, Shaped
<1>4. /\ TakesWhatIsOver(p)' /\ KeepsItsOwn(p)' /\ HolderKnows(p)'
      /\ LoserStops(p)' /\ GotIsCurrent(p)'
  BY <1>1, <1>2 DEF RanOut, Local, TypeOK, Procs, Requests, Having, Writes, Good,
     Timely, Versioned, Shaped, TakesWhatIsOver, Takes, KeepsItsOwn, Keeps,
     HolderKnows, Holds, LoserStops, GotIsCurrent, Got, UnderTheLease, Foreseen,
     Expiry
<1>5. UnderTheLease(p)' /\ Foreseen(p)'
  BY <1>1, <1>2 DEF RanOut, Local, TypeOK, Procs, Requests, Having, Writes, Good,
     Shaped, HolderKnows, Holds, LoserStops, UnderTheLease, Foreseen, Expiry
<1> QED
  BY <1>2, <1>3, <1>4, <1>5 DEF Good

LEMMA PutGood ==
  ASSUME IInv, NEW p \in Processes, NEW k \in Keys, Put(p, k)
  PROVE  Local(p) /\ Good(p)'
<1> USE Bounds DEF Constants
<1>1. /\ TypeOK /\ Good(p) /\ proc[p] \in Procs /\ req[p] \in Requests
      /\ now \in Nat /\ vta.counter \in Nat /\ vta.lease.version \in Nat
      /\ vta.lease.until \in Int /\ vta.lease.at \in Nat
  BY Known
<1>2. Local(p)
  BY Counting, <1>1 DEF Local, Put, TypeOK, Moves, Send, Ask, Writing
<1>3. Timely(p)' /\ Versioned(p)' /\ Shaped(p)'
  BY <1>1, <1>2 DEF Put, Local, TypeOK, Procs, Requests, Writing, Send, Ask, LongEnough,
     Left, Seal, NoRequest, Having, Writes, Good, Timely, Versioned, Shaped
<1>4. /\ TakesWhatIsOver(p)' /\ KeepsItsOwn(p)' /\ HolderKnows(p)'
      /\ LoserStops(p)' /\ GotIsCurrent(p)'
  BY <1>1, <1>2 DEF Put, Local, TypeOK, Procs, Requests, Writing, Send, Ask, LongEnough,
     Left, Seal, NoRequest, Having, Writes, Good, Timely, Versioned, Shaped,
     TakesWhatIsOver, Takes, KeepsItsOwn, Keeps, HolderKnows, Holds, LoserStops,
     GotIsCurrent, Got, UnderTheLease, Foreseen, Expiry
<1>5. UnderTheLease(p)' /\ Foreseen(p)'
  BY <1>1, <1>2 DEF Put, Local, TypeOK, Procs, Requests, Writing, Send, Ask, LongEnough,
     Left, Seal, NoRequest, Having, Writes, Good, Shaped, HolderKnows, Holds,
     LoserStops, UnderTheLease, Foreseen, Expiry
<1> QED
  BY <1>2, <1>3, <1>4, <1>5 DEF Good

LEMMA DeleteGood ==
  ASSUME IInv, NEW p \in Processes, NEW k \in Keys, Delete(p, k)
  PROVE  Local(p) /\ Good(p)'
<1> USE Bounds DEF Constants
<1>1. /\ TypeOK /\ Good(p) /\ proc[p] \in Procs /\ req[p] \in Requests
      /\ now \in Nat /\ vta.counter \in Nat /\ vta.lease.version \in Nat
      /\ vta.lease.until \in Int /\ vta.lease.at \in Nat
  BY Known
<1>2. Local(p)
  BY Counting, <1>1 DEF Local, Delete, TypeOK, Moves, Send, Ask, Writing
<1>3. Timely(p)' /\ Versioned(p)' /\ Shaped(p)'
  BY <1>1, <1>2 DEF Delete, Local, TypeOK, Procs, Requests, Writing, Send, Ask,
     LongEnough, Left, NoRequest, Having, Writes, Good, Timely, Versioned, Shaped
<1>4. /\ TakesWhatIsOver(p)' /\ KeepsItsOwn(p)' /\ HolderKnows(p)'
      /\ LoserStops(p)' /\ GotIsCurrent(p)'
  BY <1>1, <1>2 DEF Delete, Local, TypeOK, Procs, Requests, Writing, Send, Ask,
     LongEnough, Left, NoRequest, Having, Writes, Good, Timely, Versioned, Shaped,
     TakesWhatIsOver, Takes, KeepsItsOwn, Keeps, HolderKnows, Holds, LoserStops,
     GotIsCurrent, Got, UnderTheLease, Foreseen, Expiry
<1>5. UnderTheLease(p)' /\ Foreseen(p)'
  BY <1>1, <1>2 DEF Delete, Local, TypeOK, Procs, Requests, Writing, Send, Ask,
     LongEnough, Left, NoRequest, Having, Writes, Good, Shaped, HolderKnows, Holds,
     LoserStops, UnderTheLease, Foreseen, Expiry
<1> QED
  BY <1>2, <1>3, <1>4, <1>5 DEF Good

LEMMA SealAgainGood ==
  ASSUME IInv, NEW p \in Processes, SealAgain(p)
  PROVE  Local(p) /\ Good(p)'
<1> USE Bounds DEF Constants
<1>1. /\ TypeOK /\ Good(p) /\ proc[p] \in Procs /\ req[p] \in Requests
      /\ now \in Nat /\ vta.counter \in Nat /\ vta.lease.version \in Nat
      /\ vta.lease.until \in Int /\ vta.lease.at \in Nat
  BY Known
<1>2. Local(p)
  BY <1>1 DEF Local, SealAgain, TypeOK, Send, Ask, Writing
<1>3. Timely(p)' /\ Versioned(p)' /\ Shaped(p)'
  BY <1>1, <1>2 DEF SealAgain, Local, TypeOK, Procs, Requests, Writing, Send, Ask,
     LongEnough, Left, Seal, NoRequest, Having, Writes, Good, Timely, Versioned,
     Shaped
<1>4. /\ TakesWhatIsOver(p)' /\ KeepsItsOwn(p)' /\ HolderKnows(p)'
      /\ LoserStops(p)' /\ GotIsCurrent(p)'
  BY <1>1, <1>2 DEF SealAgain, Local, TypeOK, Procs, Requests, Writing, Send, Ask,
     LongEnough, Left, Seal, NoRequest, Having, Writes, Good, Timely, Versioned,
     Shaped, TakesWhatIsOver, Takes, KeepsItsOwn, Keeps, HolderKnows, Holds,
     LoserStops, GotIsCurrent, Got, UnderTheLease, Foreseen, Expiry
<1>5. UnderTheLease(p)' /\ Foreseen(p)'
  BY <1>1, <1>2 DEF SealAgain, Local, TypeOK, Procs, Requests, Writing, Send, Ask,
     LongEnough, Left, Seal, NoRequest, Having, Writes, Good, Shaped, HolderKnows,
     Holds, LoserStops, UnderTheLease, Foreseen, Expiry
<1> QED
  BY <1>2, <1>3, <1>4, <1>5 DEF Good

LEMMA WrittenGood ==
  ASSUME IInv, NEW p \in Processes, Written(p)
  PROVE  Local(p) /\ Good(p)'
<1> USE Bounds DEF Constants
<1>1. /\ TypeOK /\ Good(p) /\ proc[p] \in Procs /\ req[p] \in Requests
      /\ now \in Nat /\ vta.counter \in Nat /\ vta.lease.version \in Nat
      /\ vta.lease.until \in Int /\ vta.lease.at \in Nat
  BY Known
<1>2. Local(p)
  BY <1>1 DEF Local, Written, TypeOK
<1>a. /\ proc'[p].at \in {"held", "ending"} /\ proc'[p].version = proc[p].version
      /\ proc'[p].deadline = proc[p].deadline
      /\ proc'[p].next = Larger(proc[p].next, req[p].took + 1)
      /\ req'[p] = NoRequest
      /\ proc[p].at = "writing" /\ req[p].took # 0
  BY <1>1 DEF Written, TypeOK, Procs
<1>b. count["foreign"] = 0 => proc'[p].next = vta.counter + 1
  BY <1>1, <1>a DEF Good, Foreseen, Shaped, Versioned, Larger, Procs, Requests
<1>c. Holds(p) /\ vta.lease.version = proc[p].version
  BY <1>1, <1>a DEF Good, Holds, Having, UnderTheLease, Shaped
<1>3. Timely(p)' /\ Versioned(p)' /\ Shaped(p)'
  BY <1>1, <1>2, <1>a DEF Local, Good, Timely, Versioned, Shaped, Having, Writes,
     NoRequest, Larger, Procs, Requests
<1>4. /\ TakesWhatIsOver(p)' /\ KeepsItsOwn(p)' /\ HolderKnows(p)'
      /\ LoserStops(p)' /\ GotIsCurrent(p)'
  BY <1>1, <1>2, <1>a, <1>b, <1>c DEF Local, Good, GotIsCurrent, TakesWhatIsOver, Takes,
     KeepsItsOwn, Keeps, HolderKnows, Holds, LoserStops, Got, NoRequest, Expiry
<1>5. UnderTheLease(p)' /\ Foreseen(p)'
  BY <1>1, <1>2 DEF Written, Local, TypeOK, Procs, Requests, Larger, NoRequest,
     Having, Writes, Good, Shaped, HolderKnows, Holds, LoserStops, UnderTheLease,
     Foreseen, Expiry
<1> QED
  BY <1>2, <1>3, <1>4, <1>5 DEF Good

LEMMA ReleaseGood ==
  ASSUME IInv, NEW p \in Processes, Release(p)
  PROVE  Local(p) /\ Good(p)'
<1> USE Bounds DEF Constants
<1>1. /\ TypeOK /\ Good(p) /\ proc[p] \in Procs /\ req[p] \in Requests
      /\ now \in Nat /\ vta.counter \in Nat /\ vta.lease.version \in Nat
      /\ vta.lease.until \in Int /\ vta.lease.at \in Nat
  BY Known
<1>2. Local(p)
  BY <1>1 DEF Local, Release, TypeOK, Send
<1>3. Timely(p)' /\ Versioned(p)' /\ Shaped(p)'
  BY <1>1, <1>2 DEF Release, Local, TypeOK, Procs, Requests, Send, Ask, Idle, NoRequest,
     Having, Writes, Good, Timely, Versioned, Shaped
<1>4. /\ TakesWhatIsOver(p)' /\ KeepsItsOwn(p)' /\ HolderKnows(p)'
      /\ LoserStops(p)' /\ GotIsCurrent(p)'
  BY <1>1, <1>2 DEF Release, Local, TypeOK, Procs, Requests, Send, Ask, Idle, NoRequest,
     Having, Writes, Good, Timely, Versioned, Shaped, TakesWhatIsOver, Takes,
     KeepsItsOwn, Keeps, HolderKnows, Holds, LoserStops, GotIsCurrent, Got,
     UnderTheLease, Foreseen, Expiry
<1>5. UnderTheLease(p)' /\ Foreseen(p)'
  BY <1>1, <1>2 DEF Release, Local, TypeOK, Procs, Requests, Send, Ask, Idle, NoRequest,
     Having, Writes, Good, Shaped, HolderKnows, Holds, LoserStops, UnderTheLease,
     Foreseen, Expiry
<1> QED
  BY <1>2, <1>3, <1>4, <1>5 DEF Good

LEMMA ReleasedGood ==
  ASSUME IInv, NEW p \in Processes, Released(p)
  PROVE  Local(p) /\ Good(p)'
<1> USE Bounds DEF Constants
<1>1. /\ TypeOK /\ Good(p) /\ proc[p] \in Procs /\ req[p] \in Requests
      /\ now \in Nat /\ vta.counter \in Nat /\ vta.lease.version \in Nat
      /\ vta.lease.until \in Int /\ vta.lease.at \in Nat
  BY Known
<1>2. Local(p)
  BY <1>1 DEF Local, Released, TypeOK
<1>3. Timely(p)' /\ Versioned(p)' /\ Shaped(p)'
  BY <1>1, <1>2 DEF Released, Local, TypeOK, Procs, Requests, NoRequest, Having,
     Writes, Good, Timely, Versioned, Shaped
<1>4. /\ TakesWhatIsOver(p)' /\ KeepsItsOwn(p)' /\ HolderKnows(p)'
      /\ LoserStops(p)' /\ GotIsCurrent(p)'
  BY <1>1, <1>2 DEF Released, Local, TypeOK, Procs, Requests, NoRequest, Having,
     Writes, Good, Timely, Versioned, Shaped, TakesWhatIsOver, Takes, KeepsItsOwn,
     Keeps, HolderKnows, Holds, LoserStops, GotIsCurrent, Got, UnderTheLease,
     Foreseen, Expiry
<1>5. UnderTheLease(p)' /\ Foreseen(p)'
  BY <1>1, <1>2 DEF Released, Local, TypeOK, Procs, Requests, NoRequest, Having,
     Writes, Good, Shaped, HolderKnows, Holds, LoserStops, UnderTheLease, Foreseen,
     Expiry
<1> QED
  BY <1>2, <1>3, <1>4, <1>5 DEF Good

LEMMA RefusedGood ==
  ASSUME IInv, NEW p \in Processes, Refused(p)
  PROVE  Local(p) /\ Good(p)'
<1> USE Bounds DEF Constants
<1>1. /\ TypeOK /\ Good(p) /\ proc[p] \in Procs /\ req[p] \in Requests
      /\ now \in Nat /\ vta.counter \in Nat /\ vta.lease.version \in Nat
      /\ vta.lease.until \in Int /\ vta.lease.at \in Nat
  BY Known
<1>2. Local(p)
  BY <1>1 DEF Local, Refused, TypeOK, Fallen
<1>3. Timely(p)' /\ Versioned(p)' /\ Shaped(p)'
  BY <1>1, <1>2 DEF Refused, Local, TypeOK, Procs, Requests, Fallen, Idle,
     NoRequest, Having, Writes, Good, Timely, Versioned, Shaped
<1>4. /\ TakesWhatIsOver(p)' /\ KeepsItsOwn(p)' /\ HolderKnows(p)'
      /\ LoserStops(p)' /\ GotIsCurrent(p)'
  BY <1>1, <1>2 DEF Refused, Local, TypeOK, Procs, Requests, Fallen, Idle,
     NoRequest, Having, Writes, Good, Timely, Versioned, Shaped, TakesWhatIsOver,
     Takes, KeepsItsOwn, Keeps, HolderKnows, Holds, LoserStops, GotIsCurrent, Got,
     UnderTheLease, Foreseen, Expiry
<1>5. UnderTheLease(p)' /\ Foreseen(p)'
  BY <1>1, <1>2 DEF Refused, Local, TypeOK, Procs, Requests, Fallen, Idle,
     NoRequest, Having, Writes, Good, Shaped, HolderKnows, Holds, LoserStops,
     UnderTheLease, Foreseen, Expiry
<1> QED
  BY <1>2, <1>3, <1>4, <1>5 DEF Good

LEMMA FailsGood ==
  ASSUME IInv, NEW p \in Processes, Fails(p)
  PROVE  Local(p) /\ Good(p)'
<1> USE Bounds DEF Constants
<1>1. /\ TypeOK /\ Good(p) /\ proc[p] \in Procs /\ req[p] \in Requests
      /\ now \in Nat /\ vta.counter \in Nat /\ vta.lease.version \in Nat
      /\ vta.lease.until \in Int /\ vta.lease.at \in Nat
  BY Known
<1>2. Local(p)
  BY Counting, <1>1 DEF Local, Fails, TypeOK, Moves, Fallen
<1>3. Timely(p)' /\ Versioned(p)' /\ Shaped(p)'
  BY <1>1, <1>2 DEF Fails, Local, TypeOK, Procs, Requests, Fallen, Idle, NoRequest,
     Having, Writes, Good, Timely, Versioned, Shaped
<1>4. /\ TakesWhatIsOver(p)' /\ KeepsItsOwn(p)' /\ HolderKnows(p)'
      /\ LoserStops(p)' /\ GotIsCurrent(p)'
  BY <1>1, <1>2 DEF Fails, Local, TypeOK, Procs, Requests, Fallen, Idle, NoRequest,
     Having, Writes, Good, Timely, Versioned, Shaped, TakesWhatIsOver, Takes,
     KeepsItsOwn, Keeps, HolderKnows, Holds, LoserStops, GotIsCurrent, Got,
     UnderTheLease, Foreseen, Expiry
<1>5. UnderTheLease(p)' /\ Foreseen(p)'
  BY <1>1, <1>2 DEF Fails, Local, TypeOK, Procs, Requests, Fallen, Idle, NoRequest,
     Having, Writes, Good, Shaped, HolderKnows, Holds, LoserStops, UnderTheLease,
     Foreseen, Expiry
<1> QED
  BY <1>2, <1>3, <1>4, <1>5 DEF Good

LEMMA CrashGood ==
  ASSUME IInv, NEW p \in Processes, Crash(p)
  PROVE  Local(p) /\ Good(p)'
<1> USE Bounds DEF Constants
<1>1. /\ TypeOK /\ Good(p) /\ proc[p] \in Procs /\ req[p] \in Requests
      /\ now \in Nat /\ vta.counter \in Nat /\ vta.lease.version \in Nat
      /\ vta.lease.until \in Int /\ vta.lease.at \in Nat
  BY Known
<1>2. Local(p)
  BY Counting, <1>1 DEF Local, Crash, TypeOK, Moves
<1>3. Timely(p)' /\ Versioned(p)' /\ Shaped(p)'
  BY <1>1, <1>2 DEF Crash, Local, TypeOK, Procs, Requests, Idle, Having, Writes,
     Good, Timely, Versioned, Shaped
<1>4. /\ TakesWhatIsOver(p)' /\ KeepsItsOwn(p)' /\ HolderKnows(p)'
      /\ LoserStops(p)' /\ GotIsCurrent(p)'
  BY <1>1, <1>2 DEF Crash, Local, TypeOK, Procs, Requests, Idle, Having, Writes,
     Good, Timely, Versioned, Shaped, TakesWhatIsOver, Takes, KeepsItsOwn, Keeps,
     HolderKnows, Holds, LoserStops, GotIsCurrent, Got, UnderTheLease, Foreseen,
     Expiry
<1>5. UnderTheLease(p)' /\ Foreseen(p)'
  BY <1>1, <1>2 DEF Crash, Local, TypeOK, Procs, Requests, Idle, Having, Writes,
     Good, Shaped, HolderKnows, Holds, LoserStops, UnderTheLease, Foreseen, Expiry
<1> QED
  BY <1>2, <1>3, <1>4, <1>5 DEF Good

LEMMA LostGood ==
  ASSUME IInv, NEW p \in Processes, Lost(p)
  PROVE  Local(p) /\ Good(p)'
<1> USE Bounds DEF Constants
<1>1. /\ TypeOK /\ Good(p) /\ proc[p] \in Procs /\ req[p] \in Requests
      /\ now \in Nat /\ vta.counter \in Nat /\ vta.lease.version \in Nat
      /\ vta.lease.until \in Int /\ vta.lease.at \in Nat
  BY Known
<1>2. Local(p)
  BY <1>1 DEF Local, Lost, TypeOK
<1>3. Timely(p)' /\ Versioned(p)' /\ Shaped(p)'
  BY <1>1, <1>2 DEF Lost, Local, TypeOK, Procs, Requests, NoRequest, Having, Writes,
     Good, Timely, Versioned, Shaped
<1>4. /\ TakesWhatIsOver(p)' /\ KeepsItsOwn(p)' /\ HolderKnows(p)'
      /\ LoserStops(p)' /\ GotIsCurrent(p)'
  BY <1>1, <1>2 DEF Lost, Local, TypeOK, Procs, Requests, NoRequest, Having, Writes,
     Good, Timely, Versioned, Shaped, TakesWhatIsOver, Takes, KeepsItsOwn, Keeps,
     HolderKnows, Holds, LoserStops, GotIsCurrent, Got, UnderTheLease, Foreseen,
     Expiry
<1>5. UnderTheLease(p)' /\ Foreseen(p)'
  BY <1>1, <1>2 DEF Lost, Local, TypeOK, Procs, Requests, NoRequest, Having, Writes,
     Good, Shaped, HolderKnows, Holds, LoserStops, UnderTheLease, Foreseen, Expiry
<1> QED
  BY <1>2, <1>3, <1>4, <1>5 DEF Good

-----------------------------------------------------------------------------
(* Time, the one who ignores the lease, and the VTA.                        *)

LEMMA TickStep ==
  ASSUME IInv, TypeOK', Tick
  PROVE  IInv'
<1> USE Bounds DEF Constants
<1>1. ASSUME NEW p \in Processes
      PROVE  Good(p)'
  <2>1. /\ Good(p) /\ proc[p] \in Procs /\ req[p] \in Requests /\ now \in Nat
    BY Known
  <2>2. now' = now + 1 /\ UNCHANGED <<vta, proc, req, plan, count>>
    BY DEF Tick
  <2>3. Timely(p)'
    BY <2>1, <2>2 DEF Tick, Good, Timely, Procs, Requests
  <2>4. LoserStops(p)'
    BY <2>1, <2>2 DEF Good, LoserStops, Procs
  <2> QED
    BY <2>1, <2>2, <2>3, <2>4 DEF Good, Versioned, Shaped, TakesWhatIsOver, Takes,
       KeepsItsOwn, Keeps, HolderKnows, Holds, GotIsCurrent, Got, UnderTheLease, Foreseen,
       Expiry
<1> QED
  BY <1>1 DEF IInv, Tick, SecretsOpen, Opens

LEMMA ForeignStep ==
  ASSUME IInv, TypeOK', Foreign
  PROVE  IInv'
<1> USE Bounds DEF Constants
<1>1. /\ vta' = [vta EXCEPT !.counter = @ + 1] /\ UNCHANGED <<now, proc, req, plan>>
      /\ count'["foreign"] # 0
  BY Counting DEF Foreign, Moves, IInv
<1>2. /\ vta'.counter = vta.counter + 1 /\ vta'.lease = vta.lease /\ vta.counter \in Nat
  BY <1>1 DEF IInv, TypeOK, Vtas
<1>3. ASSUME NEW p \in Processes
      PROVE  Good(p)'
  <2>1. Good(p) /\ proc[p] \in Procs /\ req[p] \in Requests
    BY Known
  <2>2. Versioned(p)'
    BY <1>1, <1>2, <2>1 DEF Good, Versioned, Procs, Requests
  <2> QED
    BY <1>1, <1>2, <2>1, <2>2 DEF Good, Timely, Shaped, TakesWhatIsOver, Takes,
       KeepsItsOwn, Keeps, HolderKnows, Holds, LoserStops, GotIsCurrent, Got,
       UnderTheLease, Foreseen, Expiry
<1> QED
  BY <1>1, <1>2, <1>3 DEF IInv, SecretsOpen, TypeOK, Vtas

(* Who does not have the lease neither holds it, nor just got it, nor has a *)
(* write on its way.                                                        *)
Apart(q) == ~Holds(q) /\ ~Got(q) /\ req[q].kind \notin Writes

LEMMA Others ==
  ASSUME IInv, NEW q \in Processes, vta.lease.who # q
  PROVE  Apart(q)
BY DEF IInv, Good, Apart, HolderKnows, GotIsCurrent, UnderTheLease

(* A lease that runs out for another is not in use: who had it has given up *)
(* writing.                                                                 *)
LEMMA RunOut ==
  ASSUME IInv, NEW p \in Processes, NEW q \in Processes, q # p,
         req[p].kind = "take", Waiting(p), Accepts(req[p])
  PROVE  /\ ~Got(q) /\ req[q].kind \notin Writes
         /\ Holds(q) => proc[q].deadline < now + plan.clock[p] + Timeout
<1> USE Bounds DEF Constants
<1> DEFINE ahead == plan.clock[p]
<1>0. ahead \in Nat /\ ahead <= MaxSkew /\ MaxSkew \in Nat
  BY Clock, Known
<1> HIDE DEF ahead
<1>1. CASE vta.lease.who # q
  BY <1>1, Others DEF Apart
<1>2. CASE vta.lease.who = q /\ vta.lease.version = 0
  <2>1. Good(q)
    BY Known
  <2> QED
    BY <1>2, <2>1 DEF Good, Got, GotIsCurrent, UnderTheLease, Holds, Shaped, Having
<1>3. CASE vta.lease.who = q /\ vta.lease.version # 0
  <2>1. Good(p) /\ Good(q) /\ proc[q] \in Procs /\ req[p] \in Requests
        /\ req[q] \in Requests /\ now \in Nat
        /\ vta.lease.until \in Int /\ vta.lease.at \in Nat
    BY Known
  <2>2. Expiry(vta.lease) \in Int
    BY <2>1 DEF Expiry
  <2>3. Expiry(vta.lease) < now + ahead
    <3>1. Takes(p)
      BY <1>3 DEF Takes, Waiting, Accepts, OfLease
    <3>2. req[p].sent <= now /\ req[p].sent \in Nat
      BY <2>1 DEF Good, Timely, Waiting, Requests
    <3>3. Expiry(vta.lease) < req[p].sent + ahead
      BY <2>1, <3>1 DEF Good, TakesWhatIsOver, ahead
    <3> QED
      BY <1>0, <2>1, <2>2, <3>2, <3>3
  <2>4. Holds(q) => proc[q].deadline < now + ahead + Timeout
    BY <1>0, <2>1, <2>2, <2>3 DEF Good, HolderKnows, Procs
  <2>5. ASSUME Got(q) \/ req[q].kind \in Writes
        PROVE  FALSE
    <3>1. req[q] # NoRequest
      BY <2>5 DEF Got, NoRequest, Writes
    <3>2. now <= req[q].sent + Timeout
      BY <2>1, <3>1 DEF Good, Timely
    <3>3. req[q].sent + Half < Expiry(vta.lease) + Timeout
      BY <2>1, <2>2, <2>5 DEF Good, GotIsCurrent, UnderTheLease, Requests
    <3> QED
      BY <1>0, <2>1, <2>2, <2>3, <3>2, <3>3 DEF Requests
  <2> QED
    BY <2>4, <2>5 DEF ahead
<1> QED
  BY <1>1, <1>2, <1>3

(* What a lease just written says of its end.                               *)
LEMMA NewLease ==
  ASSUME IInv, NEW p \in Processes, Apply(p), req[p].kind \in {"take", "renew"}
  PROVE  /\ vta'.lease = [version |-> vta.counter + 1, who |-> p,
                          until |-> req[p].until, at |-> now]
         /\ vta'.counter = vta.counter + 1 /\ vta'.rec = vta.rec
         /\ req[p].sent + TTL <= Expiry(vta'.lease) + Timeout
<1> USE Bounds DEF Constants
<1>1. Good(p) /\ req[p] \in Requests /\ now \in Nat
  BY Known
<1>2. /\ vta'.lease = [version |-> vta.counter + 1, who |-> p,
                       until |-> req[p].until, at |-> now]
      /\ vta'.counter = vta.counter + 1 /\ vta'.rec = vta.rec
  BY DEF Apply, OfLease, IInv, TypeOK, Vtas
<1>3. req[p].sent <= now /\ req[p].sent + TTL <= req[p].until + Timeout
  BY <1>1 DEF Good, Timely, Shaped, Apply, Waiting
<1>4. vta'.lease.until = req[p].until /\ vta'.lease.at = now
  BY <1>2
<1> QED
  BY <1>1, <1>2, <1>3, <1>4 DEF Expiry, Requests

(* The lease is written: by who takes it, or by its holder.                 *)
LEMMA ApplyLease ==
  ASSUME IInv, TypeOK', NEW p \in Processes, Apply(p), req[p].kind \in {"take", "renew"}
  PROVE  IInv'
<1> USE Bounds DEF Constants
<1> DEFINE n == vta.counter + 1
<1>1. /\ vta'.lease.version = n /\ vta'.lease.who = p /\ vta'.counter = n
      /\ vta'.rec = vta.rec /\ req[p].sent + TTL <= Expiry(vta'.lease) + Timeout
  <2>1. vta'.lease = [version |-> n, who |-> p, until |-> req[p].until, at |-> now]
    BY NewLease
  <2> QED
    BY NewLease, <2>1
<1>2. /\ Waiting(p) /\ Accepts(req[p]) /\ UNCHANGED <<now, proc, plan, count>>
      /\ req' = [req EXCEPT ![p].took = n]
  BY DEF Apply
<1>3. vta.counter \in Nat /\ vta.lease.version \in Nat /\ vta.lease.version <= vta.counter
  BY DEF IInv, TypeOK, Vtas
<1>4. ASSUME NEW q \in Processes, q # p
      PROVE  Good(q)'
  <2>1. /\ Good(q) /\ proc[q] \in Procs /\ req[q] \in Requests /\ now \in Nat
        /\ req'[q] = req[q] /\ proc'[q] = proc[q]
    BY <1>2, <1>4, Known
  <2>2. /\ ~Got(q) /\ req[q].kind \notin Writes
        /\ Holds(q) => proc[q].deadline < now + MaxSkew + Timeout
    <3>1. CASE req[p].kind = "take"
      <4>1. plan.clock[p] \in Nat /\ plan.clock[p] <= MaxSkew
        BY Clock, Known
      <4> QED
        BY <1>2, <1>4, <2>1, <3>1, <4>1, RunOut DEF Procs
    <3>2. CASE req[p].kind = "renew"
      <4>1. vta.lease.who = p
        BY <1>2, <3>2, Known DEF Good, KeepsItsOwn, Keeps, Waiting, Accepts, OfLease
      <4> QED
        BY <1>4, <4>1, Others DEF Apart
    <3> QED
      BY <3>1, <3>2
  <2>3. Versioned(q)' /\ Timely(q)' /\ Shaped(q)'
    BY <1>1, <1>2, <1>3, <2>1 DEF Good, Versioned, Timely, Shaped, Procs, Requests
  <2>4. ~Takes(q)' /\ ~Keeps(q)' /\ ~Holds(q)' /\ ~Got(q)' /\ req'[q].kind \notin Writes
    BY <1>1, <1>3, <2>1, <2>2 DEF Good, Versioned, Takes, Keeps, Holds, Got,
       Procs, Requests,
       Writes
  <2>5. LoserStops(q)'
    BY <1>2, <2>1, <2>2 DEF Good, LoserStops, Holds, Having
  <2> QED
    BY <2>3, <2>4, <2>5 DEF Good, TakesWhatIsOver, KeepsItsOwn, HolderKnows,
       GotIsCurrent,
       UnderTheLease, Foreseen
<1>5. Good(p)'
  <2>1. /\ Good(p) /\ proc[p] \in Procs /\ req[p] \in Requests /\ proc'[p] = proc[p]
        /\ req'[p] = [req[p] EXCEPT !.took = n]
    BY <1>2, Known DEF IInv, TypeOK
  <2>2. /\ req'[p].took = n /\ req'[p].kind = req[p].kind /\ req'[p].sent = req[p].sent
        /\ req'[p].expected = req[p].expected /\ req'[p].until = req[p].until
        /\ req'[p].key = req[p].key /\ n # 0 /\ req'[p] # NoRequest
    BY <1>3, <2>1 DEF Requests, NoRequest
  <2>3. proc[p].at \in {"taking", "renewing", "dead"}
    BY <1>2, <2>1 DEF Good, Shaped, Waiting, Procs, Places, Writes
  <2>4. Timely(p)' /\ Versioned(p)' /\ Shaped(p)'
    BY <1>1, <1>2, <1>3, <2>1, <2>2, <2>3 DEF Good, Timely, Versioned, Shaped, Waiting,
       Procs, Requests, Writes, Having
  <2>5. ~Holds(p)' /\ LoserStops(p)'
    BY <1>1, <1>2, <1>3, <2>1, <2>3 DEF Good, Versioned, Holds, LoserStops, Procs
  <2> QED
    BY <1>1, <2>2, <2>4, <2>5 DEF Good, TakesWhatIsOver, Takes, KeepsItsOwn, Keeps,
       HolderKnows, GotIsCurrent, UnderTheLease, Foreseen, Writes
<1> QED
  BY <1>1, <1>2, <1>3, <1>4, <1>5 DEF IInv, SecretsOpen, Opens

(* Who keeps another's hands off.                                           *)
LEMMA OthersStay ==
  ASSUME IInv, NEW p \in Processes, NEW q \in Processes, q # p, Apply(p),
         vta.lease.who = p, Good(q), vta'.counter = vta.counter + 1,
         vta'.lease = vta.lease \/ vta'.lease.version = 0
  PROVE  Good(q)'
<1> USE Bounds DEF Constants
<1>1. Apart(q)
  BY Others
<1>2. /\ proc[q] \in Procs /\ req[q] \in Requests /\ now \in Nat /\ vta.counter \in Nat
      /\ req'[q] = req[q] /\ proc'[q] = proc[q] /\ UNCHANGED <<now, count, plan>>
  BY Known DEF Apply
<1>3. Timely(q)' /\ Versioned(q)' /\ Shaped(q)'
  BY <1>2 DEF Good, Timely, Versioned, Shaped, Procs, Requests
<1>4. ~Holds(q)' /\ ~Got(q)' /\ req'[q].kind \notin Writes
  BY <1>1, <1>2 DEF Apart, Good, Holds, Got, Shaped
<1>5. TakesWhatIsOver(q)' /\ KeepsItsOwn(q)'
  BY <1>2 DEF Good, Shaped, TakesWhatIsOver, Takes, KeepsItsOwn, Keeps, Expiry
<1>6. LoserStops(q)'
  BY <1>1, <1>2 DEF Good, Apart, LoserStops, Holds, Having
<1> QED
  BY <1>3, <1>4, <1>5, <1>6 DEF Good, HolderKnows, GotIsCurrent, UnderTheLease, Foreseen

(* The lease is given up.                                                   *)
LEMMA ApplyRelease ==
  ASSUME IInv, TypeOK', NEW p \in Processes, Apply(p), req[p].kind = "release"
  PROVE  IInv'
<1> USE Bounds DEF Constants
<1> DEFINE n == vta.counter + 1
<1>1. /\ vta'.lease = NoLease /\ vta'.counter = n /\ vta'.rec = vta.rec
  BY DEF Apply, OfLease, IInv, TypeOK, Vtas
<1>2. /\ Waiting(p) /\ Accepts(req[p]) /\ UNCHANGED <<now, proc, plan, count>>
      /\ req' = [req EXCEPT ![p].took = n]
  BY DEF Apply
<1>3. vta.counter \in Nat /\ vta'.lease.version = 0
  BY <1>1 DEF IInv, TypeOK, Vtas, NoLease
<1>4. vta.lease.who = p
  BY <1>2, Known DEF Good, KeepsItsOwn, Keeps, Waiting, Accepts, OfLease
<1>5. ASSUME NEW q \in Processes, q # p
      PROVE  Good(q)'
  BY <1>1, <1>3, <1>4, <1>5, OthersStay, Known
<1>6. Good(p)'
  <2>1. /\ Good(p) /\ proc[p] \in Procs /\ req[p] \in Requests /\ proc'[p] = proc[p]
        /\ req'[p] = [req[p] EXCEPT !.took = n]
    BY <1>2, Known DEF IInv, TypeOK
  <2>2. /\ req'[p].took = n /\ req'[p].kind = "release" /\ req'[p].sent = req[p].sent
        /\ req'[p].expected = req[p].expected /\ n # 0
    BY <1>3, <2>1 DEF Requests
  <2>3. proc[p].at \in {"releasing", "dead"}
    BY <1>2, <2>1 DEF Good, Shaped, Waiting, Procs, Places, Writes
  <2>4. Timely(p)' /\ Versioned(p)' /\ Shaped(p)'
    BY <1>1, <1>2, <1>3, <2>1, <2>2, <2>3 DEF Good, Timely, Versioned, Shaped, Waiting,
       Procs, Requests, Writes, Having
  <2> QED
    BY <1>2, <2>2, <2>3, <2>4 DEF Good, TakesWhatIsOver, Takes, KeepsItsOwn, Keeps,
       HolderKnows, Holds, Having, LoserStops, GotIsCurrent, Got, UnderTheLease, Foreseen,
       Writes
<1> QED
  BY <1>1, <1>2, <1>3, <1>5, <1>6 DEF IInv, SecretsOpen, Opens

(* A record is written, or deleted.                                         *)
LEMMA ApplyWrite ==
  ASSUME IInv, TypeOK', NEW p \in Processes, Apply(p), req[p].kind \in Writes
  PROVE  IInv'
<1> USE Bounds DEF Constants
<1> DEFINE n == vta.counter + 1
           r == req[p]
           new == IF r.kind = "delete" THEN NoRecord ELSE [version |-> n, seal |-> r.seal]
<1>1. /\ vta'.lease = vta.lease /\ vta'.counter = n
      /\ vta'.rec = [vta.rec EXCEPT ![r.key] = new]
  BY DEF Apply, OfLease, IInv, TypeOK, Vtas, Writes
<1>2. /\ Waiting(p) /\ UNCHANGED <<now, proc, plan, count>>
      /\ req' = [req EXCEPT ![p].took = n]
  BY DEF Apply
<1>3. /\ vta.counter \in Nat /\ Good(p) /\ proc[p] \in Procs /\ req[p] \in Requests
      /\ vta.lease.version \in Nat
  BY Known
<1>4. vta.lease.who = p
  BY <1>3 DEF Good, UnderTheLease
<1>5. ASSUME NEW q \in Processes, q # p
      PROVE  Good(q)'
  BY <1>1, <1>4, <1>5, OthersStay, Known
<1>6. Good(p)'
  <2>1. proc'[p] = proc[p] /\ req'[p] = [req[p] EXCEPT !.took = n]
    BY <1>2, <1>3 DEF IInv, TypeOK
  <2>2. /\ req'[p].took = n /\ req'[p].kind = req[p].kind /\ req'[p].sent = req[p].sent
        /\ req'[p].key = req[p].key /\ n # 0
    BY <1>3, <2>1 DEF Requests
  <2>3. proc[p].at \in {"writing", "dead"}
    BY <1>2, <1>3 DEF Good, Shaped, Waiting, Procs, Places, Writes, NoRequest
  <2>4. Timely(p)' /\ Versioned(p)' /\ Shaped(p)'
    BY <1>1, <1>2, <1>3, <2>1, <2>2, <2>3 DEF Good, Timely, Versioned, Shaped, Waiting,
       Procs, Requests, Writes, Having
  <2>5. HolderKnows(p)' /\ UnderTheLease(p)'
    BY <1>1, <1>3, <2>1, <2>2, <2>3 DEF Good, HolderKnows, Holds, UnderTheLease, Expiry
  <2> QED
    BY <1>1, <1>2, <2>1, <2>2, <2>3, <2>4, <2>5 DEF Good, TakesWhatIsOver, Takes,
       KeepsItsOwn, Keeps,
       LoserStops, GotIsCurrent, Got, Foreseen, Writes
<1>7. SecretsOpen'
  <2> SUFFICES ASSUME count["foreign"] = 0, NEW k \in Secrets
               PROVE  Opens(k)'
    BY <1>2 DEF SecretsOpen
  <2>1. vta.rec \in [Keys -> [version : Nat, seal : Nat]] /\ k \in Keys
    BY DEF IInv, TypeOK, Vtas, Keys
  <2>2. CASE r.key # k
    BY <1>1, <2>1, <2>2 DEF IInv, SecretsOpen, Opens
  <2>3. CASE r.key = k
    <3>1. vta'.rec[k] = new
      BY <1>1, <2>1, <2>3
    <3>2. r.kind = "put" => r.seal = n
      BY <1>2, <1>3, <2>3 DEF Good, Foreseen, Waiting, Writes
    <3> QED
      BY <3>1, <3>2 DEF Opens, NoRecord, Writes
  <2> QED
    BY <2>2, <2>3
<1> QED
  BY <1>1, <1>3, <1>5, <1>6, <1>7 DEF IInv

-----------------------------------------------------------------------------
(* The theorems.                                                            *)

LEMMA Initially == Init => IInv
<1> SUFFICES ASSUME Init PROVE IInv
  OBVIOUS
<1> USE Bounds DEF Constants
<1>1. TypeOK
  BY DEF Init, TypeOK, Vtas, NoLease, NoRecord, Procs, Places, Idle, Requests,
     Kinds, NoRequest
<1>2. ASSUME NEW p \in Processes
      PROVE  Good(p)
  BY <1>2 DEF Init, Idle, NoRequest, NoLease, Having, Writes, Good, Timely,
     Versioned, Shaped, TakesWhatIsOver, Takes, KeepsItsOwn, Keeps, HolderKnows,
     Holds, LoserStops, GotIsCurrent, Got, UnderTheLease, Foreseen
<1> QED
  BY <1>1, <1>2 DEF Init, NoLease, NoRecord, IInv, SecretsOpen, Opens, Keys

LEMMA Inductive ==
  ASSUME IInv, [Next]_vars
  PROVE  IInv'
<1>1. TypeOK'
  BY TypeStep DEF IInv
<1>2. CASE UNCHANGED vars
  BY <1>1, <1>2 DEF vars, IInv, SecretsOpen, Opens, Expiry, Good, Timely, Versioned,
     Shaped, TakesWhatIsOver, Takes, KeepsItsOwn, Keeps, HolderKnows, Holds,
     LoserStops, GotIsCurrent, Got, UnderTheLease, Foreseen
<1>3. CASE Tick
  BY <1>1, <1>3, TickStep
<1>4. CASE Foreign
  BY <1>1, <1>4, ForeignStep
<1>5. ASSUME NEW p \in Processes, Apply(p)
      PROVE  IInv'
  <2>1. req[p].kind \in {"take", "renew", "release"} \cup Writes
    BY <1>5, Known DEF Good, Shaped, Apply, Waiting, Requests, Kinds, Writes
  <2> QED
    BY <1>1, <1>5, <2>1, ApplyLease, ApplyRelease, ApplyWrite
<1>6. ASSUME NEW p \in Processes, Step(p), ~Apply(p)
      PROVE  IInv'
  <2>1. Local(p) /\ Good(p)'
    BY <1>6, BeginGood, TakeGood, LookAgainGood, GiveUpGood, GrantedGood, RenewGood,
       RenewedGood, RanOutGood, PutGood, DeleteGood, SealAgainGood, WrittenGood,
       ReleaseGood, ReleasedGood, RefusedGood, FailsGood, CrashGood, LostGood DEF Step
  <2> QED
    BY <1>1, <2>1, LocalStep
<1> QED
  BY <1>2, <1>3, <1>4, <1>5, <1>6 DEF Next

THEOREM Always == Spec => []IInv
BY Initially, Inductive, PTL DEF Spec

(* The VTA's copy, the processes and their requests keep their types.       *)
THEOREM Typed == Spec => []TypeOK
<1>1. IInv => TypeOK
  BY DEF IInv
<1> QED
  BY <1>1, Always, PTL

(* Writes on their way together would be under the one lease.                *)
LEMMA SoleWriter == IInv => OneWriter
BY DEF IInv, Good, UnderTheLease, OneWriter, Underway, Writes

(* One writer at a time (Lease::acquire, renew_if_due): no two record       *)
(* writes are ever on their way together.                                   *)
THEOREM Exclusive == Spec => []OneWriter
BY SoleWriter, Always, PTL

(* No secret is ever left that does not open (put_sealed), while everybody  *)
(* who writes holds the lease.                                              *)
THEOREM Openable == Spec => []SecretsOpen
<1>1. IInv => SecretsOpen
  BY DEF IInv
<1> QED
  BY <1>1, Always, PTL

-----------------------------------------------------------------------------
(* Sealing again.  A write lands at another version than foreseen only as    *)
(* often as somebody ignores the lease, so that as many attempts and one     *)
(* more are enough; between two attempts the lease is not lost, since a      *)
(* record is sealed again within two timeouts of a write that had more than  *)
(* half the lease left.                                                      *)

(* How often a record was tried, and how much the next version falls short,  *)
(* come to no more than what others wrote.                                   *)
Budget(p) ==
  /\ Holds(p) /\ proc[p].at \in {"held", "writing", "renewing"} /\ req[p].took = 0
       => proc[p].tries + vta.counter + 1 <= proc[p].next + count["foreign"]
  /\ proc[p].at \in {"writing", "renewing"} /\ req[p].took # 0
       => /\ proc[p].next <= req[p].took
          /\ proc[p].tries + vta.counter <= proc[p].next + count["foreign"]
  /\ proc[p].at = "taking"
       => /\ proc[p].tries = 0
          /\ req[p].took # 0 => vta.counter <= req[p].took + count["foreign"]

(* A record that is to be sealed again is at the version it was written at,  *)
(* and who sealed it has time left.                                          *)
Resealing(p) ==
  /\ proc[p].key # Nobody
       => proc[p].key \in Secrets /\ proc[p].at \in {"held", "renewing", "writing"}
  /\ proc[p].key = Nobody => proc[p].tries = 0
  /\ proc[p].at = "writing" /\ proc[p].key # Nobody
       => req[p].kind = "put" /\ req[p].key = proc[p].key
  /\ proc[p].key # Nobody /\ (Holds(p) \/ Got(p)) /\ proc[p].at \in {"held", "renewing"}
       => vta.rec[proc[p].key].version = proc[p].last
  /\ req[p].kind \in Writes /\ req[p].took = 0
       => req[p].expected = vta.rec[req[p].key].version
  /\ req[p].kind = "put" /\ req[p].took # 0
       => vta.rec[req[p].key] = [version |-> req[p].took, seal |-> req[p].seal]
  /\ proc[p].at = "writing" /\ req[p].kind = "put" /\ req[p].key \in Secrets
       => req[p].seal = proc[p].next
  /\ proc[p].at = "renewing" => req[p].expected = proc[p].version

InTime(p) ==
  /\ proc[p].at = "writing" => proc[p].deadline > req[p].sent + Half
  /\ proc[p].at = "held" /\ proc[p].key # Nobody
       => proc[p].deadline + Timeout > now + Half /\ Holds(p)
  /\ proc[p].at = "renewing" /\ proc[p].key # Nobody
       => proc[p].deadline + Timeout > req[p].sent + Half
  /\ proc[p].at = "renewing" /\ proc[p].key # Nobody /\ (\A q \in Processes : plan.clock[q] <= 1)
       => Holds(p) \/ Got(p)
  /\ count["crash"] = 0 => proc[p].at # "dead"

Kept(p) == Budget(p) /\ Resealing(p) /\ InTime(p)
KeptInv == IInv /\ (\A p \in Processes : Kept(p)) /\ SealedAgain

(* What is known of a process, for the steps below.                          *)
LEMMA KnownKept ==
  ASSUME KeptInv, NEW p \in Processes
  PROVE  /\ IInv /\ TypeOK /\ Good(p) /\ Kept(p) /\ proc[p] \in Procs /\ req[p] \in Requests
         /\ now \in Nat /\ vta.counter \in Nat /\ vta.lease.version \in Nat
         /\ count["foreign"] \in Nat /\ count["crash"] \in Nat /\ count["fail"] \in Nat
         /\ Nobody \notin Secrets /\ Nobody \notin Keys /\ Secrets \subseteq Keys
         /\ plan.clock[p] \in Nat /\ plan.clock[p] <= MaxSkew
BY Known, Clock, NameAssumption DEF KeptInv, TypeOK, Moves, Keys

(* A step of a process by itself, that keeps a secret on its way to be       *)
(* sealed.                                                                   *)
Alone(p) ==
  /\ Local(p) /\ Kept(p)'
  /\ count'["crash"] = 0 => count["crash"] = 0
  /\ count'["fail"] = 0 => count["fail"] = 0
  /\ count'["foreign"] < Attempts /\ count'["fail"] = 0 /\ count'["crash"] = 0
     /\ (\A q \in Processes : plan.clock[q] <= 1)
       => \A k \in Secrets : Rewriting(p, k) => Rewriting(p, k)' \/ Opens(k)

LEMMA AloneStep ==
  ASSUME KeptInv, IInv', NEW p \in Processes, Alone(p)
  PROVE  KeptInv'
<1>1. ASSUME NEW q \in Processes
      PROVE  Kept(q)'
  <2>1. CASE q = p
    BY <2>1 DEF Alone
  <2>2. CASE q # p
    BY <2>2 DEF KeptInv, Alone, Local, Kept, Budget, Resealing, InTime, Holds, Got
  <2> QED
    BY <2>1, <2>2
<1>2. SealedAgain'
  <2> SUFFICES ASSUME count'["foreign"] < Attempts, count'["crash"] = 0, count'["fail"] = 0,
                      \A q \in Processes : plan'.clock[q] <= 1, NEW k \in Secrets, ~Opens(k)'
               PROVE  \E q \in Processes : Rewriting(q, k)'
    BY DEF SealedAgain
  <2>1. PICK q \in Processes : Rewriting(q, k)
    BY DEF KeptInv, SealedAgain, Alone, Local, Opens
  <2> QED
    BY <2>1 DEF Alone, Local, Rewriting, Opens
<1> QED
  BY <1>1, <1>2 DEF KeptInv

LEMMA BeginAlone ==
  ASSUME KeptInv, NEW p \in Processes, Begin(p)
  PROVE  Alone(p)
<1> USE Bounds DEF Constants
<1>1. /\ IInv /\ TypeOK /\ Good(p) /\ Kept(p) /\ proc[p] \in Procs /\ req[p] \in Requests
      /\ now \in Nat /\ vta.counter \in Nat /\ vta.lease.version \in Nat
      /\ count["foreign"] \in Nat /\ count["crash"] \in Nat /\ count["fail"] \in Nat
      /\ Nobody \notin Secrets /\ Nobody \notin Keys /\ Secrets \subseteq Keys
      /\ plan.clock[p] \in Nat /\ plan.clock[p] <= MaxSkew
  BY KnownKept
<1>2. /\ Local(p) /\ (count'["crash"] = 0 => count["crash"] = 0)
      /\ (count'["fail"] = 0 => count["fail"] = 0)
  BY <1>1, BeginGood DEF Begin, Happens, TypeOK, Moves
<1>3. Budget(p)'
  BY <1>1, <1>2 DEF Begin, Local, TypeOK, Procs, Requests, NoRequest, Having, Writes, Good,
     Shaped, Versioned, Kept, Budget, Resealing, Holds, Got, HolderKnows, GotIsCurrent, UnderTheLease
<1>4. Resealing(p)'
  BY <1>1, <1>2 DEF Begin, Local, TypeOK, Procs, Requests, NoRequest, Having, Writes, Good,
     Shaped, Kept, Resealing, InTime, Holds, Got
<1>5. InTime(p)'
  BY <1>1, <1>2 DEF Begin, Local, TypeOK, Procs, Requests, NoRequest, Having, Writes, Good,
     Timely, Shaped, Kept, InTime, Resealing, Holds, Got, GotIsCurrent, UnderTheLease
<1>6. ASSUME NEW k \in Secrets, Rewriting(p, k), count'["foreign"] < Attempts,
             count'["fail"] = 0, count'["crash"] = 0, \A q \in Processes : plan.clock[q] <= 1
      PROVE  Rewriting(p, k)' \/ Opens(k)
  BY <1>1, <1>2, <1>6 DEF Begin, Local, TypeOK, Procs, Requests, NoRequest, Having,
     Writes, Good,
     Shaped, Kept, Resealing, InTime, Rewriting
<1> QED
  BY <1>2, <1>3, <1>4, <1>5, <1>6 DEF Alone, Kept

LEMMA TakeAlone ==
  ASSUME KeptInv, NEW p \in Processes, Take(p)
  PROVE  Alone(p)
<1> USE Bounds DEF Constants
<1>1. /\ IInv /\ TypeOK /\ Good(p) /\ Kept(p) /\ proc[p] \in Procs /\ req[p] \in Requests
      /\ now \in Nat /\ vta.counter \in Nat /\ vta.lease.version \in Nat
      /\ count["foreign"] \in Nat /\ count["crash"] \in Nat /\ count["fail"] \in Nat
      /\ Nobody \notin Secrets /\ Nobody \notin Keys /\ Secrets \subseteq Keys
      /\ plan.clock[p] \in Nat /\ plan.clock[p] <= MaxSkew
  BY KnownKept
<1>2. /\ Local(p) /\ (count'["crash"] = 0 => count["crash"] = 0)
      /\ (count'["fail"] = 0 => count["fail"] = 0)
  BY <1>1, TakeGood DEF Take, Happens, TypeOK, Moves
<1>3. Budget(p)'
  BY <1>1, <1>2 DEF Take, Local, TypeOK, Procs, Requests, NoRequest, Having, Writes, Good,
     Shaped, Versioned, Kept, Budget, Resealing, Holds, Got, HolderKnows, GotIsCurrent, UnderTheLease, Send, Ask
<1>4. Resealing(p)'
  BY <1>1, <1>2 DEF Take, Local, TypeOK, Procs, Requests, NoRequest, Having, Writes, Good,
     Shaped, Kept, Resealing, InTime, Holds, Got, Send, Ask
<1>5. InTime(p)'
  BY <1>1, <1>2 DEF Take, Local, TypeOK, Procs, Requests, NoRequest, Having, Writes, Good,
     Timely, Shaped, Kept, InTime, Resealing, Holds, Got, GotIsCurrent, UnderTheLease, Send, Ask
<1>6. ASSUME NEW k \in Secrets, Rewriting(p, k), count'["foreign"] < Attempts,
             count'["fail"] = 0, count'["crash"] = 0, \A q \in Processes : plan.clock[q] <= 1
      PROVE  Rewriting(p, k)' \/ Opens(k)
  BY <1>1, <1>2, <1>6 DEF Take, Local, TypeOK, Procs, Requests, NoRequest, Having,
     Writes, Good,
     Shaped, Kept, Resealing, InTime, Rewriting, Send, Ask
<1> QED
  BY <1>2, <1>3, <1>4, <1>5, <1>6 DEF Alone, Kept

LEMMA LookAgainAlone ==
  ASSUME KeptInv, NEW p \in Processes, LookAgain(p)
  PROVE  Alone(p)
<1> USE Bounds DEF Constants
<1>1. /\ IInv /\ TypeOK /\ Good(p) /\ Kept(p) /\ proc[p] \in Procs /\ req[p] \in Requests
      /\ now \in Nat /\ vta.counter \in Nat /\ vta.lease.version \in Nat
      /\ count["foreign"] \in Nat /\ count["crash"] \in Nat /\ count["fail"] \in Nat
      /\ Nobody \notin Secrets /\ Nobody \notin Keys /\ Secrets \subseteq Keys
      /\ plan.clock[p] \in Nat /\ plan.clock[p] <= MaxSkew
  BY KnownKept
<1>2. /\ Local(p) /\ (count'["crash"] = 0 => count["crash"] = 0)
      /\ (count'["fail"] = 0 => count["fail"] = 0)
  BY <1>1, LookAgainGood DEF LookAgain, Happens, TypeOK, Moves
<1>3. Budget(p)'
  BY <1>1, <1>2 DEF LookAgain, Local, TypeOK, Procs, Requests, NoRequest, Having,
     Writes, Good,
     Shaped, Versioned, Kept, Budget, Resealing, Holds, Got, HolderKnows, GotIsCurrent, UnderTheLease
<1>4. Resealing(p)'
  BY <1>1, <1>2 DEF LookAgain, Local, TypeOK, Procs, Requests, NoRequest, Having,
     Writes, Good,
     Shaped, Kept, Resealing, InTime, Holds, Got
<1>5. InTime(p)'
  BY <1>1, <1>2 DEF LookAgain, Local, TypeOK, Procs, Requests, NoRequest, Having,
     Writes, Good,
     Timely, Shaped, Kept, InTime, Resealing, Holds, Got, GotIsCurrent, UnderTheLease
<1>6. ASSUME NEW k \in Secrets, Rewriting(p, k), count'["foreign"] < Attempts,
             count'["fail"] = 0, count'["crash"] = 0, \A q \in Processes : plan.clock[q] <= 1
      PROVE  Rewriting(p, k)' \/ Opens(k)
  BY <1>1, <1>2, <1>6 DEF LookAgain, Local, TypeOK, Procs, Requests, NoRequest, Having,
     Writes, Good,
     Shaped, Kept, Resealing, InTime, Rewriting
<1> QED
  BY <1>2, <1>3, <1>4, <1>5, <1>6 DEF Alone, Kept

LEMMA GiveUpAlone ==
  ASSUME KeptInv, NEW p \in Processes, GiveUp(p)
  PROVE  Alone(p)
<1> USE Bounds DEF Constants
<1>1. /\ IInv /\ TypeOK /\ Good(p) /\ Kept(p) /\ proc[p] \in Procs /\ req[p] \in Requests
      /\ now \in Nat /\ vta.counter \in Nat /\ vta.lease.version \in Nat
      /\ count["foreign"] \in Nat /\ count["crash"] \in Nat /\ count["fail"] \in Nat
      /\ Nobody \notin Secrets /\ Nobody \notin Keys /\ Secrets \subseteq Keys
      /\ plan.clock[p] \in Nat /\ plan.clock[p] <= MaxSkew
  BY KnownKept
<1>2. /\ Local(p) /\ (count'["crash"] = 0 => count["crash"] = 0)
      /\ (count'["fail"] = 0 => count["fail"] = 0)
  BY <1>1, GiveUpGood DEF GiveUp, Happens, TypeOK, Moves
<1>3. Budget(p)'
  BY <1>1, <1>2 DEF GiveUp, Local, TypeOK, Procs, Requests, NoRequest, Having, Writes, Good,
     Shaped, Versioned, Kept, Budget, Resealing, Holds, Got, HolderKnows, GotIsCurrent, UnderTheLease, Idle
<1>4. Resealing(p)'
  BY <1>1, <1>2 DEF GiveUp, Local, TypeOK, Procs, Requests, NoRequest, Having, Writes, Good,
     Shaped, Kept, Resealing, InTime, Holds, Got, Idle
<1>5. InTime(p)'
  BY <1>1, <1>2 DEF GiveUp, Local, TypeOK, Procs, Requests, NoRequest, Having, Writes, Good,
     Timely, Shaped, Kept, InTime, Resealing, Holds, Got, GotIsCurrent, UnderTheLease, Idle
<1>6. ASSUME NEW k \in Secrets, Rewriting(p, k), count'["foreign"] < Attempts,
             count'["fail"] = 0, count'["crash"] = 0, \A q \in Processes : plan.clock[q] <= 1
      PROVE  Rewriting(p, k)' \/ Opens(k)
  BY <1>1, <1>2, <1>6 DEF GiveUp, Local, TypeOK, Procs, Requests, NoRequest, Having,
     Writes, Good,
     Shaped, Kept, Resealing, InTime, Rewriting, Idle
<1> QED
  BY <1>2, <1>3, <1>4, <1>5, <1>6 DEF Alone, Kept

LEMMA GrantedAlone ==
  ASSUME KeptInv, NEW p \in Processes, Granted(p)
  PROVE  Alone(p)
<1> USE Bounds DEF Constants
<1>1. /\ IInv /\ TypeOK /\ Good(p) /\ Kept(p) /\ proc[p] \in Procs /\ req[p] \in Requests
      /\ now \in Nat /\ vta.counter \in Nat /\ vta.lease.version \in Nat
      /\ count["foreign"] \in Nat /\ count["crash"] \in Nat /\ count["fail"] \in Nat
      /\ Nobody \notin Secrets /\ Nobody \notin Keys /\ Secrets \subseteq Keys
      /\ plan.clock[p] \in Nat /\ plan.clock[p] <= MaxSkew
  BY KnownKept
<1>2. /\ Local(p) /\ (count'["crash"] = 0 => count["crash"] = 0)
      /\ (count'["fail"] = 0 => count["fail"] = 0)
  BY <1>1, GrantedGood DEF Granted, Happens, TypeOK, Moves
<1>3. Budget(p)'
  BY <1>1, <1>2 DEF Granted, Local, TypeOK, Procs, Requests, NoRequest, Having, Writes,
     Good,
     Shaped, Versioned, Kept, Budget, Resealing, Holds, Got, HolderKnows, GotIsCurrent, UnderTheLease
<1>4. Resealing(p)'
  BY <1>1, <1>2 DEF Granted, Local, TypeOK, Procs, Requests, NoRequest, Having, Writes,
     Good,
     Shaped, Kept, Resealing, InTime, Holds, Got
<1>5. InTime(p)'
  BY <1>1, <1>2 DEF Granted, Local, TypeOK, Procs, Requests, NoRequest, Having, Writes,
     Good,
     Timely, Shaped, Kept, InTime, Resealing, Holds, Got, GotIsCurrent, UnderTheLease
<1>6. ASSUME NEW k \in Secrets, Rewriting(p, k), count'["foreign"] < Attempts,
             count'["fail"] = 0, count'["crash"] = 0, \A q \in Processes : plan.clock[q] <= 1
      PROVE  Rewriting(p, k)' \/ Opens(k)
  BY <1>1, <1>2, <1>6 DEF Granted, Local, TypeOK, Procs, Requests, NoRequest, Having,
     Writes, Good,
     Shaped, Kept, Resealing, InTime, Rewriting
<1> QED
  BY <1>2, <1>3, <1>4, <1>5, <1>6 DEF Alone, Kept

LEMMA RenewAlone ==
  ASSUME KeptInv, NEW p \in Processes, Renew(p)
  PROVE  Alone(p)
<1> USE Bounds DEF Constants
<1>1. /\ IInv /\ TypeOK /\ Good(p) /\ Kept(p) /\ proc[p] \in Procs /\ req[p] \in Requests
      /\ now \in Nat /\ vta.counter \in Nat /\ vta.lease.version \in Nat
      /\ count["foreign"] \in Nat /\ count["crash"] \in Nat /\ count["fail"] \in Nat
      /\ Nobody \notin Secrets /\ Nobody \notin Keys /\ Secrets \subseteq Keys
      /\ plan.clock[p] \in Nat /\ plan.clock[p] <= MaxSkew
  BY KnownKept
<1>2. /\ Local(p) /\ (count'["crash"] = 0 => count["crash"] = 0)
      /\ (count'["fail"] = 0 => count["fail"] = 0)
  BY <1>1, RenewGood DEF Renew, Happens, TypeOK, Moves
<1>3. Budget(p)'
  BY <1>1, <1>2 DEF Renew, Local, TypeOK, Procs, Requests, NoRequest, Having, Writes, Good,
     Shaped, Versioned, Kept, Budget, Resealing, Holds, Got, HolderKnows, GotIsCurrent, UnderTheLease, Send, Ask, LongEnough, Left
<1>4. Resealing(p)'
  BY <1>1, <1>2 DEF Renew, Local, TypeOK, Procs, Requests, NoRequest, Having, Writes, Good,
     Shaped, Kept, Resealing, InTime, Holds, Got, Send, Ask, LongEnough, Left
<1>5. InTime(p)'
  BY <1>1, <1>2 DEF Renew, Local, TypeOK, Procs, Requests, NoRequest, Having, Writes, Good,
     Timely, Shaped, Kept, InTime, Resealing, Holds, Got, GotIsCurrent, UnderTheLease, Send, Ask, LongEnough, Left
<1>6. ASSUME NEW k \in Secrets, Rewriting(p, k), count'["foreign"] < Attempts,
             count'["fail"] = 0, count'["crash"] = 0, \A q \in Processes : plan.clock[q] <= 1
      PROVE  Rewriting(p, k)' \/ Opens(k)
  BY <1>1, <1>2, <1>6 DEF Renew, Local, TypeOK, Procs, Requests, NoRequest, Having,
     Writes, Good,
     Shaped, Kept, Resealing, InTime, Rewriting, Send, Ask, LongEnough, Left
<1> QED
  BY <1>2, <1>3, <1>4, <1>5, <1>6 DEF Alone, Kept

LEMMA RenewedAlone ==
  ASSUME KeptInv, NEW p \in Processes, Renewed(p)
  PROVE  Alone(p)
<1> USE Bounds DEF Constants
<1>1. /\ IInv /\ TypeOK /\ Good(p) /\ Kept(p) /\ proc[p] \in Procs /\ req[p] \in Requests
      /\ now \in Nat /\ vta.counter \in Nat /\ vta.lease.version \in Nat
      /\ count["foreign"] \in Nat /\ count["crash"] \in Nat /\ count["fail"] \in Nat
      /\ Nobody \notin Secrets /\ Nobody \notin Keys /\ Secrets \subseteq Keys
      /\ plan.clock[p] \in Nat /\ plan.clock[p] <= MaxSkew
  BY KnownKept
<1>2. /\ Local(p) /\ (count'["crash"] = 0 => count["crash"] = 0)
      /\ (count'["fail"] = 0 => count["fail"] = 0)
  BY <1>1, RenewedGood DEF Renewed, Happens, TypeOK, Moves
<1>3. Budget(p)'
  BY <1>1, <1>2 DEF Renewed, Local, TypeOK, Procs, Requests, NoRequest, Having, Writes,
     Good,
     Shaped, Versioned, Kept, Budget, Resealing, Holds, Got, HolderKnows, GotIsCurrent, UnderTheLease, Larger
<1>4. Resealing(p)'
  BY <1>1, <1>2 DEF Renewed, Local, TypeOK, Procs, Requests, NoRequest, Having, Writes,
     Good,
     Shaped, Kept, Resealing, InTime, Holds, Got, Larger
<1>5. InTime(p)'
  BY <1>1, <1>2 DEF Renewed, Local, TypeOK, Procs, Requests, NoRequest, Having, Writes,
     Good,
     Timely, Shaped, Kept, InTime, Resealing, Holds, Got, GotIsCurrent, UnderTheLease, Larger
<1>6. ASSUME NEW k \in Secrets, Rewriting(p, k), count'["foreign"] < Attempts,
             count'["fail"] = 0, count'["crash"] = 0, \A q \in Processes : plan.clock[q] <= 1
      PROVE  Rewriting(p, k)' \/ Opens(k)
  BY <1>1, <1>2, <1>6 DEF Renewed, Local, TypeOK, Procs, Requests, NoRequest, Having,
     Writes, Good,
     Shaped, Kept, Resealing, InTime, Rewriting, Larger
<1> QED
  BY <1>2, <1>3, <1>4, <1>5, <1>6 DEF Alone, Kept

LEMMA RanOutAlone ==
  ASSUME KeptInv, NEW p \in Processes, RanOut(p)
  PROVE  Alone(p)
<1> USE Bounds DEF Constants
<1>1. /\ IInv /\ TypeOK /\ Good(p) /\ Kept(p) /\ proc[p] \in Procs /\ req[p] \in Requests
      /\ now \in Nat /\ vta.counter \in Nat /\ vta.lease.version \in Nat
      /\ count["foreign"] \in Nat /\ count["crash"] \in Nat /\ count["fail"] \in Nat
      /\ Nobody \notin Secrets /\ Nobody \notin Keys /\ Secrets \subseteq Keys
      /\ plan.clock[p] \in Nat /\ plan.clock[p] <= MaxSkew
  BY KnownKept
<1>2. /\ Local(p) /\ (count'["crash"] = 0 => count["crash"] = 0)
      /\ (count'["fail"] = 0 => count["fail"] = 0)
  BY <1>1, RanOutGood DEF RanOut, Happens, TypeOK, Moves
<1>3. Budget(p)'
  BY <1>1, <1>2 DEF RanOut, Local, TypeOK, Procs, Requests, NoRequest, Having, Writes, Good,
     Shaped, Versioned, Kept, Budget, Resealing, Holds, Got, HolderKnows, GotIsCurrent, UnderTheLease, Left
<1>4. Resealing(p)'
  BY <1>1, <1>2 DEF RanOut, Local, TypeOK, Procs, Requests, NoRequest, Having, Writes, Good,
     Shaped, Kept, Resealing, InTime, Holds, Got, Left
<1>5. InTime(p)'
  BY <1>1, <1>2 DEF RanOut, Local, TypeOK, Procs, Requests, NoRequest, Having, Writes, Good,
     Timely, Shaped, Kept, InTime, Resealing, Holds, Got, GotIsCurrent, UnderTheLease, Left
<1>6. ASSUME NEW k \in Secrets, Rewriting(p, k), count'["foreign"] < Attempts,
             count'["fail"] = 0, count'["crash"] = 0, \A q \in Processes : plan.clock[q] <= 1
      PROVE  Rewriting(p, k)' \/ Opens(k)
  BY <1>1, <1>2, <1>6 DEF RanOut, Local, TypeOK, Procs, Requests, NoRequest, Having,
     Writes, Good,
     Shaped, Kept, Resealing, InTime, Rewriting, Left
<1> QED
  BY <1>2, <1>3, <1>4, <1>5, <1>6 DEF Alone, Kept

LEMMA PutAlone ==
  ASSUME KeptInv, NEW p \in Processes, NEW k1 \in Keys, Put(p, k1)
  PROVE  Alone(p)
<1> USE Bounds DEF Constants
<1>1. /\ IInv /\ TypeOK /\ Good(p) /\ Kept(p) /\ proc[p] \in Procs /\ req[p] \in Requests
      /\ now \in Nat /\ vta.counter \in Nat /\ vta.lease.version \in Nat
      /\ count["foreign"] \in Nat /\ count["crash"] \in Nat /\ count["fail"] \in Nat
      /\ Nobody \notin Secrets /\ Nobody \notin Keys /\ Secrets \subseteq Keys
      /\ plan.clock[p] \in Nat /\ plan.clock[p] <= MaxSkew
  BY KnownKept
<1>2. /\ Local(p) /\ (count'["crash"] = 0 => count["crash"] = 0)
      /\ (count'["fail"] = 0 => count["fail"] = 0)
  BY <1>1, PutGood DEF Put, Happens, TypeOK, Moves, Writing
<1>3. Budget(p)'
  BY <1>1, <1>2 DEF Put, Local, TypeOK, Procs, Requests, NoRequest, Having, Writes, Good,
     Shaped, Versioned, Kept, Budget, Resealing, Holds, Got, HolderKnows, GotIsCurrent, UnderTheLease, Send, Ask, Writing, LongEnough, Left, LoserStops
<1>4. Resealing(p)'
  <2>1. /\ req'[p].kind = "put" /\ req'[p].key = k1 /\ req'[p].took = 0
        /\ req'[p].expected = vta.rec[k1].version
        /\ req'[p].seal = Seal(p, k1) /\ proc'[p] = [proc[p] EXCEPT !.at = "writing"]
        /\ vta' = vta
    BY <1>1 DEF Put, Writing, Send, Ask, TypeOK
  <2>2. /\ proc'[p].at = "writing" /\ proc'[p].next = proc[p].next /\ proc'[p].key = proc[p].key
        /\ proc'[p].tries = proc[p].tries
    BY <1>1, <2>1 DEF Procs
  <2>3. proc[p].key = Nobody
    BY <1>1 DEF Put, Kept, Resealing, InTime
  <2> QED
    BY <1>1, <2>1, <2>2, <2>3 DEF Kept, Resealing, Seal, Writes
<1>5. InTime(p)'
  BY <1>1, <1>2 DEF Put, Local, TypeOK, Procs, Requests, NoRequest, Having, Writes, Good,
     Timely, Shaped, Kept, InTime, Resealing, Holds, Got, GotIsCurrent, UnderTheLease, Send, Ask, Writing, LongEnough, Left, LoserStops
<1>6. ASSUME NEW k \in Secrets, Rewriting(p, k), count'["foreign"] < Attempts,
             count'["fail"] = 0, count'["crash"] = 0, \A q \in Processes : plan.clock[q] <= 1
      PROVE  Rewriting(p, k)' \/ Opens(k)
  BY <1>1, <1>2, <1>6 DEF Put, Local, TypeOK, Procs, Requests, NoRequest, Having,
     Writes, Good,
     Shaped, Kept, Resealing, InTime, Rewriting, Send, Ask, Writing, LongEnough, Left, LoserStops
<1> QED
  BY <1>2, <1>3, <1>4, <1>5, <1>6 DEF Alone, Kept

LEMMA DeleteAlone ==
  ASSUME KeptInv, NEW p \in Processes, NEW k1 \in Keys, Delete(p, k1)
  PROVE  Alone(p)
<1> USE Bounds DEF Constants
<1>1. /\ IInv /\ TypeOK /\ Good(p) /\ Kept(p) /\ proc[p] \in Procs /\ req[p] \in Requests
      /\ now \in Nat /\ vta.counter \in Nat /\ vta.lease.version \in Nat
      /\ count["foreign"] \in Nat /\ count["crash"] \in Nat /\ count["fail"] \in Nat
      /\ Nobody \notin Secrets /\ Nobody \notin Keys /\ Secrets \subseteq Keys
      /\ plan.clock[p] \in Nat /\ plan.clock[p] <= MaxSkew
  BY KnownKept
<1>2. /\ Local(p) /\ (count'["crash"] = 0 => count["crash"] = 0)
      /\ (count'["fail"] = 0 => count["fail"] = 0)
  BY <1>1, DeleteGood DEF Delete, Happens, TypeOK, Moves, Writing
<1>3. Budget(p)'
  BY <1>1, <1>2 DEF Delete, Local, TypeOK, Procs, Requests, NoRequest, Having, Writes, Good,
     Shaped, Versioned, Kept, Budget, Resealing, Holds, Got, HolderKnows, GotIsCurrent, UnderTheLease, Send, Ask, Writing, LongEnough, Left, LoserStops
<1>4. Resealing(p)'
  BY <1>1, <1>2 DEF Delete, Local, TypeOK, Procs, Requests, NoRequest, Having, Writes, Good,
     Shaped, Kept, Resealing, InTime, Holds, Got, Send, Ask, Writing, LongEnough, Left, LoserStops
<1>5. InTime(p)'
  BY <1>1, <1>2 DEF Delete, Local, TypeOK, Procs, Requests, NoRequest, Having, Writes, Good,
     Timely, Shaped, Kept, InTime, Resealing, Holds, Got, GotIsCurrent, UnderTheLease, Send, Ask, Writing, LongEnough, Left, LoserStops
<1>6. ASSUME NEW k \in Secrets, Rewriting(p, k), count'["foreign"] < Attempts,
             count'["fail"] = 0, count'["crash"] = 0, \A q \in Processes : plan.clock[q] <= 1
      PROVE  Rewriting(p, k)' \/ Opens(k)
  BY <1>1, <1>2, <1>6 DEF Delete, Local, TypeOK, Procs, Requests, NoRequest, Having,
     Writes, Good,
     Shaped, Kept, Resealing, InTime, Rewriting, Send, Ask, Writing, LongEnough, Left, LoserStops
<1> QED
  BY <1>2, <1>3, <1>4, <1>5, <1>6 DEF Alone, Kept

LEMMA SealAgainAlone ==
  ASSUME KeptInv, NEW p \in Processes, SealAgain(p)
  PROVE  Alone(p)
<1> USE Bounds DEF Constants
<1>1. /\ IInv /\ TypeOK /\ Good(p) /\ Kept(p) /\ proc[p] \in Procs /\ req[p] \in Requests
      /\ now \in Nat /\ vta.counter \in Nat /\ vta.lease.version \in Nat
      /\ count["foreign"] \in Nat /\ count["crash"] \in Nat /\ count["fail"] \in Nat
      /\ Nobody \notin Secrets /\ Nobody \notin Keys /\ Secrets \subseteq Keys
      /\ plan.clock[p] \in Nat /\ plan.clock[p] <= MaxSkew
  BY KnownKept
<1>2. /\ Local(p) /\ (count'["crash"] = 0 => count["crash"] = 0)
      /\ (count'["fail"] = 0 => count["fail"] = 0)
  BY <1>1, SealAgainGood DEF SealAgain, Happens, TypeOK, Moves
<1>3. Budget(p)'
  BY <1>1, <1>2 DEF SealAgain, Local, TypeOK, Procs, Requests, NoRequest, Having,
     Writes, Good,
     Shaped, Versioned, Kept, Budget, Resealing, Holds, Got, HolderKnows, GotIsCurrent, UnderTheLease, Send, Ask, Writing, LongEnough, Left, LoserStops
<1>4. Resealing(p)'
  <2>1. /\ req'[p].kind = "put" /\ req'[p].key = proc[p].key /\ req'[p].took = 0
        /\ req'[p].expected = vta.rec[proc[p].key].version
        /\ req'[p].seal = Seal(p, proc[p].key) /\ proc'[p] = [proc[p] EXCEPT !.at = "writing"]
        /\ vta' = vta
    BY <1>1 DEF SealAgain, Writing, Send, Ask, TypeOK, Kept, Resealing, InTime
  <2>2. /\ proc'[p].at = "writing" /\ proc'[p].next = proc[p].next /\ proc'[p].key = proc[p].key
        /\ proc'[p].tries = proc[p].tries
    BY <1>1, <2>1 DEF Procs
  <2>3. proc[p].key # Nobody
    BY <1>1 DEF SealAgain, Kept, Resealing, InTime
  <2> QED
    BY <1>1, <2>1, <2>2, <2>3 DEF Kept, Resealing, Seal, Writes
<1>5. InTime(p)'
  BY <1>1, <1>2 DEF SealAgain, Local, TypeOK, Procs, Requests, NoRequest, Having,
     Writes, Good,
     Timely, Shaped, Kept, InTime, Resealing, Holds, Got, GotIsCurrent, UnderTheLease, Send, Ask, Writing, LongEnough, Left, LoserStops
<1>6. ASSUME NEW k \in Secrets, Rewriting(p, k), count'["foreign"] < Attempts,
             count'["fail"] = 0, count'["crash"] = 0, \A q \in Processes : plan.clock[q] <= 1
      PROVE  Rewriting(p, k)' \/ Opens(k)
  BY <1>1, <1>2, <1>6 DEF SealAgain, Local, TypeOK, Procs, Requests, NoRequest, Having,
     Writes, Good,
     Shaped, Kept, Resealing, InTime, Rewriting, Send, Ask, Writing, LongEnough, Left, LoserStops
<1> QED
  BY <1>2, <1>3, <1>4, <1>5, <1>6 DEF Alone, Kept

LEMMA ReleaseAlone ==
  ASSUME KeptInv, NEW p \in Processes, Release(p)
  PROVE  Alone(p)
<1> USE Bounds DEF Constants
<1>1. /\ IInv /\ TypeOK /\ Good(p) /\ Kept(p) /\ proc[p] \in Procs /\ req[p] \in Requests
      /\ now \in Nat /\ vta.counter \in Nat /\ vta.lease.version \in Nat
      /\ count["foreign"] \in Nat /\ count["crash"] \in Nat /\ count["fail"] \in Nat
      /\ Nobody \notin Secrets /\ Nobody \notin Keys /\ Secrets \subseteq Keys
      /\ plan.clock[p] \in Nat /\ plan.clock[p] <= MaxSkew
  BY KnownKept
<1>2. /\ Local(p) /\ (count'["crash"] = 0 => count["crash"] = 0)
      /\ (count'["fail"] = 0 => count["fail"] = 0)
  BY <1>1, ReleaseGood DEF Release, Happens, TypeOK, Moves
<1>3. Budget(p)'
  BY <1>1, <1>2 DEF Release, Local, TypeOK, Procs, Requests, NoRequest, Having, Writes,
     Good,
     Shaped, Versioned, Kept, Budget, Resealing, Holds, Got, HolderKnows, GotIsCurrent, UnderTheLease, Send, Ask, Idle
<1>4. Resealing(p)'
  BY <1>1, <1>2 DEF Release, Local, TypeOK, Procs, Requests, NoRequest, Having, Writes,
     Good,
     Shaped, Kept, Resealing, InTime, Holds, Got, Send, Ask, Idle
<1>5. InTime(p)'
  BY <1>1, <1>2 DEF Release, Local, TypeOK, Procs, Requests, NoRequest, Having, Writes,
     Good,
     Timely, Shaped, Kept, InTime, Resealing, Holds, Got, GotIsCurrent, UnderTheLease, Send, Ask, Idle
<1>6. ASSUME NEW k \in Secrets, Rewriting(p, k), count'["foreign"] < Attempts,
             count'["fail"] = 0, count'["crash"] = 0, \A q \in Processes : plan.clock[q] <= 1
      PROVE  Rewriting(p, k)' \/ Opens(k)
  BY <1>1, <1>2, <1>6 DEF Release, Local, TypeOK, Procs, Requests, NoRequest, Having,
     Writes, Good,
     Shaped, Kept, Resealing, InTime, Rewriting, Send, Ask, Idle
<1> QED
  BY <1>2, <1>3, <1>4, <1>5, <1>6 DEF Alone, Kept

LEMMA ReleasedAlone ==
  ASSUME KeptInv, NEW p \in Processes, Released(p)
  PROVE  Alone(p)
<1> USE Bounds DEF Constants
<1>1. /\ IInv /\ TypeOK /\ Good(p) /\ Kept(p) /\ proc[p] \in Procs /\ req[p] \in Requests
      /\ now \in Nat /\ vta.counter \in Nat /\ vta.lease.version \in Nat
      /\ count["foreign"] \in Nat /\ count["crash"] \in Nat /\ count["fail"] \in Nat
      /\ Nobody \notin Secrets /\ Nobody \notin Keys /\ Secrets \subseteq Keys
      /\ plan.clock[p] \in Nat /\ plan.clock[p] <= MaxSkew
  BY KnownKept
<1>2. /\ Local(p) /\ (count'["crash"] = 0 => count["crash"] = 0)
      /\ (count'["fail"] = 0 => count["fail"] = 0)
  BY <1>1, ReleasedGood DEF Released, Happens, TypeOK, Moves
<1>3. Budget(p)'
  BY <1>1, <1>2 DEF Released, Local, TypeOK, Procs, Requests, NoRequest, Having, Writes,
     Good,
     Shaped, Versioned, Kept, Budget, Resealing, Holds, Got, HolderKnows, GotIsCurrent, UnderTheLease
<1>4. Resealing(p)'
  BY <1>1, <1>2 DEF Released, Local, TypeOK, Procs, Requests, NoRequest, Having, Writes,
     Good,
     Shaped, Kept, Resealing, InTime, Holds, Got
<1>5. InTime(p)'
  BY <1>1, <1>2 DEF Released, Local, TypeOK, Procs, Requests, NoRequest, Having, Writes,
     Good,
     Timely, Shaped, Kept, InTime, Resealing, Holds, Got, GotIsCurrent, UnderTheLease
<1>6. ASSUME NEW k \in Secrets, Rewriting(p, k), count'["foreign"] < Attempts,
             count'["fail"] = 0, count'["crash"] = 0, \A q \in Processes : plan.clock[q] <= 1
      PROVE  Rewriting(p, k)' \/ Opens(k)
  BY <1>1, <1>2, <1>6 DEF Released, Local, TypeOK, Procs, Requests, NoRequest, Having,
     Writes, Good,
     Shaped, Kept, Resealing, InTime, Rewriting
<1> QED
  BY <1>2, <1>3, <1>4, <1>5, <1>6 DEF Alone, Kept

LEMMA RefusedAlone ==
  ASSUME KeptInv, NEW p \in Processes, Refused(p)
  PROVE  Alone(p)
<1> USE Bounds DEF Constants
<1>1. /\ IInv /\ TypeOK /\ Good(p) /\ Kept(p) /\ proc[p] \in Procs /\ req[p] \in Requests
      /\ now \in Nat /\ vta.counter \in Nat /\ vta.lease.version \in Nat
      /\ count["foreign"] \in Nat /\ count["crash"] \in Nat /\ count["fail"] \in Nat
      /\ Nobody \notin Secrets /\ Nobody \notin Keys /\ Secrets \subseteq Keys
      /\ plan.clock[p] \in Nat /\ plan.clock[p] <= MaxSkew
  BY KnownKept
<1>2. /\ Local(p) /\ (count'["crash"] = 0 => count["crash"] = 0)
      /\ (count'["fail"] = 0 => count["fail"] = 0)
  BY <1>1, RefusedGood DEF Refused, Happens, TypeOK, Moves
<1>3. Budget(p)'
  BY <1>1, <1>2 DEF Refused, Local, TypeOK, Procs, Requests, NoRequest, Having, Writes,
     Good,
     Shaped, Versioned, Kept, Budget, Resealing, Holds, Got, HolderKnows, GotIsCurrent, UnderTheLease, Fallen, Idle
<1>4. Resealing(p)'
  BY <1>1, <1>2 DEF Refused, Local, TypeOK, Procs, Requests, NoRequest, Having, Writes,
     Good,
     Shaped, Kept, Resealing, InTime, Holds, Got, Fallen, Idle
<1>5. InTime(p)'
  BY <1>1, <1>2 DEF Refused, Local, TypeOK, Procs, Requests, NoRequest, Having, Writes,
     Good,
     Timely, Shaped, Kept, InTime, Resealing, Holds, Got, GotIsCurrent, UnderTheLease, Fallen, Idle
<1>6. ASSUME NEW k \in Secrets, Rewriting(p, k), count'["foreign"] < Attempts,
             count'["fail"] = 0, count'["crash"] = 0, \A q \in Processes : plan.clock[q] <= 1
      PROVE  Rewriting(p, k)' \/ Opens(k)
  <2>1. CASE proc[p].key = k /\ proc[p].at = "renewing"
    <3>1. req[p].kind = "renew" /\ req[p].took = 0 /\ ~Accepts(req[p])
      BY <1>1, <2>1 DEF Refused, Waiting, Good, Shaped
    <3>2. Holds(p) /\ req[p].expected = proc[p].version
      BY <1>1, <1>2, <1>6, <2>1, <3>1 DEF Kept, InTime, Resealing, Got, Refused, Fallen
    <3> QED
      BY <3>1, <3>2 DEF Holds, Accepts, OfLease
  <2>2. CASE req[p].kind = "put"
    <3>1. req[p].took = 0 /\ ~Accepts(req[p])
      BY DEF Refused, Waiting
    <3> QED
      BY <1>1, <2>2, <3>1 DEF Accepts, OfLease, Kept, Resealing, Writes
  <2>3. proc[p].at # "held"
    BY <1>1 DEF Refused, Waiting, Good, Shaped
  <2> QED
    BY <1>6, <2>1, <2>2, <2>3 DEF Rewriting
<1> QED
  BY <1>2, <1>3, <1>4, <1>5, <1>6 DEF Alone, Kept

LEMMA FailsAlone ==
  ASSUME KeptInv, NEW p \in Processes, Fails(p)
  PROVE  Alone(p)
<1> USE Bounds DEF Constants
<1>1. /\ IInv /\ TypeOK /\ Good(p) /\ Kept(p) /\ proc[p] \in Procs /\ req[p] \in Requests
      /\ now \in Nat /\ vta.counter \in Nat /\ vta.lease.version \in Nat
      /\ count["foreign"] \in Nat /\ count["crash"] \in Nat /\ count["fail"] \in Nat
      /\ Nobody \notin Secrets /\ Nobody \notin Keys /\ Secrets \subseteq Keys
      /\ plan.clock[p] \in Nat /\ plan.clock[p] <= MaxSkew
  BY KnownKept
<1>a. count' = [count EXCEPT !["fail"] = @ + 1] /\ plan' = plan
  BY DEF Fails, Happens
<1>b. /\ count'["fail"] # 0 /\ count'["fail"] \in Nat
      /\ \A m \in Moves \ {"fail"} : count'[m] = count[m]
  BY <1>1, <1>a DEF TypeOK, Moves
<1>2. /\ Local(p) /\ (count'["crash"] = 0 => count["crash"] = 0)
      /\ (count'["fail"] = 0 => count["fail"] = 0)
  BY <1>1, <1>b, FailsGood DEF Moves
<1>3. Budget(p)'
  BY <1>1, <1>2 DEF Fails, Local, TypeOK, Procs, Requests, NoRequest, Having, Writes, Good,
     Shaped, Versioned, Kept, Budget, Resealing, Holds, Got, HolderKnows, GotIsCurrent, UnderTheLease, Fallen, Idle
<1>4. Resealing(p)'
  BY <1>1, <1>2 DEF Fails, Local, TypeOK, Procs, Requests, NoRequest, Having, Writes, Good,
     Shaped, Kept, Resealing, InTime, Holds, Got, Fallen, Idle
<1>5. InTime(p)'
  BY <1>1, <1>2, <1>b DEF Fails, Local, TypeOK, Procs, Requests, NoRequest, Having,
     Writes, Good,
     Timely, Shaped, Kept, InTime, Resealing, Holds, Got, GotIsCurrent, UnderTheLease, Fallen, Idle
<1>6. ASSUME NEW k \in Secrets, Rewriting(p, k), count'["foreign"] < Attempts,
             count'["fail"] = 0, count'["crash"] = 0, \A q \in Processes : plan.clock[q] <= 1
      PROVE  Rewriting(p, k)' \/ Opens(k)
  BY <1>6, <1>b
<1> QED
  BY <1>2, <1>3, <1>4, <1>5, <1>6 DEF Alone, Kept

LEMMA CrashAlone ==
  ASSUME KeptInv, NEW p \in Processes, Crash(p)
  PROVE  Alone(p)
<1> USE Bounds DEF Constants
<1>1. /\ IInv /\ TypeOK /\ Good(p) /\ Kept(p) /\ proc[p] \in Procs /\ req[p] \in Requests
      /\ now \in Nat /\ vta.counter \in Nat /\ vta.lease.version \in Nat
      /\ count["foreign"] \in Nat /\ count["crash"] \in Nat /\ count["fail"] \in Nat
      /\ Nobody \notin Secrets /\ Nobody \notin Keys /\ Secrets \subseteq Keys
      /\ plan.clock[p] \in Nat /\ plan.clock[p] <= MaxSkew
  BY KnownKept
<1>a. count' = [count EXCEPT !["crash"] = @ + 1] /\ plan' = plan
  BY DEF Crash, Happens
<1>b. /\ count'["crash"] # 0 /\ count'["crash"] \in Nat
      /\ \A m \in Moves \ {"crash"} : count'[m] = count[m]
  BY <1>1, <1>a DEF TypeOK, Moves
<1>2. /\ Local(p) /\ (count'["crash"] = 0 => count["crash"] = 0)
      /\ (count'["fail"] = 0 => count["fail"] = 0)
  BY <1>1, <1>b, CrashGood DEF Moves
<1>3. Budget(p)'
  BY <1>1, <1>2 DEF Crash, Local, TypeOK, Procs, Requests, NoRequest, Having, Writes, Good,
     Shaped, Versioned, Kept, Budget, Resealing, Holds, Got, HolderKnows, GotIsCurrent, UnderTheLease, Idle
<1>4. Resealing(p)'
  BY <1>1, <1>2 DEF Crash, Local, TypeOK, Procs, Requests, NoRequest, Having, Writes, Good,
     Shaped, Kept, Resealing, InTime, Holds, Got, Idle
<1>5. InTime(p)'
  BY <1>1, <1>2, <1>b DEF Crash, Local, TypeOK, Procs, Requests, NoRequest, Having,
     Writes, Good,
     Timely, Shaped, Kept, InTime, Resealing, Holds, Got, GotIsCurrent, UnderTheLease, Idle
<1>6. ASSUME NEW k \in Secrets, Rewriting(p, k), count'["foreign"] < Attempts,
             count'["fail"] = 0, count'["crash"] = 0, \A q \in Processes : plan.clock[q] <= 1
      PROVE  Rewriting(p, k)' \/ Opens(k)
  BY <1>6, <1>b
<1> QED
  BY <1>2, <1>3, <1>4, <1>5, <1>6 DEF Alone, Kept

LEMMA LostAlone ==
  ASSUME KeptInv, NEW p \in Processes, Lost(p)
  PROVE  Alone(p)
<1> USE Bounds DEF Constants
<1>1. /\ IInv /\ TypeOK /\ Good(p) /\ Kept(p) /\ proc[p] \in Procs /\ req[p] \in Requests
      /\ now \in Nat /\ vta.counter \in Nat /\ vta.lease.version \in Nat
      /\ count["foreign"] \in Nat /\ count["crash"] \in Nat /\ count["fail"] \in Nat
      /\ Nobody \notin Secrets /\ Nobody \notin Keys /\ Secrets \subseteq Keys
      /\ plan.clock[p] \in Nat /\ plan.clock[p] <= MaxSkew
  BY KnownKept
<1>2. /\ Local(p) /\ (count'["crash"] = 0 => count["crash"] = 0)
      /\ (count'["fail"] = 0 => count["fail"] = 0)
  BY <1>1, LostGood DEF Lost, Happens, TypeOK, Moves
<1>3. Budget(p)'
  BY <1>1, <1>2 DEF Lost, Local, TypeOK, Procs, Requests, NoRequest, Having, Writes, Good,
     Shaped, Versioned, Kept, Budget, Resealing, Holds, Got, HolderKnows, GotIsCurrent, UnderTheLease
<1>4. Resealing(p)'
  BY <1>1, <1>2 DEF Lost, Local, TypeOK, Procs, Requests, NoRequest, Having, Writes, Good,
     Shaped, Kept, Resealing, InTime, Holds, Got
<1>5. InTime(p)'
  BY <1>1, <1>2 DEF Lost, Local, TypeOK, Procs, Requests, NoRequest, Having, Writes, Good,
     Timely, Shaped, Kept, InTime, Resealing, Holds, Got, GotIsCurrent, UnderTheLease
<1>6. ASSUME NEW k \in Secrets, Rewriting(p, k), count'["foreign"] < Attempts,
             count'["fail"] = 0, count'["crash"] = 0, \A q \in Processes : plan.clock[q] <= 1
      PROVE  Rewriting(p, k)' \/ Opens(k)
  BY <1>1, <1>2, <1>6 DEF Lost, Local, TypeOK, Procs, Requests, NoRequest, Having,
     Writes, Good,
     Shaped, Kept, Resealing, InTime, Rewriting
<1> QED
  BY <1>2, <1>3, <1>4, <1>5, <1>6 DEF Alone, Kept

LEMMA WrittenAlone ==
  ASSUME KeptInv, NEW p \in Processes, Written(p)
  PROVE  Alone(p)
<1> USE Bounds DEF Constants
<1>1. /\ IInv /\ TypeOK /\ Good(p) /\ Kept(p) /\ proc[p] \in Procs /\ req[p] \in Requests
      /\ now \in Nat /\ vta.counter \in Nat /\ vta.lease.version \in Nat
      /\ count["foreign"] \in Nat /\ count["crash"] \in Nat /\ count["fail"] \in Nat
      /\ Nobody \notin Secrets /\ Nobody \notin Keys /\ Secrets \subseteq Keys
      /\ plan.clock[p] \in Nat /\ plan.clock[p] <= MaxSkew
  BY KnownKept
<1> DEFINE r == req[p]
           tried == proc[p].tries + 1
           again == Unpredicted(r) /\ tried < Attempts
<1>2. /\ Local(p) /\ (count'["crash"] = 0 => count["crash"] = 0)
      /\ (count'["fail"] = 0 => count["fail"] = 0)
  BY <1>1, WrittenGood DEF Written
<1>3. /\ proc[p].at = "writing" /\ r.took # 0 /\ r.kind \in Writes /\ Holds(p)
      /\ count' = count /\ now' = now /\ vta' = vta /\ plan' = plan /\ req'[p] = NoRequest
      /\ proc'[p].version = proc[p].version /\ proc'[p].deadline = proc[p].deadline
      /\ proc'[p].next = Larger(proc[p].next, r.took + 1)
      /\ proc[p].next <= r.took /\ proc[p].tries + vta.counter <= proc[p].next + count["foreign"]
      /\ r.took \in Nat /\ r.took <= vta.counter
  BY <1>1 DEF Written, TypeOK, Good, Shaped, Versioned, UnderTheLease, Kept, Budget,
     Holds, Having,
     Requests, Procs
<1>4. proc'[p].next = r.took + 1
  BY <1>1, <1>3 DEF Larger, Procs
<1>5. /\ again => proc'[p].at = "held" /\ proc'[p].key = r.key /\ proc'[p].last = r.took
                  /\ proc'[p].tries = tried /\ r.key \in Secrets /\ r.kind = "put"
                  /\ r.took # r.seal
      /\ ~again => proc'[p].at \in {"held", "ending"} /\ proc'[p].key = Nobody
                   /\ proc'[p].tries = 0
  BY <1>1 DEF Written, TypeOK, Procs, Unpredicted
<1>6. again => proc[p].next < r.took
  BY <1>1, <1>3, <1>5 DEF Kept, Resealing, Procs
<1> HIDE DEF again
<1>7. Budget(p)'
  BY <1>1, <1>2, <1>3, <1>4, <1>5, <1>6 DEF Budget, NoRequest, Procs
<1>8. Resealing(p)'
  <2>1. r.kind = "put" => vta.rec[r.key].version = r.took
    BY <1>1, <1>3 DEF Kept, Resealing
  <2>2. req'[p].kind = "none" /\ req'[p].took = 0
    BY <1>3 DEF NoRequest
  <2> QED
    BY <1>1, <1>3, <1>5, <2>1, <2>2 DEF Resealing, Writes
<1>9. InTime(p)'
  <2>1. proc[p].deadline > r.sent + Half /\ now <= r.sent + Timeout
    BY <1>1, <1>3 DEF Kept, InTime, Good, Timely, NoRequest
  <2>2. Holds(p)'
    BY <1>3, <1>5 DEF Holds, Having
  <2> QED
    BY <1>1, <1>3, <1>5, <2>1, <2>2 DEF InTime, Procs, Requests
<1>10. ASSUME NEW k \in Secrets, Rewriting(p, k), count'["foreign"] < Attempts
      PROVE  Rewriting(p, k)' \/ Opens(k)
  <2>1. r.kind = "put" /\ r.key = k
    BY <1>1, <1>3, <1>10 DEF Rewriting, Kept, Resealing
  <2>2. vta.rec[k] = [version |-> r.took, seal |-> r.seal] /\ r.seal = proc[p].next
    BY <1>1, <1>3, <1>10, <2>1 DEF Kept, Resealing
  <2>3. CASE again
    BY <1>5, <2>1, <2>3 DEF Rewriting
  <2>4. CASE r.took = r.seal
    BY <2>2, <2>4 DEF Opens
  <2>5. CASE ~again /\ r.took # r.seal
    <3>1. proc[p].next < r.took
      BY <1>1, <1>3, <2>2, <2>5 DEF Procs
    <3>2. tried <= count["foreign"]
      BY <1>1, <1>3, <3>1 DEF Procs
    <3>3. tried < Attempts
      BY <1>1, <1>3, <1>10, <3>2, AttemptsAssumption DEF Procs
    <3> QED
      BY <1>10, <2>1, <2>5, <3>3 DEF Unpredicted, again
  <2> QED
    BY <2>3, <2>4, <2>5
<1> QED
  BY <1>2, <1>3, <1>7, <1>8, <1>9, <1>10 DEF Alone, Kept

(* Time does not pass while a record is to be sealed again.                 *)
LEMMA TickKept ==
  ASSUME KeptInv, IInv', Tick
  PROVE  KeptInv'
<1>1. ASSUME NEW p \in Processes
      PROVE  Kept(p)'
  BY <1>1, KnownKept DEF Tick, Kept, Budget, Resealing, InTime, Holds, Got
<1>2. SealedAgain'
  BY DEF KeptInv, Tick, SealedAgain, Opens, Rewriting
<1> QED
  BY <1>1, <1>2 DEF KeptInv

(* Who ignores the lease moves the counter on.                              *)
LEMMA ForeignKept ==
  ASSUME KeptInv, IInv', Foreign
  PROVE  KeptInv'
<1>0. TypeOK
  BY DEF KeptInv, IInv
<1>1. /\ vta'.counter = vta.counter + 1 /\ vta'.lease = vta.lease /\ vta'.rec = vta.rec
      /\ count' = [count EXCEPT !["foreign"] = @ + 1] /\ plan' = plan
      /\ UNCHANGED <<now, proc, req>>
  BY <1>0 DEF Foreign, Happens, TypeOK, Vtas
<1>2. /\ count["foreign"] \in Nat /\ count'["foreign"] = count["foreign"] + 1
      /\ count'["crash"] = count["crash"] /\ count'["fail"] = count["fail"]
  BY <1>0, <1>1 DEF TypeOK, Moves
<1>3. ASSUME NEW p \in Processes
      PROVE  Kept(p)'
  <2>1. /\ Kept(p) /\ proc[p] \in Procs /\ req[p] \in Requests /\ vta.counter \in Nat
    BY KnownKept
  <2>2. Budget(p)'
    BY <1>1, <1>2, <2>1 DEF Kept, Budget, Holds, Procs, Requests
  <2>3. Resealing(p)' /\ InTime(p)'
    BY <1>1, <1>2, <2>1 DEF Kept, Resealing, InTime, Holds, Got
  <2> QED
    BY <2>2, <2>3 DEF Kept
<1>4. SealedAgain'
  <2>1. count'["foreign"] < Attempts => count["foreign"] < Attempts
    BY <1>2, AttemptsAssumption
  <2> QED
    BY <1>1, <1>2, <2>1 DEF KeptInv, SealedAgain, Opens, Rewriting
<1> QED
  BY <1>3, <1>4 DEF KeptInv

(* A request that arrives leaves the others what is known of them: none of  *)
(* them has the lease that was, if it is taken, or is on its way to seal.   *)
LEMMA ApplyOther ==
  ASSUME KeptInv, IInv', NEW p \in Processes, Apply(p), NEW q \in Processes, q # p
  PROVE  Kept(q)'
<1> USE Bounds DEF Constants
<1>1. /\ Good(q) /\ Kept(q) /\ proc[q] \in Procs /\ req[q] \in Requests
      /\ now \in Nat /\ vta.counter \in Nat /\ vta.lease.version \in Nat
      /\ plan.clock[p] \in Nat /\ plan.clock[p] <= MaxSkew /\ IInv /\ Good(p)
      /\ req[p] \in Requests
  BY KnownKept
<1>2. /\ Waiting(p) /\ Accepts(req[p]) /\ UNCHANGED <<now, proc, plan, count>>
      /\ req'[q] = req[q]
  BY <1>1 DEF Apply
<1>3. /\ ~Got(q) /\ req[q].kind \notin Writes
      /\ Holds(q) => /\ req[p].kind = "take"
                     /\ proc[q].deadline < now + plan.clock[p] + Timeout
  <2>1. CASE req[p].kind = "take"
    BY <1>1, <1>2, <2>1, RunOut
  <2>2. CASE req[p].kind # "take"
    <3>1. vta.lease.who = p
      BY <1>1, <1>2, <2>2 DEF Good, KeepsItsOwn, Keeps, UnderTheLease, Shaped, Waiting,
         Accepts, OfLease, Writes, Requests, Kinds
    <3> QED
      BY <1>1, <2>2, <3>1, Others DEF Apart
  <2> QED
    BY <2>1, <2>2
<1>4. proc[q].key # Nobody => proc[q].at \notin {"held", "writing"}
  <2>1. proc[q].at # "writing"
    BY <1>1, <1>3 DEF Good, Shaped
  <2>2. ~(proc[q].at = "held" /\ proc[q].key # Nobody)
    BY <1>1, <1>3 DEF Kept, InTime, Procs
  <2> QED
    BY <2>1, <2>2
<1>5. (\A s \in Processes : plan.clock[s] <= 1) /\ proc[q].key # Nobody
        => proc[q].at # "renewing"
  <2> SUFFICES ASSUME \A s \in Processes : plan.clock[s] <= 1, proc[q].key # Nobody,
                      proc[q].at = "renewing"
               PROVE  FALSE
    OBVIOUS
  <2>1. Holds(q) /\ proc[q].deadline + Timeout > req[q].sent + Half
    BY <1>1, <1>3 DEF Kept, InTime
  <2>2. now <= req[q].sent + Timeout
    BY <1>1 DEF Good, Shaped, Timely, NoRequest
  <2>3. proc[q].deadline <= now + Timeout /\ plan.clock[p] <= 1
    BY <1>1, <1>3, <2>1 DEF Procs
  <2> QED
    BY <1>1, <2>1, <2>2, <2>3, RequestAssumption DEF Procs, Requests
<1>6. ~Holds(q)'
  <2>1. CASE Holds(q)
    <3>1. vta'.lease.version = vta.counter + 1
      <4>1. vta'.lease = [version |-> vta.counter + 1, who |-> p,
                          until |-> req[p].until, at |-> now]
        BY <1>1, <1>3, <2>1, NewLease
      <4> QED
        BY <4>1
    <3> QED
      BY <1>1, <1>2, <3>1 DEF Good, Versioned, Holds, Procs
  <2>2. CASE ~Holds(q)
    <3>1. vta'.lease.version \in {vta.lease.version, 0, vta.counter + 1}
      BY <1>1 DEF Apply, IInv, TypeOK, Vtas, NoLease
    <3> QED
      BY <1>1, <1>2, <2>2, <3>1 DEF Good, Versioned, Shaped, Holds, Procs
  <2> QED
    BY <2>1, <2>2
<1>7. ~Got(q)'
  BY <1>2, <1>3 DEF Got
<1>8. Budget(q)'
  BY <1>1, <1>2, <1>3, <1>6, <1>7 DEF Kept, Budget, Got, Good, Shaped
<1>9. Resealing(q)'
  BY <1>1, <1>2, <1>3, <1>6, <1>7 DEF Kept, Resealing, Good, Shaped, Writes
<1>10. InTime(q)'
  BY <1>1, <1>2, <1>3, <1>4, <1>5 DEF Kept, InTime, Good, Shaped
<1> QED
  BY <1>8, <1>9, <1>10 DEF Kept

LEMMA ApplyOwn ==
  ASSUME KeptInv, IInv', NEW p \in Processes, Apply(p)
  PROVE  Kept(p)'
<1> USE Bounds DEF Constants
<1> DEFINE n == vta.counter + 1
<1>1. /\ Good(p) /\ Kept(p) /\ proc[p] \in Procs /\ req[p] \in Requests /\ TypeOK
      /\ now \in Nat /\ vta.counter \in Nat /\ vta.lease.version \in Nat
      /\ count["foreign"] \in Nat
  BY KnownKept
<1>2. /\ req[p].took = 0 /\ Accepts(req[p]) /\ UNCHANGED <<now, proc, plan, count>>
      /\ req' = [req EXCEPT ![p].took = n] /\ vta'.counter = n
  BY <1>1 DEF Apply, Waiting, TypeOK, Vtas
<1>3. /\ req'[p].took = n /\ n # 0 /\ req'[p].kind = req[p].kind /\ req'[p].sent = req[p].sent
      /\ req'[p].key = req[p].key /\ req'[p].seal = req[p].seal
      /\ req'[p].expected = req[p].expected
  BY <1>1, <1>2 DEF TypeOK, Requests
<1>4. proc[p].at \in {"writing", "renewing"} => Holds(p)
  BY <1>1, <1>2 DEF Good, Shaped, UnderTheLease, Holds, Having, Accepts, OfLease, Kept,
     Resealing
<1>5. proc[p].at # "held"
  BY <1>1, <1>2 DEF Good, Shaped, Apply, Waiting
<1>6. OfLease(req[p]) => vta'.rec = vta.rec
  BY <1>1 DEF Apply, TypeOK, Vtas
<1>7. req[p].kind = "put" => vta'.rec[req[p].key] = [version |-> n, seal |-> req[p].seal]
  BY <1>1, <1>2 DEF Apply, OfLease, TypeOK, Vtas, Good, Shaped, Writes
<1>8. Budget(p)'
  BY <1>1, <1>2, <1>3, <1>4, <1>5 DEF Kept, Budget, Good, Versioned, Procs
<1>9. Resealing(p)'
  <2>1. proc[p].at = "renewing" => OfLease(req[p])
    BY <1>1 DEF Good, Shaped, OfLease
  <2> QED
    BY <1>1, <1>2, <1>3, <1>4, <1>5, <1>6, <1>7, <2>1 DEF Kept, Resealing
<1>10. InTime(p)'
  BY <1>1, <1>2, <1>3, <1>4, <1>5 DEF Kept, InTime, Got
<1> QED
  BY <1>8, <1>9, <1>10 DEF Kept

LEMMA ApplyKept ==
  ASSUME KeptInv, IInv', NEW p \in Processes, Apply(p)
  PROVE  KeptInv'
<1>1. ASSUME NEW q \in Processes
      PROVE  Kept(q)'
  BY <1>1, ApplyOther, ApplyOwn
<1>2. SealedAgain'
  <2>1. /\ TypeOK /\ Good(p) /\ req[p] \in Requests
    BY KnownKept
  <2>2. /\ UNCHANGED <<proc, plan, count>>
        /\ \A q \in Processes : req'[q].kind = req[q].kind /\ req'[q].key = req[q].key
    BY <2>1 DEF Apply, TypeOK, Requests
  <2>3. \A q \in Processes, k \in Secrets : Rewriting(q, k) => Rewriting(q, k)'
    BY <2>2 DEF Rewriting
  <2>4. ASSUME NEW k \in Secrets
        PROVE  \/ vta'.rec[k] = vta.rec[k] \/ vta'.rec[k].version = 0
               \/ req[p].kind = "put" /\ req[p].key = k
    <3>1. k \in Keys /\ vta.rec \in [Keys -> [version : Nat, seal : Nat]]
      BY <2>1 DEF TypeOK, Vtas, Keys
    <3>2. CASE OfLease(req[p])
      BY <2>1, <3>2 DEF Apply, TypeOK, Vtas
    <3>3. CASE ~OfLease(req[p])
      <4>1. req[p].kind \in {"put", "delete"}
        BY <2>1, <3>3 DEF Apply, Waiting, OfLease, Good, Shaped, Requests, Kinds
      <4>2. /\ req[p].key # k => vta'.rec[k] = vta.rec[k]
            /\ req[p].key = k /\ req[p].kind = "delete" => vta'.rec[k].version = 0
        BY <2>1, <3>1, <3>3 DEF Apply, TypeOK, Vtas, NoRecord
      <4> QED
        BY <4>1, <4>2
    <3> QED
      BY <3>2, <3>3
  <2>5. \A k \in Secrets : req[p].kind = "put" /\ req[p].key = k => Rewriting(p, k)'
    BY <2>2 DEF Rewriting
  <2>6. \A k \in Secrets : vta'.rec[k] = vta.rec[k] /\ Opens(k) => Opens(k)'
    BY DEF Opens
  <2>7. \A k \in Secrets : vta'.rec[k].version = 0 => Opens(k)'
    BY DEF Opens
  <2> HIDE DEF Rewriting, Opens
  <2> QED
    BY <2>2, <2>3, <2>4, <2>5, <2>6, <2>7 DEF KeptInv, SealedAgain
<1> QED
  BY <1>1, <1>2 DEF KeptInv

LEMMA InitiallyKept == Init => KeptInv
<1> SUFFICES ASSUME Init PROVE KeptInv
  OBVIOUS
<1>1. ASSUME NEW p \in Processes
      PROVE  Kept(p)
  BY <1>1 DEF Init, Idle, NoRequest, NoLease, Having, Writes, Kept, Budget, Resealing,
     InTime,
     Holds, Got
<1>2. SealedAgain
  BY DEF Init, SealedAgain, Opens, NoRecord, Keys
<1> QED
  BY <1>1, <1>2, Initially DEF KeptInv

LEMMA InductiveKept ==
  ASSUME KeptInv, [Next]_vars
  PROVE  KeptInv'
<1>1. IInv'
  BY Inductive DEF KeptInv
<1>2. CASE UNCHANGED vars
  BY <1>1, <1>2 DEF vars, KeptInv, Kept, Budget, Resealing, InTime, Holds, Got, SealedAgain,
     Opens, Rewriting
<1>3. CASE Tick
  BY <1>1, <1>3, TickKept
<1>4. CASE Foreign
  BY <1>1, <1>4, ForeignKept
<1>5. ASSUME NEW p \in Processes, Apply(p)
      PROVE  KeptInv'
  BY <1>1, <1>5, ApplyKept
<1>6. ASSUME NEW p \in Processes, Step(p), ~Apply(p)
      PROVE  KeptInv'
  <2>1. Alone(p)
    BY <1>6, BeginAlone, TakeAlone, LookAgainAlone, GiveUpAlone, GrantedAlone, RenewAlone,
       RenewedAlone, RanOutAlone, PutAlone, DeleteAlone, SealAgainAlone, WrittenAlone,
       ReleaseAlone, ReleasedAlone, RefusedAlone, FailsAlone, CrashAlone, LostAlone DEF Step
  <2> QED
    BY <1>1, <2>1, AloneStep
<1> QED
  BY <1>2, <1>3, <1>4, <1>5, <1>6 DEF Next

(* A secret that landed at another version than it was sealed to is being    *)
(* sealed again until it opens (put_sealed), unless somebody ignores the     *)
(* lease as often as it is tried, or a clock is ahead.                       *)
THEOREM Resealed == Spec => []SealedAgain
<1>1. Spec => []KeptInv
  BY InitiallyKept, InductiveKept, PTL DEF Spec
<1>2. KeptInv => SealedAgain
  BY DEF KeptInv
<1> QED
  BY <1>1, <1>2, PTL
=============================================================================
