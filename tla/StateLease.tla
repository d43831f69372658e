------------------------------ MODULE StateLease ------------------------------
(* The writer's lease of VTA mode: a record of the context's app-state that  *)
(* every writer holds while it writes, so that the version a write will take *)
(* is known before it is made.  A secret is sealed to that version and opens *)
(* at no other.  Processes have clocks of their own; a request is answered   *)
(* or given up after Timeout, and one of a process that died may still       *)
(* arrive.                                                                   *)
(*                                                                           *)
(* A process is a run of the bridge's mirror or of one of its tools: one     *)
(* started again after a crash is another process, with another holder name. *)
(* Between two requests a process takes no time, unless it has nothing to do.*)
EXTENDS LeaseTimes

CONSTANTS
  MaxTime,          \* bound: how long a behaviour lasts
  Plans             \* how often each move happens

Keys == Secrets \cup Plain

(* A process takes the lease, writes, deletes; dies; a request fails; a      *)
(* writer that ignores the lease writes a record of its own.                 *)
Moves == {"take", "write", "delete", "crash", "fail", "foreign"}

VARIABLES
  now,     \* the time
  vta,     \* the VTA: the context's counter, the lease, the records
  proc,    \* the processes
  req,     \* the request each has under way
  plan, count

vars == <<now, vta, proc, req, plan, count>>

(* Version 0: no live record.                                                *)
NoLease == [version |-> 0, who |-> Nobody, until |-> 0, at |-> 0]
NoRecord == [version |-> 0, seal |-> 0]

NoRequest == [kind |-> "none", key |-> Nobody, expected |-> 0, until |-> 0,
              seal |-> 0, sent |-> 0, took |-> 0]
Idle == [at |-> "idle", began |-> 0, version |-> 0, deadline |-> 0, next |-> 0,
         key |-> Nobody, last |-> 0, tries |-> 0]

Init ==
  /\ now = 0
  /\ vta = [counter |-> 0, lease |-> NoLease, rec |-> [k \in Keys |-> NoRecord]]
  /\ proc = [p \in Processes |-> Idle]
  /\ req = [p \in Processes |-> NoRequest]
  /\ plan \in [moves : Plans, clock : Clocks]
  /\ count = [m \in Moves |-> 0]

Happens(m) ==
  /\ count[m] < plan.moves[m]
  /\ count' = [count EXCEPT ![m] = @ + 1]
  /\ UNCHANGED plan

Larger(m, n) == IF m >= n THEN m ELSE n

-----------------------------------------------------------------------------
(* Taking the lease: Lease::acquire.                                        *)

(* When it runs out for everyone but its holder: the holder's word, but no  *)
(* later than the VTA's own time of the write allows.                       *)
Expiry(l) == IF l.until <= l.at + TTL THEN l.until ELSE l.at + TTL

Wall(p, t) == t + plan.clock[p]

Free(p) ==
  \/ vta.lease.version = 0
  \/ Expiry(vta.lease) < Wall(p, proc[p].began)
  \/ vta.lease.who = p

Ask(kind, key, expected, until, seal) ==
  [kind |-> kind, key |-> key, expected |-> expected, until |-> until, seal |-> seal,
   sent |-> now, took |-> 0]

Send(p, r) == req' = [req EXCEPT ![p] = r]

(* The clock is read before the lease record is.                            *)
Begin(p) ==
  /\ proc[p].at = "idle"
  /\ Happens("take")
  /\ proc' = [proc EXCEPT ![p].at = "looking", ![p].began = now]
  /\ UNCHANGED <<now, vta, req>>

Take(p) ==
  /\ proc[p].at = "looking"
  /\ Free(p)
  /\ Send(p, Ask("take", Nobody, vta.lease.version, Wall(p, proc[p].began) + TTL, 0))
  /\ proc' = [proc EXCEPT ![p].at = "taking"]
  /\ UNCHANGED <<now, vta, plan, count>>

(* Another holds it: it is looked at again, until the wait is over.         *)
LookAgain(p) ==
  /\ proc[p].at = "looking"
  /\ ~Free(p)
  /\ proc' = [proc EXCEPT ![p].began = now]
  /\ UNCHANGED <<now, vta, req, plan, count>>

GiveUp(p) ==
  /\ proc[p].at = "looking"
  /\ proc' = [proc EXCEPT ![p] = Idle]
  /\ UNCHANGED <<now, vta, req, plan, count>>

Granted(p) ==
  /\ proc[p].at = "taking" /\ req[p].took # 0
  /\ proc' = [proc EXCEPT ![p].at = "held",
                          ![p].version = req[p].took,
                          ![p].deadline = req[p].sent + TTL,
                          ![p].next = req[p].took + 1]
  /\ req' = [req EXCEPT ![p] = NoRequest]
  /\ UNCHANGED <<now, vta, plan, count>>

-----------------------------------------------------------------------------
(* Keeping it: Lease::renew_if_due, before every write.                     *)

Left(p) == proc[p].deadline - now

(* (Mistake: a lease is renewed only when it has run out.)                  *)
LongEnoughBarely(p) == Left(p) > 0

LongEnough(p) == Left(p) > Half

Renew(p) ==
  /\ proc[p].at = "held"
  /\ ~LongEnough(p) /\ Left(p) > 0
  /\ Send(p, Ask("renew", Nobody, proc[p].version, Wall(p, now) + TTL, 0))
  /\ proc' = [proc EXCEPT ![p].at = "renewing"]
  /\ UNCHANGED <<now, vta, plan, count>>

Renewed(p) ==
  /\ proc[p].at = "renewing" /\ req[p].took # 0
  /\ proc' = [proc EXCEPT ![p].at = "held",
                          ![p].version = req[p].took,
                          ![p].deadline = req[p].sent + TTL,
                          ![p].next = Larger(@, req[p].took + 1)]
  /\ req' = [req EXCEPT ![p] = NoRequest]
  /\ UNCHANGED <<now, vta, plan, count>>

(* It ran out: the pass is over.                                            *)
RanOut(p) ==
  /\ proc[p].at = "held"
  /\ Left(p) <= 0
  /\ proc' = [proc EXCEPT ![p].at = "ending"]
  /\ UNCHANGED <<now, vta, req, plan, count>>

-----------------------------------------------------------------------------
(* Writing under it: put_sealed, Mirror::write, secret set, forget.         *)

(* A secret is sealed to the version the write will take.                   *)
Seal(p, k) == IF k \in Secrets THEN proc[p].next ELSE 0

Writing(p, r) ==
  /\ Send(p, r)
  /\ proc' = [proc EXCEPT ![p].at = "writing"]
  /\ UNCHANGED <<now, vta>>

Put(p, k) ==
  /\ proc[p].at = "held" /\ proc[p].key = Nobody
  /\ LongEnough(p)
  /\ Happens("write")
  /\ Writing(p, Ask("put", k, vta.rec[k].version, 0, Seal(p, k)))

Delete(p, k) ==
  /\ proc[p].at = "held" /\ proc[p].key = Nobody
  /\ LongEnough(p)
  /\ vta.rec[k].version # 0
  /\ Happens("delete")
  /\ Writing(p, Ask("delete", k, vta.rec[k].version, 0, 0))

(* It landed at another version: sealed again, over what it wrote.          *)
SealAgain(p) ==
  /\ proc[p].at = "held" /\ proc[p].key # Nobody
  /\ LongEnough(p)
  /\ Writing(p, Ask("put", proc[p].key, proc[p].last, 0, Seal(p, proc[p].key)))
  /\ UNCHANGED <<plan, count>>

Unpredicted(r) == r.kind = "put" /\ r.key \in Secrets /\ r.took # r.seal

Written(p) ==
  /\ proc[p].at = "writing" /\ req[p].took # 0
  /\ LET r == req[p]
         tried == proc[p].tries + 1
         again == Unpredicted(r) /\ tried < Attempts
     IN  proc' = [proc EXCEPT
           ![p].at = IF Unpredicted(r) /\ ~again THEN "ending" ELSE "held",
           ![p].next = Larger(@, r.took + 1),
           ![p].key = IF again THEN r.key ELSE Nobody,
           ![p].last = IF again THEN r.took ELSE 0,
           ![p].tries = IF again THEN tried ELSE 0]
  /\ req' = [req EXCEPT ![p] = NoRequest]
  /\ UNCHANGED <<now, vta, plan, count>>

(* Lease::release, at the end of a pass or after what failed in it.         *)
Release(p) ==
  /\ \/ proc[p].at = "ending"
     \/ proc[p].at = "held" /\ proc[p].key = Nobody
  /\ Send(p, Ask("release", Nobody, proc[p].version, 0, 0))
  /\ proc' = [proc EXCEPT ![p] = [Idle EXCEPT !.at = "releasing"]]
  /\ UNCHANGED <<now, vta, plan, count>>

Released(p) ==
  /\ proc[p].at = "releasing" /\ req[p].took # 0
  /\ proc' = [proc EXCEPT ![p].at = "idle"]
  /\ req' = [req EXCEPT ![p] = NoRequest]
  /\ UNCHANGED <<now, vta, plan, count>>

-----------------------------------------------------------------------------
(* The VTA, and what becomes of a request.                                  *)

OfLease(r) == r.kind \in {"take", "renew", "release"}
Accepts(r) ==
  r.expected = IF OfLease(r) THEN vta.lease.version ELSE vta.rec[r.key].version

Waiting(p) == req[p] # NoRequest /\ req[p].took = 0

Apply(p) ==
  /\ Waiting(p)
  /\ Accepts(req[p])
  /\ LET r == req[p]
         n == vta.counter + 1
         lease == IF r.kind = "release" THEN NoLease
                  ELSE [version |-> n, who |-> p, until |-> r.until, at |-> now]
         rec == IF r.kind = "delete" THEN NoRecord ELSE [version |-> n, seal |-> r.seal]
     IN  /\ vta' = IF OfLease(r) THEN [vta EXCEPT !.counter = n, !.lease = lease]
                   ELSE [vta EXCEPT !.counter = n, !.rec[r.key] = rec]
         /\ req' = [req EXCEPT ![p].took = n]
  /\ UNCHANGED <<now, proc, plan, count>>

(* Where a request that failed leaves the process: the lease is looked at   *)
(* again when it was not got; a pass that failed still releases it.         *)
Fallen(p, refused) ==
  /\ proc' = [proc EXCEPT ![p] =
                IF proc[p].at \in {"renewing", "writing"}
                THEN [@ EXCEPT !.at = "ending", !.key = Nobody, !.last = 0, !.tries = 0]
                ELSE IF proc[p].at = "taking" /\ refused
                THEN [Idle EXCEPT !.at = "looking", !.began = now]
                ELSE Idle]
  /\ req' = [req EXCEPT ![p] = NoRequest]
  /\ UNCHANGED <<now, vta>>

(* The version is not the one expected.                                     *)
Refused(p) ==
  /\ Waiting(p) /\ proc[p].at # "dead"
  /\ ~Accepts(req[p])
  /\ Fallen(p, TRUE)
  /\ UNCHANGED <<plan, count>>

(* The request or its answer is lost, or it takes too long.                 *)
Fails(p) ==
  /\ req[p] # NoRequest /\ proc[p].at # "dead"
  /\ Happens("fail")
  /\ Fallen(p, FALSE)

(* A process dies; what it sent may still arrive.                           *)
Crash(p) ==
  /\ proc[p].at \notin {"idle", "dead"}
  /\ Happens("crash")
  /\ proc' = [proc EXCEPT ![p] = [Idle EXCEPT !.at = "dead"]]
  /\ UNCHANGED <<now, vta, req>>

Lost(p) ==
  /\ proc[p].at = "dead" /\ req[p] # NoRequest
  /\ req' = [req EXCEPT ![p] = NoRequest]
  /\ UNCHANGED <<now, vta, proc, plan, count>>

Foreign ==
  /\ Happens("foreign")
  /\ vta' = [vta EXCEPT !.counter = @ + 1]
  /\ UNCHANGED <<now, proc, req>>

(* Time passes, but no request outlasts its timeout, and a secret that has  *)
(* to be sealed again is so at once.                                        *)
Tick ==
  /\ now < MaxTime
  /\ \A p \in Processes :
       /\ req[p] # NoRequest => now < req[p].sent + Timeout
       /\ proc[p].at = "looking" => now < proc[p].began + Timeout
       /\ proc[p].at = "held" => proc[p].key = Nobody
  /\ now' = now + 1
  /\ UNCHANGED <<vta, proc, req, plan, count>>

Step(p) ==
  \/ Begin(p) \/ Take(p) \/ LookAgain(p) \/ GiveUp(p) \/ Granted(p)
  \/ Renew(p) \/ Renewed(p) \/ RanOut(p)
  \/ \E k \in Keys : Put(p, k) \/ Delete(p, k)
  \/ SealAgain(p) \/ Written(p) \/ Release(p) \/ Released(p)
  \/ Apply(p) \/ Refused(p) \/ Fails(p) \/ Crash(p) \/ Lost(p)

Next == (\E p \in Processes : Step(p)) \/ Foreign \/ Tick

Spec == Init /\ [][Next]_vars

-----------------------------------------------------------------------------
Kinds == {"none", "take", "renew", "put", "delete", "release"}
Requests == [kind : Kinds, key : Keys \cup {Nobody}, expected : Nat, until : Int,
             seal : Nat, sent : Nat, took : Nat]
Places == {"idle", "looking", "taking", "held", "renewing", "writing", "ending",
           "releasing", "dead"}

Vtas == [counter : Nat,
         lease : [version : Nat, who : Processes \cup {Nobody}, until : Int, at : Nat],
         rec : [Keys -> [version : Nat, seal : Nat]]]
Procs == [at : Places, began : Nat, version : Nat, deadline : Nat, next : Nat,
          key : Keys \cup {Nobody}, last : Nat, tries : Nat]

(* The VTA's copy, the processes and their requests are well typed.          *)
TypeOK ==
  /\ now \in Nat
  /\ vta \in Vtas
  /\ proc \in [Processes -> Procs]
  /\ req \in [Processes -> Requests]
  /\ plan \in [moves : Plans, clock : Clocks]
  /\ count \in [Moves -> Nat]

Underway(p) == Waiting(p) /\ req[p].kind \in {"put", "delete"}

(* "One writer at a time": never are two record writes on their way to the  *)
(* VTA, however late they arrive, whoever died and whatever failed.         *)
OneWriter == \A p, q \in Processes : Underway(p) /\ Underway(q) => p = q

Opens(k) == vta.rec[k].version = 0 \/ vta.rec[k].seal = vta.rec[k].version

(* "Sealed once and never left live and unopenable": at every moment every  *)
(* secret is sealed to the version it is at, unless somebody ignores the    *)
(* lease.                                                                   *)
SecretsOpen == count["foreign"] = 0 => \A k \in Secrets : Opens(k)

Rewriting(p, k) ==
  \/ req[p].kind = "put" /\ req[p].key = k
  \/ proc[p].at \in {"held", "renewing"} /\ proc[p].key = k

(* And if somebody does, less often than it is tried: a secret that does    *)
(* not open is being sealed again, and nobody has been told it is stored.   *)
(* No clock is ahead by more than a second: with one that is, another may   *)
(* take the lease while it is renewed between two attempts.                 *)
SealedAgain ==
  /\ count["foreign"] < Attempts /\ count["crash"] = 0 /\ count["fail"] = 0
  /\ \A p \in Processes : plan.clock[p] <= 1
  => \A k \in Secrets : Opens(k) \/ \E p \in Processes : Rewriting(p, k)
=============================================================================
