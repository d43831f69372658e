--------------------------- MODULE RegistryAnswers ---------------------------
(***************************************************************************)
(* What checks learn from the Trust Registry: the queries of one check, one *)
(* signer after another (verify-trust/src/lib.rs query_registry), through   *)
(* the transport that gives up after its first failure                      *)
(* (verify-trust/src/registry.rs ChannelTransport), over the mediator       *)
(* session the bridge shares with the VTC                                   *)
(* (vgi-bridge/src/registry_channel.rs).                                    *)
(*                                                                          *)
(* Checks run side by side.  A query has an id of its own; replies come     *)
(* late, twice, over the other transport, or not at all, and the inbound    *)
(* task hands one over in two steps, between which the wait may end.  The   *)
(* registry changes its mind at any moment, and may be the VTC, which sends *)
(* jobs.                                                                    *)
(***************************************************************************)
EXTENDS Naturals, FiniteSets

CONSTANTS Signers,   \* whom a check asks about
          Checks,
          MaxIds,    \* bounds the queries
          Plans      \* what each check asks, over which transport, and how often
             \*   each move may happen in a behaviour

Moves == {"change", "again", "astray", "stray", "job", "lose", "down", "early", "abort"}
Vias == {"tsp", "didcomm"}
Resources == {"repo", "org"}     \* the primary resource, and the fallback
Says == {"yes", "no", "unable"}
Decisions == {"granted", "denied", "unavailable"}
Ids == 1..MaxIds
None == 0

VARIABLES
  registry,  \* whom it authorises for what, and the queries it has in hand
  checks,    \* the checks
  pending,   \* RegistryReplies: the waiters
  handing,   \* replies whose waiter was taken out, not yet handed over
  mail,      \* documents under way to the bridge
  jobs,      \* what went on to the job path, and whether it answered a query
             \*   then in flight
  past,      \* history: by check, what the registry authorised at some moment
             \*   of it, and at every moment; what it said to which query
  plan, count

vars == <<registry, checks, pending, handing, mail, jobs, past, plan, count>>

Grants == Signers \X Resources
Requests == [id : Ids, via : Vias, signer : Signers, on : Resources]
Documents == [from : {"registry", "other", "unproven"}, thread : 0..MaxIds, via : Vias,
              says : Says]
TypeOK ==
  /\ plan \in [asks : [Checks -> SUBSET Signers], vias : SUBSET Vias, moves : [Moves -> Nat]]
  /\ registry \in [grants : SUBSET Grants, hand : SUBSET Requests, next : 1..(MaxIds + 1)]
  /\ \A c \in Checks : checks[c] \in
       [at : {"ask", "send", "wait", "done", "gone"}, todo : SUBSET Signers, id : 0..MaxIds,
        on : Resources, signer : Signers \cup {None}, got : Says \cup {"none"},
        failed : BOOLEAN, via : Vias, found : [Signers -> Decisions \cup {"none"}]]
  /\ pending \subseteq [id : Ids, via : Vias]
  /\ handing \subseteq Documents /\ mail \subseteq Documents
  /\ jobs \subseteq [doc : Documents, live : BOOLEAN]
  /\ past \in [some : [Checks -> SUBSET Grants], always : [Checks -> SUBSET Grants],
               said : SUBSET (Ids \X Vias \X Says)]

Init ==
  /\ plan \in Plans /\ count = [m \in Moves |-> 0]
  /\ \E grants \in SUBSET ((UNION {plan.asks[c] : c \in Checks}) \X Resources),
        via \in plan.vias :
       /\ registry = [grants |-> grants, hand |-> {}, next |-> 1]
       /\ checks = [c \in Checks |->
            [at |-> "ask", todo |-> plan.asks[c], id |-> None, on |-> "repo",
             signer |-> None, got |-> "none", failed |-> FALSE, via |-> via,
             found |-> [s \in Signers |-> "none"]]]
       /\ past = [some |-> [c \in Checks |-> grants], always |-> [c \in Checks |-> grants],
                  said |-> {}]
  /\ pending = {} /\ handing = {} /\ mail = {} /\ jobs = {}

Happens(m) ==
  /\ count[m] < plan.moves[m]
  /\ count' = [count EXCEPT ![m] = @ + 1]
  /\ UNCHANGED plan
Quiet == UNCHANGED <<plan, count>>

-----------------------------------------------------------------------------
(* The registry, and the way between.                                       *)

Change(g) ==
  /\ Happens("change")
  /\ LET grants == IF g \in registry.grants THEN registry.grants \ {g}
                   ELSE registry.grants \cup {g} IN
     /\ registry' = [registry EXCEPT !.grants = grants]
     /\ past' = [past EXCEPT !.some = [c \in Checks |-> @[c] \cup grants],
                             !.always = [c \in Checks |-> @[c] \cap grants]]
  /\ UNCHANGED <<checks, pending, handing, mail, jobs>>

(* An answer: once, or again later; on the query's transport, or not.       *)
Answer(q) ==
  /\ q \in registry.hand
  /\ \E says \in {IF <<q.signer, q.on>> \in registry.grants THEN "yes" ELSE "no", "unable"},
       via \in Vias, again \in BOOLEAN :
       /\ IF via # q.via THEN ~again /\ Happens("astray")
          ELSE IF again THEN Happens("again") ELSE Quiet
       /\ mail' = mail \cup {[from |-> "registry", thread |-> q.id, via |-> via, says |-> says]}
       /\ past' = [past EXCEPT !.said = @ \cup {<<q.id, via, says>>}]
       /\ registry' = IF again THEN registry ELSE [registry EXCEPT !.hand = @ \ {q}]
  /\ UNCHANGED <<checks, pending, handing, jobs>>

(* Documents of others, under a thread of the bridge's; and a job of the    *)
(* registry that is the VTC.                                                *)
Stray(from, id) ==
  /\ from # "registry" /\ id \in 1..(registry.next - 1)
  /\ Happens("stray")
  /\ \E via \in Vias :
       mail' = mail \cup {[from |-> from, thread |-> id, via |-> via, says |-> "yes"]}
  /\ UNCHANGED <<registry, checks, pending, handing, jobs, past>>
Job ==
  /\ Happens("job")
  /\ \E via \in Vias :
       mail' = mail \cup {[from |-> "registry", thread |-> None, via |-> via, says |-> "yes"]}
  /\ UNCHANGED <<registry, checks, pending, handing, jobs, past>>
Lose(m) ==
  /\ m \in mail /\ Happens("lose")
  /\ mail' = mail \ {m}
  /\ UNCHANGED <<registry, checks, pending, handing, jobs, past>>

-----------------------------------------------------------------------------
(* The inbound task.                                                        *)

IsFromRegistry(m, w) == m.from = "registry" /\ w.id = m.thread
(* The waiter that a document is for, by whom the transport proved.         *)
IsFor(m, w) == m.from = "registry" /\ w.id = m.thread /\ w.via = m.via

(* Whether it answers a query in flight that heard nothing.                 *)
Live(m) ==
  /\ m.from = "registry"
  /\ \E c \in Checks :
       /\ checks[c].at \in {"send", "wait"} /\ checks[c].id = m.thread
       /\ checks[c].via = m.via /\ checks[c].got = "none"
       /\ \A h \in handing : h.thread # m.thread

Route(m) ==
  /\ m \in mail /\ Quiet
  /\ mail' = mail \ {m}
  /\ LET for == {w \in pending : IsFor(m, w)} IN
     /\ pending' = pending \ for
     /\ IF for # {} THEN handing' = handing \cup {m} /\ UNCHANGED jobs
        ELSE jobs' = jobs \cup {[doc |-> m, live |-> Live(m)]} /\ UNCHANGED handing
  /\ UNCHANGED <<registry, checks, past>>

(* A wait that ended meanwhile leaves the reply unread.                     *)
Hand(m) ==
  /\ m \in handing /\ Quiet
  /\ handing' = handing \ {m}
  /\ checks' = [c \in Checks |->
       IF checks[c].at \in {"send", "wait"} /\ checks[c].id = m.thread
       THEN [checks[c] EXCEPT !.got = m.says] ELSE checks[c]]
  /\ UNCHANGED <<registry, pending, mail, jobs, past>>

-----------------------------------------------------------------------------
(* A check.                                                                 *)

(* A check that decided on its signer goes on to the next, or is done.      *)
Next1(k) == IF k.todo = {} THEN [k EXCEPT !.at = "done"] ELSE [k EXCEPT !.at = "ask"]
Decided(k, d) ==
  Next1([k EXCEPT !.found[k.signer] = d, !.signer = None, !.on = "repo", !.got = "none"])
GivesUp(k) == Decided([k EXCEPT !.failed = TRUE], "unavailable")
(* After an answer: the broader resource is asked if this one did not grant.*)
Answered(k) ==
  IF k.got = "yes" THEN Decided(k, "granted")
  ELSE IF k.got = "unable" THEN Decided(k, "unavailable")
  ELSE IF k.on = "repo" THEN [k EXCEPT !.on = "org", !.at = "ask", !.got = "none"]
  ELSE Decided(k, "denied")

Becomes(c, k) == checks' = [checks EXCEPT ![c] = k]
Unregister(c) == pending' = {w \in pending : w.id # checks[c].id}

(* Once one query failed, the others of the check fail unasked.             *)
Refuses(k) == k.failed
Ask(c) ==
  LET k == checks[c] IN
  /\ k.at = "ask" /\ Quiet
  /\ IF k.signer = None /\ k.todo = {} THEN Becomes(c, Next1(k)) /\ UNCHANGED <<registry, pending>>
     ELSE \E s \in (IF k.signer = None THEN k.todo ELSE {k.signer}) :
       LET on == [k EXCEPT !.signer = s, !.todo = @ \ {s}] IN
       IF Refuses(k) THEN Becomes(c, GivesUp(on)) /\ UNCHANGED <<registry, pending>>
       ELSE /\ registry.next \in Ids
            /\ Becomes(c, [on EXCEPT !.at = "send", !.id = registry.next])
            /\ registry' = [registry EXCEPT !.next = @ + 1]
            /\ pending' = pending \cup {[id |-> registry.next, via |-> k.via]}
  /\ UNCHANGED <<handing, mail, jobs, past>>

Query(k) == [id |-> k.id, via |-> k.via, signer |-> k.signer, on |-> k.on]
Send(c) ==
  LET k == checks[c] IN
  /\ k.at = "send" /\ Quiet
  /\ registry' = [registry EXCEPT !.hand = @ \cup {Query(k)}]
  /\ Becomes(c, [k EXCEPT !.at = "wait"])
  /\ UNCHANGED <<pending, handing, mail, jobs, past>>

(* No session, or an error that does not say whether the query went out.    *)
SendFails(c) ==
  LET k == checks[c] IN
  /\ k.at = "send" /\ Happens("down")
  /\ \E went \in BOOLEAN :
       registry' = [registry EXCEPT !.hand = IF went THEN @ \cup {Query(k)} ELSE @]
  /\ Becomes(c, GivesUp(k))
  /\ Unregister(c)
  /\ UNCHANGED <<handing, mail, jobs, past>>

Hear(c) ==
  /\ checks[c].at = "wait" /\ checks[c].got # "none" /\ Quiet
  /\ Becomes(c, Answered(checks[c]))
  /\ Unregister(c)
  /\ UNCHANGED <<registry, handing, mail, jobs, past>>

(* The wait is over: nothing is under way, or what is comes too late.       *)
Coming(c) ==
  \E m \in mail \cup handing : m.thread = checks[c].id
TimeOut(c) ==
  /\ checks[c].at = "wait" /\ checks[c].got = "none"
  /\ Becomes(c, GivesUp(checks[c]))
  /\ Unregister(c)
  /\ IF Coming(c) THEN Happens("early") ELSE Quiet
  /\ UNCHANGED <<registry, handing, mail, jobs, past>>

(* The check is dropped, and with it the wait.                              *)
Abort(c) ==
  /\ checks[c].at \in {"send", "wait"} /\ Happens("abort")
  /\ Becomes(c, [checks[c] EXCEPT !.at = "gone"])
  /\ Unregister(c)
  /\ UNCHANGED <<registry, handing, mail, jobs, past>>

-----------------------------------------------------------------------------
Work == \/ \E c \in Checks : Ask(c) \/ Send(c) \/ Hear(c) \/ TimeOut(c)
        \/ \E m \in mail : Route(m)
        \/ \E m \in handing : Hand(m)
Next ==
  \/ Work
  \/ \E c \in Checks : SendFails(c) \/ Abort(c)
  \/ \E g \in Grants : Change(g)
  \/ \E q \in registry.hand : Answer(q)
  \/ \E from \in {"other", "unproven"}, id \in Ids : Stray(from, id)
  \/ Job \/ \E m \in mail : Lose(m)

(* The bridge's tasks go on; the registry need not answer, and a wait ends. *)
Spec == Init /\ [][Next]_vars /\ WF_vars(Work)

-----------------------------------------------------------------------------
(* A signer passes only if the registry authorised it at some moment of the *)
(* check: no lost, late, repeated or foreign document is taken for that     *)
(* (registry_channel.rs:87 route, lib.rs:1276).                             *)
FailsClosed ==
  \A c \in Checks, s \in Signers :
    checks[c].found[s] = "granted" => \E r \in Resources : <<s, r>> \in past.some[c]

(* A signer is denied only by the registry: silence, a timeout or a lost    *)
(* session is never a denial (lib.rs:1276-1300), so one that it authorised  *)
(* under one resource throughout is not denied.                             *)
OnlyTheRegistryDenies ==
  \A c \in Checks, s \in Signers :
    checks[c].found[s] = "denied" => \A r \in Resources : <<s, r>> \notin past.always[c]

(* A check reads what the registry said to that very query, over the        *)
(* transport it went out on (registry_channel.rs:102).                      *)
AnswersAreItsOwn ==
  \A c \in Checks :
    checks[c].got # "none" => <<checks[c].id, checks[c].via, checks[c].got>> \in past.said

(* A reply that arrives while its query waits for one is never passed on as *)
(* if it were a job, however fast it is (registry_channel.rs:206 `register  *)
(* before sending').                                                        *)
PromptIsTaken == \A j \in jobs : ~j.live

(* Nothing is left waiting for by nobody: every waiter is of a query under  *)
(* way (registry_channel.rs:127 Drop).                                      *)
NoneIsLeft ==
  \A w \in pending : \E c \in Checks :
    checks[c].at \in {"send", "wait"} /\ checks[c].id = w.id

(* Every document the VTC sends gets to the job path, also where the VTC is *)
(* the registry (registry_channel.rs:87).                                   *)
OnlyRepliesAreTaken == \A m \in handing : m.thread # None

(* After its first failure a check asks nothing more (registry.rs:286).     *)
AsksNoMore ==
  \A c \in Checks : checks[c].failed => checks'[c].id = checks[c].id

(* Every check ends, though the registry never says a word.                 *)
Ended(c) == checks[c].at \in {"done", "gone"}
EveryCheckEnds == []<>(\A c \in Checks : Ended(c))
=============================================================================
