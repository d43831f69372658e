------------------------------ MODULE RunSession ------------------------------
(***************************************************************************)
(* One verify-trust run that asks the Trust Registry through a mediator     *)
(* (verify-trust/src/registry.rs, mod mediated): the binding it picks, the  *)
(* fresh identity it mints, the session it opens for its first query, the   *)
(* relationship TSP wants before any query, the queries, one at a time, and *)
(* the end of the session with its keys.                                    *)
(*                                                                          *)
(* Any step may fail or time out.  What arrives at the run's mailbox may be *)
(* of anyone, late, repeated, broken or for another query.                  *)
(***************************************************************************)
EXTENDS Naturals, FiniteSets

CONSTANTS Queries,   \* the run's queries, each under a random id of its own
          Plans      \* the binding asked for, what the registry offers, and how
             \*   often each event may happen in a behaviour

Bindings == <<"tsp", "didcomm", "https">>     \* in the order of preference
Kinds == {"tsp", "didcomm", "https"}
Mediated == {"tsp", "didcomm"}
Events == {"fails", "foreign", "again", "refuses", "lost"}
Senders == {"registry", "mediator", "other", "unproven"}
Says == {"reply", "accept", "cancel", "invite", "problem", "broken"}
NoQuery == "none"

VARIABLES
  kind,     \* the binding of the run; "none": no binding, no run
  holder,   \* the query that holds the session's lock, and where it is
  session,  \* the session: keys in the resolver, open or not, failed, closed
  query,    \* each query: not asked yet, asked, answered or in error
  mailbox,  \* frames for the run's identity
  asked,    \* what the registry has in hand: queries, and the invite
  past,     \* history: what the registry said and allowed, the waits in vain
  plan, count

vars == <<kind, holder, session, query, mailbox, asked, past, plan, count>>

Frames == [from : Senders, says : Says, thread : Queries \cup {NoQuery}]
TypeOK ==
  /\ plan \in [selector : Kinds \cup {"auto"}, offers : SUBSET (Kinds \X {"did", "url"}),
               events : [Events -> Nat]]
  /\ kind \in Kinds \cup {"none"}
  /\ holder \in [by : Queries \cup {NoQuery},
                 at : {"free", "mint", "connect", "invite", "relate", "send", "wait"}]
  /\ session \in [keys : BOOLEAN, open : BOOLEAN, failed : BOOLEAN, closed : BOOLEAN]
  /\ query \in [Queries -> {"new", "answered", "error"}]
  /\ mailbox \subseteq Frames
  /\ asked \subseteq Queries \cup {"invite"}
  /\ past \in [said : SUBSET Queries, allowed : BOOLEAN, early : SUBSET Queries,
               vain : Nat]

-----------------------------------------------------------------------------
(* The binding: the one asked for, or the best that both sides speak; a     *)
(* mediator's endpoint is a DID, or the binding is passed over.  What fails *)
(* later is not tried over another.                                         *)
Usable(k) == <<k, "did">> \in plan.offers \/ (k = "https" /\ <<k, "url">> \in plan.offers)
SelectRoute ==
  LET best == {i \in DOMAIN Bindings :
                 /\ Usable(Bindings[i])
                 /\ \A j \in 1..(i - 1) : ~Usable(Bindings[j])} IN
  IF best = {} THEN "none" ELSE Bindings[CHOOSE i \in best : TRUE]
ChooseRoute ==
  IF plan.selector = "auto" THEN SelectRoute
  ELSE IF Usable(plan.selector) THEN plan.selector ELSE "none"

Free == [by |-> NoQuery, at |-> "free"]
Init ==
  /\ plan \in Plans /\ count = [e \in Events |-> 0]
  /\ kind = ChooseRoute
  /\ holder = Free
  /\ session = [keys |-> FALSE, open |-> FALSE, failed |-> FALSE, closed |-> FALSE]
  /\ query = [q \in Queries |-> "new"]
  /\ mailbox = {} /\ asked = {}
  /\ past = [said |-> {}, allowed |-> FALSE, early |-> {}, vain |-> 0]

Quiet == UNCHANGED <<plan, count>>
Happens(e) ==
  /\ count[e] < plan.events[e]
  /\ count' = [count EXCEPT ![e] = @ + 1]
  /\ UNCHANGED plan
Goes(step) == holder' = [holder EXCEPT !.at = step]

-----------------------------------------------------------------------------
(* Both ends of an exchange let the lock go.                                *)
Ends(outcome) == holder' = Free /\ query' = [query EXCEPT ![holder.by] = outcome]
Latched(s) == [s EXCEPT !.failed = TRUE]

(* Queries one at a time: a failed or a closed session is asked no more.    *)
Exchange(q) ==
  /\ kind \in Mediated /\ holder = Free /\ query[q] = "new" /\ Quiet
  /\ IF session.failed \/ session.closed
     THEN query' = [query EXCEPT ![q] = "error"] /\ UNCHANGED holder
     ELSE /\ holder' = [by |-> q, at |-> IF session.open THEN "send" ELSE "mint"]
          /\ UNCHANGED query
  /\ UNCHANGED <<kind, session, mailbox, asked, past>>

(* A fresh identity, its keys in the resolver.                              *)
Mint ==
  /\ holder.at = "mint" /\ Quiet
  /\ session' = [session EXCEPT !.keys = TRUE]
  /\ Goes("connect")
  /\ UNCHANGED <<kind, query, mailbox, asked, past>>

(* On any failure of the opening the keys go, and no other query tries.     *)
Forgets(s) == Latched([s EXCEPT !.keys = FALSE])
OpenFails ==
  /\ holder.at \in {"mint", "connect", "invite", "relate"} /\ Happens("fails")
  /\ session' = Forgets(session)
  /\ Ends("error")
  /\ UNCHANGED <<kind, mailbox, asked, past>>

AfterConnect == IF kind = "tsp" THEN "invite" ELSE "opened"
Opened == session' = [session EXCEPT !.open = TRUE] /\ Goes("send")
Connect ==
  /\ holder.at = "connect" /\ Quiet
  /\ IF AfterConnect = "opened" THEN Opened ELSE Goes("invite") /\ UNCHANGED session
  /\ UNCHANGED <<kind, query, mailbox, asked, past>>

(* TSP: the registry is asked for a relationship, and waited for.           *)
Invite ==
  /\ holder.at = "invite" /\ Quiet
  /\ asked' = asked \cup {"invite"}
  /\ Goes("relate")
  /\ UNCHANGED <<kind, session, query, mailbox, past>>

Relate(f) ==
  /\ holder.at = "relate" /\ f \in mailbox /\ Quiet
  /\ mailbox' = mailbox \ {f}
  /\ LET own == f.from = "registry" IN
     \/ own /\ f.says = "accept" /\ Opened /\ UNCHANGED query
     \/ own /\ f.says = "cancel" /\ session' = Forgets(session) /\ Ends("error")
     \/ /\ ~own \/ f.says \notin {"accept", "cancel"}
        /\ UNCHANGED <<holder, session, query>>
  /\ UNCHANGED <<kind, asked, past>>

-----------------------------------------------------------------------------
Send ==
  /\ holder.at = "send" /\ Quiet
  /\ asked' = asked \cup {holder.by}
  /\ past' = IF kind = "tsp" /\ ~past.allowed
             THEN [past EXCEPT !.early = @ \cup {holder.by}] ELSE past
  /\ Goes("wait")
  /\ UNCHANGED <<kind, session, query, mailbox>>

(* The mediator refuses the query, or the mailbox cannot be read.           *)
ExchangeFails ==
  /\ holder.at \in {"send", "wait"} /\ Happens("fails")
  /\ session' = Latched(session)
  /\ Ends("error")
  /\ UNCHANGED <<kind, mailbox, asked, past>>

(* Whose answer a frame is, by the sender that the envelope proves.         *)
AcceptsSender(f) == f.says = "reply" /\ f.from = "registry"
AcceptReply(f) == f.says = "reply" /\ f.from = "registry" /\ f.thread = holder.by
(* A problem report ends a DIDComm query, if it is the registry's or its    *)
(* mediator's; on TSP it proves nothing.                                    *)
Refusal(f) ==
  kind = "didcomm" /\ f.says = "problem" /\ f.from \in {"registry", "mediator"}

Receive(f) ==
  /\ holder.at = "wait" /\ f \in mailbox /\ Quiet
  /\ mailbox' = mailbox \ {f}
  /\ \/ AcceptReply(f) /\ Ends("answered") /\ UNCHANGED session
     \/ Refusal(f) /\ Ends("error") /\ session' = Latched(session)
     \/ ~AcceptReply(f) /\ ~Refusal(f) /\ UNCHANGED <<holder, session, query>>
  /\ UNCHANGED <<kind, asked, past>>

(* Half a minute without what is waited for: a poll ends by itself.         *)
PollEnds == TRUE
TimeOut ==
  /\ PollEnds
  /\ holder.at \in {"relate", "wait"} /\ Quiet
  /\ session' = IF holder.at = "relate" THEN Forgets(session) ELSE Latched(session)
  /\ Ends("error")
  /\ past' = [past EXCEPT !.vain = @ + 1]
  /\ UNCHANGED <<kind, mailbox, asked>>

(* The run ends, its queries answered or given up.                          *)
ClosedKeysKept(s) == [s EXCEPT !.closed = TRUE, !.open = FALSE]
Closed(s) ==
  IF s.open THEN [s EXCEPT !.closed = TRUE, !.open = FALSE, !.keys = FALSE]
  ELSE [s EXCEPT !.closed = TRUE]
Close ==
  /\ kind \in Mediated /\ holder = Free /\ ~session.closed /\ Quiet
  /\ session' = Closed(session)
  /\ UNCHANGED <<kind, holder, query, mailbox, asked, past>>

-----------------------------------------------------------------------------
(* The registry and its mediator.                                           *)

Registry(says, thread) == [from |-> "registry", says |-> says, thread |-> thread]
AnswerInvite ==
  /\ "invite" \in asked
  /\ \/ /\ Quiet /\ asked' = asked \ {"invite"}
        /\ mailbox' = mailbox \cup {Registry("accept", NoQuery)}
        /\ past' = [past EXCEPT !.allowed = TRUE]
     \/ /\ Happens("refuses") /\ asked' = asked \ {"invite"}
        /\ mailbox' = mailbox \cup {Registry("cancel", NoQuery)} /\ UNCHANGED past
     \/ /\ Happens("again")
        /\ mailbox' = mailbox \cup {Registry("invite", NoQuery)}
        /\ UNCHANGED <<asked, past>>
  /\ UNCHANGED <<kind, holder, session, query>>

(* A query gets its reply, once or again later, or a problem report.        *)
Replies(q) ==
  /\ mailbox' = mailbox \cup {Registry("reply", q)}
  /\ past' = [past EXCEPT !.said = @ \cup {q}]
Answer(q) ==
  /\ q \in asked
  /\ \/ Quiet /\ asked' = asked \ {q} /\ Replies(q)
     \/ Happens("again") /\ UNCHANGED asked /\ Replies(q)
     \/ /\ Happens("refuses") /\ asked' = asked \ {q} /\ UNCHANGED past
        /\ \E from \in {"registry", "mediator"} :
             mailbox' = mailbox \cup {[from |-> from, says |-> "problem", thread |-> NoQuery]}
  /\ UNCHANGED <<kind, holder, session, query>>

(* Frames of nobody that matters, and broken ones.                          *)
Foreign ==
  /\ kind \in Mediated /\ Happens("foreign")
  /\ \E f \in Frames :
       /\ f.from \in {"other", "unproven"} \/ f.says = "broken"
       /\ f.says = "reply" => f.thread # NoQuery
       /\ f.says # "reply" => f.thread = NoQuery
       /\ mailbox' = mailbox \cup {f}
  /\ UNCHANGED <<kind, holder, session, query, asked, past>>

Lose ==
  /\ Happens("lost")
  /\ \/ \E f \in mailbox : mailbox' = mailbox \ {f} /\ UNCHANGED asked
     \/ \E a \in asked : asked' = asked \ {a} /\ UNCHANGED mailbox
  /\ UNCHANGED <<kind, holder, session, query, past>>

-----------------------------------------------------------------------------
Run == \/ \E q \in Queries : Exchange(q)
       \/ Mint \/ Connect \/ Invite \/ Send \/ TimeOut
       \/ \E f \in mailbox : Relate(f) \/ Receive(f)
Next ==
  \/ Run \/ OpenFails \/ ExchangeFails \/ Close
  \/ AnswerInvite \/ (\E q \in Queries : Answer(q)) \/ Foreign \/ Lose

(* The run goes on by itself: its waits end.                                *)
Spec == Init /\ [][Next]_vars /\ WF_vars(Run)

-----------------------------------------------------------------------------
(* An answer that is believed is one that the registry gave to that very    *)
(* query, whatever else arrives (registry.rs:580 accept_reply).             *)
BelievesTheRegistry == \A q \in Queries : query[q] = "answered" => q \in past.said

(* The run's keys are in the resolver only while its session opens or is    *)
(* open: every failed opening and the end of the run drop them              *)
(* (registry.rs:763-766).                                                   *)
NoKeysLeft == session.keys => session.open \/ holder.at # "free"

(* Over TSP no query goes out ahead of the relationship that the registry   *)
(* accepted (registry.rs:1117-1119).                                        *)
AcceptedFirst == past.early = {}

(* A range with many signers waits in vain once, not once per signer        *)
(* (registry.rs:704-708).                                                   *)
WaitsOnceInVain == past.vain <= 1

(* Nobody but the registry, its mediator or the run itself ends a query: an *)
(* unproven "no" is ignored (registry.rs:1201-1203).                        *)
OnlyTheirNoEnds ==
  (\E q \in Queries : query[q] = "error")
    => past.vain + count["fails"] + count["refuses"] > 0 \/ session.closed

(* Every query ends, whoever keeps silent.                                  *)
EveryQueryEnds == []<>(kind \in Mediated => \A q \in Queries : query[q] # "new")
=============================================================================
