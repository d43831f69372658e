------------------------------ MODULE Documents ------------------------------
(* Which of the VTC's documents the bridge acts on.  Each is signed with a   *)
(* key of the VTC's and dated; the network may deliver it at any time, any   *)
(* number of times.  The bridge takes it while it is fresh, once its proof   *)
(* verifies under the VTC's DID document, which is cached, and resolved anew *)
(* when a proof fails, though not too often.  A job acts if the ledger does  *)
(* not hold it; a finished one is kept for a time.                           *)
(*                                                                           *)
(* Documents are handled one at a time, and the DID document lists one key.  *)
EXTENDS DocumentTimes, FiniteSets

CONSTANTS
  First,            \* the VTC's first key
  MaxTime, MaxDocs, \* bounds: how long a behaviour lasts, documents signed
  Plans             \* how often each move happens

(* The VTC drops its key for a new one; another of its hosts signs with the *)
(* key it had; its DID document cannot be had; the bridge dies.             *)
Moves == {"rotate", "old", "down", "crash"}

VARIABLES
  now,       \* the time
  vtc,       \* its key, when it dropped each other, the results it holds
  sent,      \* the documents there are
  resolver,  \* the cached key, until when; when a failed proof last had it resolved
  ledger,    \* the bridge's record of each job
  doing,     \* the document being handled
  told,      \* what happened to each job; when the key was last fetched anew
  plan, count

vars == <<now, vtc, sent, resolver, ledger, doing, told, plan, count>>

Docs == [job : Jobs, key : VtcKeys, at : Nat]
NoDoc == [job |-> Nobody, key |-> Nobody, at |-> 0]
Idle == [at |-> "idle", doc |-> NoDoc, since |-> 0, passed |-> 0]
NoJob == [state |-> "none", at |-> 0, acked |-> FALSE]
Never == -1

Init ==
  /\ now = 0
  /\ vtc = [key |-> First, dropped |-> [k \in VtcKeys |-> Never],
            holds |-> [j \in Jobs |-> FALSE]]
  /\ sent = {}
  /\ resolver = [key |-> Nobody, until |-> 0, last |-> -Pause]
  /\ ledger = [j \in Jobs |-> NoJob]
  /\ doing = Idle
  /\ told = [ran |-> [j \in Jobs |-> 0], late |-> [j \in Jobs |-> FALSE], again |-> -Pause]
  /\ plan \in [moves : Plans, ahead : 0..Skew]
  /\ count = [m \in Moves |-> 0]

Happens(m) ==
  /\ count[m] < plan.moves[m]
  /\ count' = [count EXCEPT ![m] = @ + 1]
  /\ UNCHANGED plan

-----------------------------------------------------------------------------
(* The VTC.                                                                 *)

(* A job is sent again, as a document of its own, while its result is not   *)
(* there.                                                                   *)
Sign(j, k) ==
  /\ ~vtc.holds[j] /\ Cardinality(sent) < MaxDocs
  /\ sent' = sent \cup {[job |-> j, key |-> k, at |-> now + plan.ahead]}
  /\ UNCHANGED <<now, vtc, resolver, ledger, doing, told>>

Issue(j) == Sign(j, vtc.key) /\ UNCHANGED <<plan, count>>
IssueOld(j, k) == vtc.dropped[k] # Never /\ Sign(j, k) /\ Happens("old")

Rotate(k) ==
  /\ Happens("rotate")
  /\ k # vtc.key /\ vtc.dropped[k] = Never
  /\ vtc' = [vtc EXCEPT !.key = k, !.dropped[vtc.key] = now]
  /\ UNCHANGED <<now, sent, resolver, ledger, doing, told>>

(* A result reaches it; late, when the job's record may go before the last  *)
(* of its documents is too old.                                             *)
TakeResult(j) ==
  /\ ledger[j].state = "finished" /\ ~ledger[j].acked
  /\ vtc' = [vtc EXCEPT !.holds[j] = TRUE]
  /\ told' = [told EXCEPT !.late[j] =
                @ \/ (~vtc.holds[j] /\ now + Skew + MaxAge + Slow > ledger[j].at + Retention)]
  /\ UNCHANGED <<now, sent, resolver, ledger, doing, plan, count>>

-----------------------------------------------------------------------------
(* A document: DocChecker::check and on_job, from await to await.           *)
Fresh(d) == d.at <= now + Skew /\ now <= d.at + MaxAge

Receive(d) ==
  /\ doing.at = "idle" /\ d \in sent /\ Fresh(d)
  /\ doing' = [Idle EXCEPT !.at = "proof", !.doc = d, !.since = now]
  /\ UNCHANGED <<now, vtc, sent, resolver, ledger, told, plan, count>>

(* The VTC's DID document: what was resolved before while that is good, or  *)
(* what its host says now.                                                  *)
Cached == resolver.key # Nobody /\ now < resolver.until
Resolved == [resolver EXCEPT !.key = vtc.key, !.until = now + Lifetime]
Believed == IF Cached THEN resolver ELSE Resolved

Pass == doing' = [doing EXCEPT !.at = "job", !.passed = now]
Refuse == doing' = Idle

MayResolveAgain == now - resolver.last >= Pause

(* Mistake: every failure counts as a resolution.                           *)
DoubtAll(r) ==
  IF MayResolveAgain
  THEN /\ resolver' = [r EXCEPT !.key = Nobody, !.last = now]
       /\ doing' = [doing EXCEPT !.at = "again"]
  ELSE resolver' = [r EXCEPT !.last = now] /\ Refuse

(* A proof that fails is tried again on a document resolved anew, unless    *)
(* one was a moment ago.                                                    *)
Doubt(r) ==
  IF MayResolveAgain
  THEN /\ resolver' = [r EXCEPT !.key = Nobody, !.last = now]
       /\ doing' = [doing EXCEPT !.at = "again"]
  ELSE resolver' = r /\ Refuse

Prove ==
  /\ doing.at = "proof"
  /\ \/ /\ IF Believed.key = doing.doc.key THEN resolver' = Believed /\ Pass ELSE Doubt(Believed)
        /\ UNCHANGED <<plan, count>>
     \/ ~Cached /\ Happens("down") /\ Doubt(resolver)
  /\ UNCHANGED <<now, vtc, sent, ledger, told>>

ProveAgain ==
  /\ doing.at = "again"
  /\ told' = [told EXCEPT !.again = now]
  /\ \/ /\ resolver' = Resolved
        /\ IF vtc.key = doing.doc.key THEN Pass ELSE Refuse
        /\ UNCHANGED <<plan, count>>
     \/ Happens("down") /\ Refuse /\ UNCHANGED resolver
  /\ UNCHANGED <<now, vtc, sent, ledger>>

(* A job the ledger holds is answered from it, its result sent once more.   *)
Act ==
  /\ doing.at = "job"
  /\ LET j == doing.doc.job IN
       IF ledger[j].state = "none"
       THEN /\ ledger' = [ledger EXCEPT ![j] = [NoJob EXCEPT !.state = "open"]]
            /\ told' = [told EXCEPT !.ran[j] = @ + 1]
       ELSE /\ ledger' = [ledger EXCEPT ![j].acked = FALSE]
            /\ UNCHANGED told
  /\ doing' = Idle
  /\ UNCHANGED <<now, vtc, sent, resolver, plan, count>>

-----------------------------------------------------------------------------
(* The job, and the record of it.                                           *)
Finish(j) ==
  /\ ledger[j].state = "open"
  /\ ledger' = [ledger EXCEPT ![j] = [NoJob EXCEPT !.state = "finished", !.at = now]]
  /\ UNCHANGED <<now, vtc, sent, resolver, doing, told, plan, count>>

Acknowledge(j) ==
  /\ ledger[j].state = "finished" /\ vtc.holds[j]
  /\ ledger' = [ledger EXCEPT ![j].acked = TRUE]
  /\ UNCHANGED <<now, vtc, sent, resolver, doing, told, plan, count>>

(* Mistake: when all its documents known of are too old.                    *)
OldAsDocuments(j) == now - ledger[j].at > MaxAge

(* Maintenance: gone when finished long ago, with no result to be sent.     *)
Old(j) == now - ledger[j].at > Retention

Prune(j) ==
  /\ ledger[j].state = "finished" /\ ledger[j].acked /\ Old(j)
  /\ ledger' = [ledger EXCEPT ![j] = NoJob]
  /\ UNCHANGED <<now, vtc, sent, resolver, doing, told, plan, count>>

(* What is in memory only goes; the ledger stays.                           *)
Crash ==
  /\ Happens("crash")
  /\ resolver' = [key |-> Nobody, until |-> 0, last |-> -Pause]
  /\ doing' = Idle
  /\ UNCHANGED <<now, vtc, sent, ledger, told>>

Tick ==
  /\ now < MaxTime
  /\ doing.at = "idle" \/ now < doing.since + Slow
  /\ now' = now + 1
  /\ UNCHANGED <<vtc, sent, resolver, ledger, doing, told, plan, count>>

Next ==
  \/ \E j \in Jobs :
       \/ Issue(j) \/ (\E k \in VtcKeys : IssueOld(j, k))
       \/ TakeResult(j) \/ Finish(j) \/ Acknowledge(j) \/ Prune(j)
  \/ \E k \in VtcKeys : Rotate(k)
  \/ \E d \in sent : Receive(d)
  \/ Prove \/ ProveAgain \/ Act \/ Crash \/ Tick

Spec == Init /\ [][Next]_vars

-----------------------------------------------------------------------------
TypeOK ==
  /\ now \in Nat
  /\ vtc \in [key : VtcKeys, dropped : [VtcKeys -> Nat \cup {Never}], holds : [Jobs -> BOOLEAN]]
  /\ sent \subseteq Docs
  /\ resolver \in [key : VtcKeys \cup {Nobody}, until : Nat, last : Int]
  /\ ledger \in [Jobs -> [state : {"none", "open", "finished"}, at : Nat, acked : BOOLEAN]]
  /\ doing \in [at : {"idle", "proof", "again", "job"}, doc : Docs \cup {NoDoc},
                since : Nat, passed : Nat]
  /\ doing.at # "idle" => doing.doc \in Docs
  /\ told \in [ran : [Jobs -> Nat], late : [Jobs -> BOOLEAN], again : Int]
  /\ plan \in [moves : [Moves -> Nat], ahead : 0..Skew]
  /\ count \in [Moves -> Nat]

(* A job acts once, though its documents come again, in any order, also     *)
(* after its record went: by then the last of them is too old.  Not so when *)
(* its result reached the VTC only when the record was about to go, which   *)
(* is dated by the end of the job (bridge.rs:1255).                         *)
ActsOnce == \A j \in Jobs : told.ran[j] > 1 => told.late[j]

(* A key the VTC dropped is believed no longer than a resolved document is  *)
(* (wire.rs:207), whatever fails and whatever was resolved in between.      *)
DroppedIsForgotten ==
  doing.at = "job" /\ vtc.dropped[doing.doc.key] # Never
    => doing.passed <= vtc.dropped[doing.doc.key] + Lifetime

(* A document signed with the VTC's key is refused only if the DID document *)
(* cannot be had, or was resolved anew a moment ago: other failures do not  *)
(* put a fresh resolution off (wire.rs:231).                                *)
HeardOrSoon ==
  doing.at \in {"proof", "again"} /\ doing'.at = "idle" /\ count' = count
    => doing.doc.key # vtc.key \/ now < told.again + Pause
NewKeyIsHeard == [][HeardOrSoon]_vars
=============================================================================
