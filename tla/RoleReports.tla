----------------------------- MODULE RoleReports -----------------------------
(* The role map, from the bridge to the VTC.  Which role a right becomes is  *)
(* the bridge's configuration, read at its start, per repository and rounded *)
(* by the forge; the VTC knows it from a report, which also names the stale  *)
(* repositories, whose roles were last given under another map.  A report is *)
(* made whenever the link to the VTC comes up; it stands in the outbox, and  *)
(* is made and sent anew, until the VTC acknowledges one of its documents.   *)
(*                                                                           *)
(* Two tasks of the bridge report: its mediator session, when it connects,   *)
(* and its background loop, when sends work again and when a report is due.  *)
(* One namespace, bound throughout (see NamespaceLife).                      *)
EXTENDS RoleMaps, FiniteSets

Tasks == {"session", "background"}

VARIABLES
  bridge,   \* its run and configuration; whether sends fail, and work again
  repo,     \* a repository: its record, and the maps its roles on the forge are of
  entry,    \* the report in the outbox: the documents it went out in
  task,     \* what the tasks are doing
  post,     \* how many documents were signed, those on their way, and answers
  view,     \* the last report the VTC took
  told,     \* what was signed before the session, and stale when the run began
  plan, count

vars == <<bridge, repo, entry, task, post, view, told, plan, count>>

Eff(m) == Effective(plan.ladder, m)
MapIn(config, r) == IF r \in DOMAIN config.of THEN config.of[r] ELSE config.base
MapOf(r) == MapIn(bridge.config, r)

(* A repository of whose map there is no record had the default one.        *)
Recorded(r) == IF repo[r].map = {} THEN {Eff(Default)} ELSE repo[r].map
StaleUnder(config) == {r \in Repos : repo[r].known /\ Eff(MapIn(config, r)) \notin Recorded(r)}
Stale == StaleUnder(bridge.config)

ReportOf(config) ==
  LET base == Eff(config.base) IN
  [run |-> bridge.run, base |-> base,
   repos |-> [r \in {x \in DOMAIN config.of : Eff(config.of[x]) # base} |-> Eff(config.of[r])],
   stale |-> Stale]
Report == ReportOf(bridge.config)

NoReport == [run |-> 0, base |-> Default, repos |-> [r \in {} |-> Default], stale |-> {}]
NoEntry == [there |-> FALSE, ids |-> {}, report |-> NoReport]
Off == [at |-> "off", report |-> NoReport, id |-> 0]
Idle == [Off EXCEPT !.at = "idle"]
Apart == [known |-> FALSE, map |-> {}, given |-> {}, half |-> {}]
Given(m) == [known |-> TRUE, map |-> {m}, given |-> {m}, half |-> {}]

Init ==
  /\ plan \in [moves : Plans, ladder : Ladders]
  /\ count = [m \in Moves |-> 0]
  /\ \E c \in Configs :
       /\ bridge = [run |-> 1, config |-> c, down |-> FALSE, recovered |-> FALSE]
       /\ repo \in [Repos -> {Apart} \cup {Given(Eff(MapIn(c, r))) : r \in Repos}]
  /\ entry = NoEntry
  /\ task = [t \in Tasks |-> Off]
  /\ post = [signed |-> 0, docs |-> {}, acks |-> {}]
  /\ view = [id |-> 0, report |-> NoReport]
  /\ told = [since |-> 0, stale |-> Stale]

Happens(m) ==
  /\ count[m] < plan.moves[m]
  /\ count' = [count EXCEPT ![m] = @ + 1]
  /\ UNCHANGED plan

NoMove == UNCHANGED <<plan, count>>

-----------------------------------------------------------------------------
(* The link comes up: the flag goes, what else waits in the outbox goes out, *)
(* and the report is made anew, in place of one still there.                *)
LinkUp(t) ==
  /\ task' = [task EXCEPT ![t] = [Idle EXCEPT !.at = "linkup"]]
  /\ UNCHANGED <<repo, entry, post, view>> /\ NoMove

Connect ==
  /\ task["session"].at = "off"
  /\ LinkUp("session")
  /\ bridge' = [bridge EXCEPT !.down = FALSE]
  /\ told' = [told EXCEPT !.since = post.signed]

(* The background loop begins once the first session has reported.          *)
Begin ==
  /\ task["background"].at = "off" /\ task["session"].at = "idle"
  /\ task' = [task EXCEPT !["background"] = Idle]
  /\ UNCHANGED <<bridge, repo, entry, post, view, told>> /\ NoMove

Recover ==
  /\ task["background"].at = "idle" /\ bridge.recovered
  /\ LinkUp("background")
  /\ bridge' = [bridge EXCEPT !.down = FALSE, !.recovered = FALSE]
  /\ UNCHANGED told

(* Mistake: the entry's documents stay.                                     *)
PutBeside == entry' = [entry EXCEPT !.there = TRUE, !.report = Report]

Put == entry' = [there |-> TRUE, ids |-> {}, report |-> Report]

ReportMap(t) ==
  /\ task[t].at = "linkup"
  /\ Put
  /\ task' = [task EXCEPT ![t] = [Idle EXCEPT !.at = "built", !.report = Report]]
  /\ UNCHANGED <<bridge, repo, post, view, told>> /\ NoMove

(* An entry that is due is sent again, made anew.  It is due when nothing   *)
(* is on its way; earlier, and without a session, at times.                 *)
Quiet == post.docs = {} /\ post.acks = {} /\ task["session"].at # "off"

Resend ==
  /\ task["background"].at = "idle" /\ entry.there
  /\ IF Quiet THEN NoMove ELSE Happens("early")
  /\ entry' = [entry EXCEPT !.report = Report]
  /\ task' = [task EXCEPT !["background"] = [Idle EXCEPT !.at = "built", !.report = Report]]
  /\ UNCHANGED <<bridge, repo, post, view, told>>

(* The state it tells of is written to the VTA first, which may take too    *)
(* long.  Then it is signed, dated, and noted with the entry there is now.  *)
Hold(t) ==
  /\ task[t].at = "built" /\ Happens("held")
  /\ task' = [task EXCEPT ![t] = Idle]
  /\ UNCHANGED <<bridge, repo, entry, post, view, told>>

Sign(t) ==
  /\ task[t].at = "built"
  /\ post' = [post EXCEPT !.signed = @ + 1]
  /\ entry' = IF entry.there THEN [entry EXCEPT !.ids = @ \cup {post.signed + 1}] ELSE entry
  /\ task' = [task EXCEPT ![t].at = "signed", ![t].id = post.signed + 1]
  /\ UNCHANGED <<bridge, repo, view, told>> /\ NoMove

(* A send that works after one that failed is a link-up of its own.         *)
Works == bridge' = [bridge EXCEPT !.down = FALSE, !.recovered = @ \/ bridge.down]
Fails == bridge' = [bridge EXCEPT !.down = TRUE]

Send(t) ==
  /\ task[t].at = "signed"
  /\ IF task["session"].at = "off"
     THEN Fails /\ UNCHANGED post /\ NoMove
     ELSE \/ /\ Works /\ NoMove
             /\ post' = [post EXCEPT !.docs = @ \cup {[id |-> task[t].id, report |-> task[t].report]}]
          \/ Works /\ UNCHANGED post /\ Happens("lost")
          \/ Fails /\ UNCHANGED post /\ Happens("fails")
  /\ task' = [task EXCEPT ![t] = Idle]
  /\ UNCHANGED <<repo, entry, view, told>>

SessionEnds ==
  /\ task["session"].at = "idle" /\ Happens("end")
  /\ task' = [task EXCEPT !["session"] = Off]
  /\ UNCHANGED <<bridge, repo, entry, post, view, told>>

-----------------------------------------------------------------------------
(* The VTC takes the report with the latest date, and answers every one.    *)
Take(d) ==
  /\ d \in post.docs
  /\ view' = IF d.id > view.id THEN d ELSE view
  /\ \/ post' = [post EXCEPT !.docs = @ \ {d}, !.acks = @ \cup {d.id}] /\ NoMove
     \/ post' = [post EXCEPT !.docs = @ \ {d}] /\ Happens("lost")
     \/ post' = [post EXCEPT !.acks = @ \cup {d.id}] /\ Happens("again")
  /\ UNCHANGED <<bridge, repo, entry, task, told>>

Answers(i) == i \in entry.ids

Acknowledge(i) ==
  /\ i \in post.acks /\ task["session"].at = "idle"
  /\ post' = [post EXCEPT !.acks = @ \ {i}]
  /\ entry' = IF Answers(i) THEN NoEntry ELSE entry
  /\ UNCHANGED <<bridge, repo, task, view, told>> /\ NoMove

-----------------------------------------------------------------------------
(* A job gives a repository's roles: all of them; some, and it says so; or  *)
(* it knows of none, though some were given.                                *)
Whole(r) == repo' = [repo EXCEPT ![r] = Given(Eff(MapOf(r)))]
Some(r) == [repo[r] EXCEPT !.given = @ \cup {Eff(MapOf(r))}, !.half = @ \cup {Eff(MapOf(r))}]

Partly(r) == repo' = [repo EXCEPT ![r] = [Some(r) EXCEPT !.known = TRUE]]
Broken(r) == repo' = [repo EXCEPT ![r] = Some(r)]

Project(r) ==
  /\ Happens("project")
  /\ Whole(r) \/ Partly(r) \/ Broken(r)
  /\ UNCHANGED <<bridge, entry, task, post, view, told>>

(* The bridge stops or dies, and starts with the configuration there is.    *)
Restart(c) ==
  /\ Happens("restart")
  /\ bridge' = [run |-> bridge.run + 1, config |-> c, down |-> FALSE, recovered |-> FALSE]
  /\ task' = [t \in Tasks |-> Off]
  /\ told' = [told EXCEPT !.stale = StaleUnder(c)]
  /\ UNCHANGED <<repo, entry, post, view>>

Work ==
  \/ Connect \/ Begin \/ Recover \/ Resend
  \/ \E t \in Tasks : ReportMap(t) \/ Hold(t) \/ Sign(t) \/ Send(t)
  \/ \E d \in post.docs : Take(d)
  \/ \E i \in post.acks : Acknowledge(i)

Next ==
  \/ Work \/ SessionEnds
  \/ \E r \in Repos : Project(r)
  \/ \E c \in Configs : Restart(c)

Spec == Init /\ [][Next]_vars /\ WF_vars(Work)

-----------------------------------------------------------------------------
Reports ==
  [run : Nat, base : Maps, repos : OwnMaps, stale : SUBSET Repos]

TypeOK ==
  /\ bridge \in [run : Nat, config : Configs, down : BOOLEAN, recovered : BOOLEAN]
  /\ repo \in [Repos -> [known : BOOLEAN, map : SUBSET Maps, given : SUBSET Maps,
                         half : SUBSET Maps]]
  /\ entry \in [there : BOOLEAN, ids : SUBSET Nat, report : Reports]
  /\ task \in [Tasks -> [at : {"off", "linkup", "idle", "built", "signed"},
                         report : Reports, id : Nat]]
  /\ post \in [signed : Nat, docs : SUBSET [id : Nat, report : Reports], acks : SUBSET Nat]
  /\ view \in [id : Nat, report : Reports]
  /\ told \in [since : Nat, stale : SUBSET Repos]
  /\ plan \in [moves : [Moves -> Nat], ladder : SUBSET ForgeRoles]
  /\ count \in [Moves -> Nat]

(* The role the VTC derives from the report for any set of rights is the    *)
(* one the bridge gives for them, on every repository, also where the       *)
(* configuration has a map of the repository's own and where the forge      *)
(* rounds (rolemap.rs:12).                                                  *)
Thought(r) ==
  IF r \in DOMAIN view.report.repos THEN view.report.repos[r] ELSE view.report.base
TheVtcKnowsTheRoles ==
  view.report.run = bridge.run
    => \A r \in Repos, granted \in SUBSET Rights :
         Requested(Thought(r), granted) = MapRole(plan.ladder, MapOf(r), granted)

(* While nothing stands in the outbox the VTC has this run's report, with   *)
(* every repository the new configuration made stale and no job gave its    *)
(* roles since: no answer to an earlier report, and no crash, loses it.     *)
AckedIsKnown ==
  task["session"].at = "idle" /\ ~entry.there
    => view.report.run = bridge.run /\ Stale \cap told.stale \subseteq view.report.stale

(* A repository that is not stale has no role left of another map, but one  *)
(* given by a job that was cut short (jobs.rs:451).                         *)
LeftIsListed ==
  \A r \in Repos \ Stale :
    repo[r].known => repo[r].given \subseteq {Eff(MapOf(r))} \cup repo[r].half

(* The VTC's view gets no older than the link it has: a report dated after  *)
(* the session began is taken, however many sends fail and documents or     *)
(* answers are lost, unless the session ends (bridge.rs:1090).              *)
Reported == task["session"].at = "off" \/ view.id > told.since
LinkIsReported == []<>Reported
=============================================================================
