----------------------------- MODULE PullClosing -----------------------------
(***************************************************************************)
(* closePullRequest jobs on one pull request (`vgi-bridge/src/jobs.rs`      *)
(* close_pull_request, `vgi-forge-github/src/pulls.rs`): read it, look for  *)
(* the job's own comment, comment, close.  People close, merge and reopen   *)
(* it and delete comments between any two calls; calls fail, or are applied *)
(* and not answered; a job cut off by a crash runs again.                   *)
(*                                                                          *)
(* Time is a clock of seconds that both the VTC's `issuedAt` and the        *)
(* forge's record of a reopen are read from.                                *)
(***************************************************************************)
EXTENDS Naturals, FiniteSets

CONSTANTS Jobs,        \* the VTC's orders
          MaxTime, MaxFaults, MaxEdits

VARIABLES
  now,
  pull,      \* the pull request: state, when another last reopened it, comments
  issued,    \* when each job was issued
  job,       \* the job under way, and where
  outcome,   \* how each job was last reported
  count,
  told       \* history: posts of each job's comment, and which job closed it

vars == <<now, pull, issued, job, outcome, count, told>>

Never == MaxTime + 1
None == "none"
Idle == [of |-> None, at |-> "idle", late |-> FALSE]

TypeOK ==
  /\ now \in 0..MaxTime
  /\ pull \in [state : {"open", "closed", "merged"}, reopened : {Never} \cup 0..MaxTime,
               comments : SUBSET Jobs]
  /\ issued \in [Jobs -> 0..MaxTime]
  /\ job \in [of : Jobs \cup {None}, at : {"idle", "read", "look", "comment", "close"},
              late : BOOLEAN]
  /\ outcome \in [Jobs -> {"none", "failed", "partial", "left", "closed"}]
  /\ count \in [faults : 0..MaxFaults, edits : 0..MaxEdits]
  /\ told \in [posted : [Jobs -> Nat], deleted : SUBSET Jobs, late : BOOLEAN,
               closedBy : Jobs \cup {None}]

Init ==
  /\ now = 0
  /\ pull = [state |-> "open", reopened |-> Never, comments |-> {}]
  /\ issued \in [Jobs -> 0..1]
  /\ job = Idle
  /\ outcome = [j \in Jobs |-> "none"]
  /\ count = [faults |-> 0, edits |-> 0]
  /\ told = [posted |-> [j \in Jobs |-> 0], deleted |-> {}, late |-> FALSE,
             closedBy |-> None]

-----------------------------------------------------------------------------
Fault == count.faults < MaxFaults /\ count' = [count EXCEPT !.faults = @ + 1]
Fine == UNCHANGED count
To(step) == job' = [job EXCEPT !.at = step] /\ UNCHANGED outcome
Report(how) == job' = Idle /\ outcome' = [outcome EXCEPT ![job.of] = how]

(* A job is taken up after it was issued, and once: its report is kept.     *)
Start(j) ==
  /\ job.at = "idle" /\ issued[j] <= now
  /\ outcome[j] = "none"
  /\ job' = [of |-> j, at |-> "read", late |-> FALSE]
  /\ UNCHANGED <<now, pull, issued, outcome, count, told>>

(* One already closed, or that another reopened after the order, is left.   *)
LeaveClosed == pull.state # "open"
LeaveAlone ==
  \/ pull.state # "open"
  \/ pull.reopened # Never /\ pull.reopened > issued[job.of]

ReadPull ==
  /\ job.at = "read"
  /\ \/ LeaveAlone /\ Report("left") /\ Fine
     \/ ~LeaveAlone /\ To("look") /\ Fine
     \/ Report("failed") /\ Fault
  /\ UNCHANGED <<now, pull, issued, told>>

HasOwnComment == job.of \in pull.comments

LookForComment ==
  /\ job.at = "look"
  /\ \/ To(IF HasOwnComment THEN "close" ELSE "comment") /\ Fine
     \/ Report("failed") /\ Fault
  /\ UNCHANGED <<now, pull, issued, told>>

NotCommented == Report("failed")

Comment ==
  LET posted == /\ pull' = [pull EXCEPT !.comments = @ \cup {job.of}]
                /\ told' = [told EXCEPT !.posted[job.of] = @ + 1]
  IN /\ job.at = "comment"
     /\ \/ posted /\ To("close") /\ Fine
        \/ (posted \/ UNCHANGED <<pull, told>>) /\ NotCommented /\ Fault
     /\ UNCHANGED <<now, issued>>

(* GitHub closes what is open, and leaves what is merged.                   *)
Close ==
  LET closed == /\ pull' = [pull EXCEPT !.state =
                              IF @ = "open" THEN "closed" ELSE @]
                /\ told' = IF pull.state # "open" THEN told
                           ELSE [told EXCEPT !.closedBy = job.of,
                                             !.late = job.late]
  IN /\ job.at = "close"
     /\ \/ closed /\ Report("closed") /\ Fine
        \/ closed /\ Report("partial") /\ Fault
        \/ UNCHANGED <<pull, told>> /\ Report("partial") /\ Fault
     /\ UNCHANGED <<now, issued>>

Crash ==
  /\ job.at # "idle" /\ Fault
  /\ job' = [job EXCEPT !.at = "read", !.late = FALSE]
  /\ UNCHANGED <<now, pull, issued, outcome, told>>

-----------------------------------------------------------------------------
Edit == count.edits < MaxEdits /\ count' = [count EXCEPT !.edits = @ + 1]

PersonCloses ==
  /\ Edit /\ pull.state = "open"
  /\ \E s \in {"closed", "merged"} : pull' = [pull EXCEPT !.state = s]
  /\ told' = [told EXCEPT !.closedBy = None]
  /\ UNCHANGED <<now, issued, job, outcome>>

PersonReopens ==
  /\ Edit /\ pull.state = "closed"
  /\ pull' = [pull EXCEPT !.state = "open", !.reopened = now]
  /\ job' = [job EXCEPT !.late = job.at \in {"look", "comment", "close"}]
  /\ told' = [told EXCEPT !.closedBy = None]
  /\ UNCHANGED <<now, issued, outcome>>

PersonDeletes(j) ==
  /\ Edit /\ j \in pull.comments
  /\ pull' = [pull EXCEPT !.comments = @ \ {j}]
  /\ told' = [told EXCEPT !.deleted = @ \cup {j}]
  /\ UNCHANGED <<now, issued, job, outcome>>

Tick ==
  /\ now < MaxTime
  /\ now' = now + 1
  /\ UNCHANGED <<pull, issued, job, outcome, count, told>>

RunJob == ReadPull \/ LookForComment \/ Comment \/ Close

Next ==
  \/ RunJob \/ Crash \/ PersonCloses \/ PersonReopens \/ Tick
  \/ \E j \in Jobs : Start(j) \/ PersonDeletes(j)

Spec == Init /\ [][Next]_vars /\ WF_vars(RunJob)

-----------------------------------------------------------------------------
(* Properties.                                                              *)

(* The community's message is on the pull request once for each order,      *)
(* however often the job ran (jobs.rs:159), unless somebody deleted it.     *)
OneComment == \A j \in Jobs : told.posted[j] <= 1 \/ j \in told.deleted

(* No job closes a pull request that was reopened after its order, but one  *)
(* reopened after the job had read it (jobs.rs:153).                        *)
ReopenStands ==
  told.closedBy # None /\ ~told.late =>
    pull.reopened = Never \/ pull.reopened <= issued[told.closedBy]

(* A pull request the bridge closed carries the message that says why.      *)
ClosedWithReason ==
  told.closedBy # None => told.closedBy \in pull.comments \cup told.deleted

(* Every job ends: each call answers or fails.                              *)
EveryJobEnds == []<>(job.at = "idle")
=============================================================================
