------------------------------- MODULE MCForge -------------------------------
(* The jobs on the forge, on small instances: a behaviour is of one part.   *)
(* `repo' is of ForgejoRepo, `org' of GitHubOrg, `roles' of GitHubRoles,    *)
(* `pull' of PullClosing and `reports' of RoleReports.                      *)
EXTENDS RoleMaps, TLC

CONSTANTS
  p1, p2, r1, r2, j1, j2,     \* what the instances below are made of
  Parts,                      \* the parts that behaviours are of
  People, Teammates, RepoPlans,     \* of ForgejoRepo, and of GitHubRoles
  OrgRepos, Releases,         \* of GitHubOrg: 1..Releases are its versions
  Orders, MaxTime,            \* of PullClosing
  Bounds                      \* jobs, faults and edits in a part

VARIABLES
  part,
  repo, rec, job, last, plan, count, told,
  org, store, adapter, version,
  role, invite,
  now, pull, issued, outcome,
  bridge, entry, task, post, view

organisation == <<org, store, adapter, version>>
inviting == <<role, invite>>
closing == <<now, pull, issued, outcome>>
reporting == <<bridge, entry, task, post, view>>
all == <<part, repo, rec, job, last, plan, count, told, organisation, inviting, closing,
         reporting>>

-----------------------------------------------------------------------------
(* One person and three jobs; two people, one let in by a team.             *)
SomeRepoPlans == {
  [people |-> {p1}, jobs |-> 3, faults |-> 1, edits |-> 1],
  [people |-> {p1, p2}, jobs |-> 2, faults |-> 1, edits |-> 0]}
ThreeJobs == {[people |-> {p1}, jobs |-> 3, faults |-> 1, edits |-> 0]}
SomeBounds ==
  [org |-> [jobs |-> 3, faults |-> 1, edits |-> 1],
   roles |-> [jobs |-> 2, faults |-> 1, edits |-> 1],
   pull |-> [jobs |-> 2, faults |-> 2, edits |-> 3]]

(* Role maps: the default, one that gives owners and maintainers write, and *)
(* a repository's own; on a GitHub user's account and on Forgejo.           *)
Writers == [t \in Tiers |-> IF t = "commit" THEN 0 ELSE Write]
SomeConfigs ==
  {[base |-> m, of |-> [r \in {} |-> m]] : m \in {Default, Writers}}
    \cup {[base |-> Default, of |-> r1 :> Writers]}
SomeLadders == {{Write}, {1, Write, Admin}}
Few(some) ==
  [m \in Moves |-> IF m \in some THEN 1 ELSE 0]
ReportPlans == {
  Few({"project", "restart"}), Few({"restart", "lost"}), Few({"lost", "early"}),
  Few({"fails", "held"}), Few({"again", "end"}),
  Few({"lost", "end"}), Few({"fails", "lost"})}

Repo == INSTANCE ForgejoRepo WITH Plans <- RepoPlans
Org == INSTANCE GitHubOrg
  WITH Repos <- OrgRepos, Versions <- 1..Releases, MaxJobs <- Bounds.org.jobs,
       MaxFaults <- Bounds.org.faults, MaxEdits <- Bounds.org.edits
Roles == INSTANCE GitHubRoles
  WITH Inside <- Teammates, MaxJobs <- Bounds.roles.jobs,
       MaxFaults <- Bounds.roles.faults, MaxEdits <- Bounds.roles.edits
Pull == INSTANCE PullClosing
  WITH Jobs <- Orders, MaxFaults <- Bounds.pull.faults, MaxEdits <- Bounds.pull.edits
Reports == INSTANCE RoleReports

-----------------------------------------------------------------------------
(* What the parts' constants are.                                           *)
Limits == [jobs : Nat, faults : Nat, edits : Nat]
ASSUME RepoAssumption ==
  RepoPlans \subseteq [people : SUBSET People, jobs : Nat, faults : Nat, edits : Nat]
ASSUME OrgAssumption == OrgRepos # {} /\ Releases \in Nat \ {0}
ASSUME PullAssumption == "none" \notin Orders /\ MaxTime \in Nat \ {0}
ASSUME BoundsAssumption == Bounds \in [org : Limits, roles : Limits, pull : Limits]

-----------------------------------------------------------------------------
(* What a part does not use does not change.                                *)
Others(p) ==
  /\ p \notin {"repo", "org", "reports"} => repo = 0
  /\ p \notin {"repo", "roles"} => rec = 0 /\ last = 0
  /\ p = "reports" => job = [at |-> "idle"]
  /\ p \notin {"repo", "reports"} => plan = 0
  /\ p # "org" => org = 0 /\ store = 0 /\ adapter = 0 /\ version = 0
  /\ p # "roles" => role = 0 /\ invite = 0
  /\ p # "pull" => now = 0 /\ pull = 0 /\ issued = 0 /\ outcome = 0
  /\ p # "reports" => bridge = 0 /\ entry = 0 /\ task = 0 /\ post = 0 /\ view = 0

Init ==
  /\ part \in Parts
  /\ \/ part = "repo" /\ Repo!Init
     \/ part = "org" /\ Org!Init
     \/ part = "roles" /\ Roles!Init
     \/ part = "pull" /\ Pull!Init
     \/ part = "reports" /\ Reports!Init
  /\ Others(part)

OfRepo ==
  part = "repo" /\ UNCHANGED <<part, organisation, inviting, closing, reporting>>
OfOrg ==
  part = "org" /\ UNCHANGED <<part, rec, last, plan, inviting, closing, reporting>>
OfRoles ==
  part = "roles" /\ UNCHANGED <<part, repo, plan, organisation, closing, reporting>>
OfPull ==
  part = "pull" /\ UNCHANGED <<part, repo, rec, last, plan, organisation, inviting, reporting>>
OfReports ==
  part = "reports" /\ UNCHANGED <<part, rec, job, last, organisation, inviting, closing>>

Next ==
  \/ OfRepo /\ Repo!Next
  \/ OfOrg /\ Org!Next
  \/ OfRoles /\ Roles!Next
  \/ OfPull /\ Pull!Next
  \/ OfReports /\ Reports!Next

(* The job under way, or the report, takes its next step.                   *)
RunJob ==
  \/ OfRepo /\ Repo!RunJob
  \/ OfOrg /\ Org!RunJob
  \/ OfRoles /\ Roles!RunJob
  \/ OfPull /\ Pull!RunJob
  \/ OfReports /\ Reports!Work

Spec == Init /\ [][Next]_all /\ WF_all(RunJob)

-----------------------------------------------------------------------------
TypeOK ==
  /\ part = "repo" => Repo!TypeOK
  /\ part = "org" => Org!TypeOK
  /\ part = "roles" => Roles!TypeOK
  /\ part = "pull" => Pull!TypeOK
  /\ part = "reports" => Reports!TypeOK

(* Each conjunct is the property of that name in its module.                *)

(* What a job says of a branch's guard is so: on every way out of the       *)
(* create, bootstrap and refresh jobs, over other hands and crashes, a      *)
(* branch reported done is protected, one left open is known to be, a       *)
(* repository the bridge made is known as its own, and an organisation's    *)
(* check stays required through upgrades.                                   *)
GuardsHold ==
  /\ part = "repo" =>
       Repo!DoneMeansGuarded /\ Repo!LeftAjarIsKnown /\ Repo!OwnIsRecognised
  /\ part = "org" => Org!StaysRequired

(* What apply_roles says it gave is what people have, and whoever it took   *)
(* out is out, when some of the calls fail.                                 *)
RolesAreExact ==
  /\ part = "repo" => Repo!SuccessIsExact /\ Repo!GivenIsRecorded
  /\ part = "roles" => Roles!SuccessGivesRoles /\ Roles!RemovedAreOut

(* close_pull_request, sent again or twice at once, comments once, leaves   *)
(* alone whatever a person opened again, and closes nothing without saying  *)
(* why.                                                                     *)
ClosingIsCareful ==
  part = "pull" => Pull!OneComment /\ Pull!ReopenStands /\ Pull!ClosedWithReason

(* What the VTC has heard of the roles that stand on the forge is so,       *)
(* through report_role_maps, restarts and the notes an outbox put replaces. *)
RolesAreReported ==
  part = "reports" =>
    Reports!TheVtcKnowsTheRoles /\ Reports!AckedIsKnown /\ Reports!LeftIsListed

(* apply_roles takes no role from those nobody asked it about.              *)
OthersAreKept ==
  [][/\ part = "repo" => Repo!KeepsOthers
     /\ part = "roles" => Roles!KeepsOthers]_all

(* Every job ends, for its calls answer or fail and crashes are few; and    *)
(* what the link-up owes the VTC of the roles is reported in the end.       *)
EveryJobEnds ==
  /\ []<>(job.at = "idle")
  /\ []<>(part = "reports" => Reports!Reported)

(* What jobs.rs says of people no longer listed (see ForgejoRepo).          *)
UnlistedLoseTheirRole == part = "repo" => Repo!UnlistedLoseTheirRole
=============================================================================
