------------------------------ MODULE GitHubOrg ------------------------------
(***************************************************************************)
(* The repositories of one GitHub organisation and the check they are       *)
(* required to pass.  Where the organisation's plan has the workflows rule, *)
(* an org ruleset requires `.vgi`'s workflow, at a pinned commit, of the    *)
(* repositories the bridge manages; otherwise each repository carries the   *)
(* workflow and a ruleset of its own.  The bridge's bootstrap and archive   *)
(* jobs (`vgi-bridge/src/jobs.rs`, `vgi-forge-github/src/forge/guard.rs`)   *)
(* run one at a time; what the adapter holds of the managed set, the pin    *)
(* and the capability is in memory, what `persist_adapter_state` wrote      *)
(* survives a restart.                                                      *)
(*                                                                          *)
(* A commit of `.vgi` is what its workflow says: a version the bridge       *)
(* rendered, or something else.  CODEOWNERS, variables and community files  *)
(* are left out: they converge as the workflow file does.                   *)
(***************************************************************************)
EXTENDS Naturals, FiniteSets

CONSTANTS
  Repos,       \* repositories of the organisation
  Versions,    \* renderings of the workflow, a number each: 1..n
  MaxJobs, MaxFaults, MaxEdits

VARIABLES
  org,       \* at GitHub: plan, org ruleset, `.vgi`
  repo,      \* at GitHub, for each repository
  store,     \* the namespace record
  adapter,   \* the adapter's memory
  version,   \* what the running bridge renders
  job,       \* the job under way
  count,
  told       \* history: repositories bootstrapped and let alone since, and
             \* those an archive was tried of

vars == <<org, repo, store, adapter, version, job, count, told>>

Other == 0                       \* a workflow somebody else wrote
Commits == Versions \cup {Other}
NoPin == Cardinality(Versions) + 1
NoRules == [there |-> FALSE, sha |-> NoPin, ids |-> {}]

Rulesets == [there : BOOLEAN, sha : Commits \cup {NoPin}, ids : SUBSET Repos]

(* What a job needs from one step to the next.                              *)
Idle == [at |-> "idle", kind |-> "none", repo |-> CHOOSE r \in Repos : TRUE,
         attempt |-> 0, managed |-> {}, seen |-> NoRules, sha |-> NoPin,
         alone |-> TRUE]

Steps == {"manage", "plan", "look", "commit", "central", "rules", "verify",
          "file", "rule", "clean", "archive", "retire"}

TypeOK ==
  /\ org \in [supports : BOOLEAN, rules : Rulesets,
              central : [there : BOOLEAN, head : Commits, guarded : BOOLEAN]]
  /\ repo \in [Repos -> [rule : {"none", "bare", "check"}, file : BOOLEAN,
                         archived : BOOLEAN]]
  /\ store \in [managed : SUBSET Repos, pin : Commits \cup {NoPin},
                required : BOOLEAN]
  /\ adapter \in [managed : SUBSET Repos, pin : Commits \cup {NoPin},
                  required : BOOLEAN]
  /\ version \in Versions
  /\ job \in [at : Steps \cup {"idle"}, kind : {"none", "bootstrap", "archive"},
              repo : Repos, attempt : 0..1, managed : SUBSET Repos,
              seen : Rulesets, sha : Commits \cup {NoPin}, alone : BOOLEAN]
  /\ count \in [jobs : 0..MaxJobs, faults : 0..MaxFaults, edits : 0..MaxEdits]
  /\ told \in [guarded : SUBSET Repos, tried : SUBSET Repos]

(* complete_bind probes whether org rulesets can be had at all; whether the *)
(* workflows rule can is found out by writing it.                           *)
Init ==
  /\ \E s \in BOOLEAN :
       /\ org = [supports |-> s, rules |-> NoRules,
                 central |-> [there |-> FALSE, head |-> Other, guarded |-> FALSE]]
       /\ \E probed \in BOOLEAN :
            /\ s => probed
            /\ store = [managed |-> {}, pin |-> NoPin, required |-> probed]
  /\ repo = [r \in Repos |-> [rule |-> "none", file |-> FALSE, archived |-> FALSE]]
  /\ adapter = store
  /\ version = 1
  /\ job = Idle
  /\ count = [jobs |-> 0, faults |-> 0, edits |-> 0]
  /\ told = [guarded |-> {}, tried |-> {}]

-----------------------------------------------------------------------------
Fault == count.faults < MaxFaults /\ count' = [count EXCEPT !.faults = @ + 1]
Fine == UNCHANGED count
To(step) == job' = [job EXCEPT !.at = step]

(* persist_adapter_state: the store takes the adapter's managed set and pin.*)
Persist(a) ==
  store' = [store EXCEPT !.managed = a.managed,
                         !.pin = IF a.pin = NoPin THEN @ ELSE a.pin]

(* A plan that ended, all of it or not, is persisted.                       *)
Finish(ok) ==
  /\ job' = Idle
  /\ Persist(adapter')
  /\ told' = IF ok /\ job.alone
             THEN [told EXCEPT !.guarded = @ \cup {job.repo}] ELSE told

(* A call that sets what `Set` says, or fails, having done so or not.       *)
Call(Set, Skip, Done, Failed) ==
  \/ Set /\ Done /\ Fine
  \/ (Set \/ Skip) /\ Failed /\ Fault

Fresh(kind, r) ==
  [Idle EXCEPT !.kind = kind, !.repo = r,
               !.at = IF kind = "archive" THEN "archive" ELSE "manage"]
Again == Fresh(job.kind, job.repo)

Start(r, kind) ==
  /\ job.at = "idle" /\ count.jobs < MaxJobs
  /\ kind = "bootstrap" => ~repo[r].archived
  /\ job' = Fresh(kind, r)
  /\ count' = [count EXCEPT !.jobs = @ + 1]
  /\ UNCHANGED <<org, repo, store, adapter, version, told>>

(* manage: into the store's managed set, then the adapter's becomes it.     *)
Manage ==
  /\ job.at = "manage"
  /\ store' = [store EXCEPT !.managed = @ \cup {job.repo}]
  /\ adapter' = [adapter EXCEPT !.managed = store.managed \cup {job.repo}]
  /\ To("plan")
  /\ UNCHANGED <<org, repo, version, count, told>>

(* check_guard: a required workflow where the adapter believes in one.      *)
Plan ==
  /\ job.at = "plan"
  /\ To(IF adapter.required THEN "look" ELSE "file")
  /\ UNCHANGED <<org, repo, store, adapter, version, count, told>>

-----------------------------------------------------------------------------
(* require_namespace_workflow, a call at a time.                            *)

Abandon == adapter' = adapter /\ Finish(FALSE)

(* The managed set and the ruleset are read once; `.vgi` is made if it is   *)
(* not there.                                                               *)
CentralMade == [org EXCEPT !.central.there = TRUE]

Look ==
  LET on == job' = [job EXCEPT !.at = "commit", !.managed = adapter.managed,
                               !.seen = org.rules]
            /\ UNCHANGED <<store, adapter, told>>
  IN /\ job.at = "look"
     /\ IF org.central.there THEN on /\ UNCHANGED <<org, count>>
        ELSE Call(org' = CentralMade, UNCHANGED org, on, Abandon)
     /\ UNCHANGED <<repo, version>>

(* The pin stays on a commit that says what the bridge renders, or moves to *)
(* `.vgi`'s head if that does, or to a commit the bridge writes, which a    *)
(* protected `.vgi` refuses.                                                *)
Commit ==
  LET on(sha) == job' = [job EXCEPT !.at = "central", !.sha = sha]
                 /\ UNCHANGED <<store, adapter, told>>
  IN /\ job.at = "commit"
     /\ \/ /\ version \in {job.seen.sha, org.central.head}
           /\ on(version) /\ UNCHANGED <<org, count>>
        \/ /\ version \notin {job.seen.sha, org.central.head}
           /\ ~org.central.guarded
           /\ Call(org' = [org EXCEPT !.central.head = version], UNCHANGED org,
                   on(version), Abandon)
        \/ /\ version \notin {job.seen.sha, org.central.head}
           /\ org.central.guarded
           /\ Abandon /\ UNCHANGED <<org, count>>
     /\ UNCHANGED <<repo, version>>

ProtectCentral ==
  /\ job.at = "central"
  /\ Call(org' = [org EXCEPT !.central.guarded = TRUE], UNCHANGED org,
          To("rules") /\ UNCHANGED <<store, adapter, told>>, Abandon)
  /\ UNCHANGED <<repo, version>>

(* CapabilityChanged: the adapter forgets the capability, and the first     *)
(* time the job plans again.                                                *)
Replan ==
  \/ /\ job.attempt = 0
     /\ job' = [Again EXCEPT !.at = "plan", !.attempt = 1, !.alone = job.alone]
     /\ UNCHANGED <<store, told>>
  \/ job.attempt = 1 /\ Finish(FALSE)

(* The whole ruleset is written, unless what was read is already it.        *)
RulesetBody ==
  [there |-> TRUE, sha |-> job.sha, ids |-> job.managed \cup {job.repo}]

WriteRules ==
  LET on(step) == To(step) /\ UNCHANGED <<store, adapter, told>>
  IN /\ job.at = "rules"
     /\ IF job.seen = RulesetBody THEN on("rule") /\ UNCHANGED <<org, count>>
        ELSE IF org.supports
        THEN Call(org' = [org EXCEPT !.rules = RulesetBody], UNCHANGED org,
                  on("verify"), Abandon)
        ELSE /\ adapter' = [adapter EXCEPT !.required = FALSE]
             /\ Replan /\ UNCHANGED <<org, count>>
     /\ UNCHANGED <<repo, version>>

(* Read back: a concurrent edit that lost the repository is an error.       *)
VerifyRules ==
  /\ job.at = "verify"
  /\ IF job.repo \in org.rules.ids /\ org.rules.sha = job.sha
     THEN To("rule") /\ UNCHANGED <<store, adapter, told>>
     ELSE Abandon
  /\ UNCHANGED <<org, repo, version, count>>

-----------------------------------------------------------------------------
(* The repository's own steps.  A protected branch takes no direct write.   *)

WorkflowFile ==
  LET on == To("rule") /\ UNCHANGED <<store, adapter, told>>
      r == job.repo
  IN /\ job.at = "file"
     /\ \/ repo[r].file /\ on /\ UNCHANGED <<repo, count>>
        \/ /\ ~repo[r].file /\ repo[r].rule = "none" /\ ~repo[r].archived
           /\ Call(repo' = [repo EXCEPT ![r].file = TRUE], UNCHANGED repo,
                   on, Abandon)
        \/ /\ ~repo[r].file /\ (repo[r].rule # "none" \/ repo[r].archived)
           /\ Abandon /\ UNCHANGED <<repo, count>>
     /\ UNCHANGED <<org, version>>

(* The repository's ruleset: with the check of its own workflow, or without *)
(* it under a required workflow, whose pin the adapter now holds.           *)
GuardRule(required) == IF required THEN "bare" ELSE "check"

RepoRuleset ==
  LET required == job.sha # NoPin
      held == IF required
              THEN [adapter EXCEPT !.managed = @ \cup {job.repo},
                                   !.pin = job.sha]
              ELSE adapter
      rule == GuardRule(required)
      r == job.repo
  IN /\ job.at = "rule"
     /\ adapter' = held
     /\ \/ /\ repo[r].rule = rule \/ ~repo[r].archived
           /\ \/ /\ repo' = [repo EXCEPT ![r].rule = rule]
                 /\ Fine
                 /\ IF required THEN To("clean") /\ UNCHANGED <<store, told>>
                                ELSE Finish(TRUE)
              \/ /\ repo' \in {repo, [repo EXCEPT ![r].rule = rule]}
                 /\ Finish(FALSE) /\ Fault
        \/ /\ repo[r].rule # rule /\ repo[r].archived
           /\ Finish(FALSE) /\ UNCHANGED <<repo, count>>
     /\ UNCHANGED <<org, version>>

(* A workflow left from before cannot be removed from a protected branch:   *)
(* the step fails until a pull request has removed it.                      *)
CleanUp ==
  /\ job.at = "clean"
  /\ adapter' = adapter
  /\ Finish(~repo[job.repo].file)
  /\ UNCHANGED <<org, repo, version, count>>

-----------------------------------------------------------------------------
(* archive: the adapter's set drops the repository before the call.         *)
Archive ==
  LET r == job.repo
  IN /\ job.at = "archive"
     /\ adapter' = [adapter EXCEPT !.managed = @ \ {r}]
     /\ Call(repo' = [repo EXCEPT ![r].archived = TRUE], UNCHANGED repo,
             To("retire"), job' = Idle)
     /\ told' = [told EXCEPT !.tried = @ \cup {r}, !.guarded =
                   IF repo'[r].archived THEN @ \ {r} ELSE @]
     /\ UNCHANGED <<org, store, version>>

Retire ==
  /\ job.at = "retire"
  /\ Persist(adapter)
  /\ job' = Idle
  /\ UNCHANGED <<org, repo, adapter, version, count, told>>

(* A restart: `restore` hands the stored state back, and the job that was   *)
(* under way runs again.  It may be of a newer release.                     *)
Restart ==
  /\ Fault
  /\ adapter' = store
  /\ version' \in {v \in Versions : v >= version}
  /\ job' = IF job.at = "idle" THEN Idle ELSE Again
  /\ UNCHANGED <<org, repo, store, told>>

(* People with rights on the organisation, between any two calls.           *)
Outsider ==
  /\ count.edits < MaxEdits
  /\ count' = [count EXCEPT !.edits = @ + 1]
  /\ \/ /\ org.central.there
        /\ \E c \in Commits : org' = [org EXCEPT !.central.head = c]
        /\ UNCHANGED <<repo, told, job>>
     \/ /\ \/ /\ org.rules.there
              /\ \E ids \in SUBSET Repos, c \in Commits :
                   org' = [org EXCEPT !.rules.ids = ids, !.rules.sha = c]
           \/ org' = [org EXCEPT !.supports = ~@, !.rules = NoRules]
        /\ told' = [told EXCEPT !.guarded = {}]
        /\ job' = [job EXCEPT !.alone = FALSE]
        /\ UNCHANGED repo
     \/ \E r \in Repos :
          /\ \/ repo' = [repo EXCEPT ![r].rule = "none"]
             \/ repo' = [repo EXCEPT ![r].file = ~@]
          /\ told' = [told EXCEPT !.guarded = @ \ {r}]
          /\ job' = [job EXCEPT !.alone = job.alone /\ r # job.repo]
          /\ UNCHANGED org
  /\ UNCHANGED <<store, adapter, version>>

RunJob == Manage \/ Plan \/ Look \/ Commit \/ ProtectCentral \/ WriteRules
            \/ VerifyRules \/ WorkflowFile \/ RepoRuleset \/ CleanUp
            \/ Archive \/ Retire

Admit == \E r \in Repos, kind \in {"bootstrap", "archive"} : Start(r, kind)

Next ==
  \/ Admit \/ RunJob \/ Restart \/ Outsider

Spec == Init /\ [][Next]_vars /\ WF_vars(RunJob)

-----------------------------------------------------------------------------
(* Properties.                                                              *)

Covered(r) == org.rules.there /\ r \in org.rules.ids /\ org.rules.sha # Other
Required(r) == Covered(r) \/ (repo[r].rule = "check" /\ repo[r].file)

(* A repository whose bootstrap ended well is required to pass a check of   *)
(* the bridge's through every later job, restart, release and change of     *)
(* guard, until an archive of it is tried or somebody else changes its      *)
(* rules (guard.rs:309, plan.rs:130: which guard comes off last).           *)
StaysRequired == \A r \in told.guarded \ told.tried : Required(r)

(* forge.rs:283 (`it adds each repository it bootstraps (and its `.vgi`),   *)
(* and drops each it archives`): required until it is archived.  An archive *)
(* that failed dropped it all the same, and the next ruleset leaves it out. *)
KeptUntilArchived == \A r \in told.guarded : Required(r)

=============================================================================
