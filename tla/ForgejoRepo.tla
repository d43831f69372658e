----------------------------- MODULE ForgejoRepo -----------------------------
(***************************************************************************)
(* One repository on Forgejo and the bridge's jobs on it: create, bootstrap *)
(* and role projection (`vgi-bridge/src/jobs.rs`) through the adapter       *)
(* (`vgi-forge-forgejo/src/forge.rs`), one API call a step.  The jobs of a  *)
(* namespace run one at a time; the repository's admins do not wait for     *)
(* them.  Every call may be refused, or applied and its answer lost, and    *)
(* the bridge may die between two calls: a job then runs again from its     *)
(* start.                                                                   *)
(*                                                                          *)
(* Left out: the bot and a personal namespace's holder, whose removal       *)
(* `Removals::sort` refuses and whom `expressible` drops; file contents and *)
(* check names, which are as they should be or are not.                     *)
(***************************************************************************)
EXTENDS Naturals, FiniteSets

CONSTANTS
  People,      \* accounts the VTC may name
  Teammates,   \* those a team gives access to the repository anyway
  Plans        \* whom it is about, and how often each happens: jobs sent to
               \* the bridge, calls that go wrong and crashes, and changes
               \* made by the repository's admins

VARIABLES
  repo,    \* the repository at Forgejo
  rec,     \* the bridge's record of it
  job,     \* the job under way
  last,    \* how the last job ended
  plan,
  count,   \* jobs, faults, edits so far
  told     \* history: what the properties speak of

vars == <<repo, rec, job, last, plan, count, told>>

-----------------------------------------------------------------------------
(* Roles, and how Forgejo expresses them.                                   *)

Perms == {"none", "read", "write", "admin"}
Roles == {"none", "write", "maintain", "admin"}
Unlisted == "unlisted"

PermOfAsNamed(role) == role
PermOf(role) == IF role = "maintain" THEN "write" ELSE role
OnList(role) == role \in {"maintain", "admin"}

NoRoles == [p \in People |-> "none"]
Rules == [there : BOOLEAN, push : {"nobody", "bot", "anyone"},
          paths : BOOLEAN, list : SUBSET People]
NoRule == [there |-> FALSE, push |-> "anyone", paths |-> FALSE, list |-> {}]

Closed(rule) == rule.there /\ rule.push = "nobody" /\ rule.paths

(* A job's answer to `who does it name`: the people it lists, those the     *)
(* bridge projected before, and those it is asked to remove.                *)
Listed(j) == {p \in People : j.want[p] # Unlisted}
Asked(j) == Listed(j) \cup {p \in People : rec.roles[p] # "none"} \cup j.remove
Wanted(j, p) ==
  IF p \in Listed(j) /\ p \notin j.remove THEN j.want[p] ELSE "none"

Kinds == {"create", "bootstrap", "roles"}
Stages == {"create", "manage", "merges", "files", "open", "write", "restore",
           "protect", "read", "change", "record"}

Idle == [kind |-> "none", only |-> "all", want |-> [p \in People |-> Unlisted],
         remove |-> {}, at |-> "idle", prior |-> NoRule, tries |-> 0,
         bad |-> FALSE, seen |-> [perm |-> NoRoles, rule |-> NoRule],
         asked |-> {}, todo |-> {}, failed |-> {}, add |-> {}, drop |-> {}]

First(kind) == CASE kind = "create" -> "create"
                 [] kind = "bootstrap" -> "manage"
                 [] kind = "roles" -> "read"

TypeOK ==
  /\ repo \in [made : {"no", "bridge", "stranger"}, merges : BOOLEAN,
               file : {"absent", "stale", "current"},
               perm : [People -> Perms], rule : Rules]
  /\ rec \in [known : BOOLEAN, checked : BOOLEAN, roles : [People -> Roles]]
  /\ job \in [kind : Kinds \cup {"none"}, only : {"all", "files"},
              want : [People -> Roles \cup {Unlisted}], remove : SUBSET People,
              at : Stages \cup {"idle"}, prior : Rules, tries : 0..2,
              bad : BOOLEAN,
              seen : [perm : [People -> Perms], rule : Rules],
              asked : SUBSET People, todo : SUBSET People,
              failed : SUBSET People, add : SUBSET People, drop : SUBSET People]
  /\ last \in [kind : Kinds \cup {"none"}, only : {"all", "files"},
               want : [People -> Roles \cup {Unlisted}], remove : SUBSET People,
               ok : BOOLEAN]
  /\ plan \in [people : SUBSET People, jobs : Nat, faults : Nat, edits : Nat]
  /\ count \in [jobs : 0..plan.jobs, faults : 0..plan.faults, edits : 0..plan.edits]
  /\ told \in [clean : BOOLEAN, cut : BOOLEAN, ajar : BOOLEAN,
               given : SUBSET People, slipped : SUBSET People,
               stray : SUBSET People]

Init ==
  /\ repo = [made |-> "no", merges |-> FALSE, file |-> "absent",
             perm |-> NoRoles, rule |-> NoRule]
  /\ rec = [known |-> FALSE, checked |-> FALSE, roles |-> NoRoles]
  /\ job = Idle
  /\ last = [kind |-> "none", only |-> "all", want |-> Idle.want,
             remove |-> {}, ok |-> FALSE]
  /\ plan \in Plans
  /\ count = [jobs |-> 0, faults |-> 0, edits |-> 0]
  /\ told = [clean |-> TRUE, cut |-> FALSE, ajar |-> FALSE,
             given |-> {}, slipped |-> {}, stray |-> {}]

-----------------------------------------------------------------------------
(* The outcome of one API call: done, refused, or done and not answered.    *)

Fault == count.faults < plan.faults /\ count' = [count EXCEPT !.faults = @ + 1]
Fine == UNCHANGED count

To(stage) == job' = [job EXCEPT !.at = stage]

(* The job ends with its report.                                            *)
End(ok) ==
  /\ job' = Idle
  /\ last' = [kind |-> job.kind, only |-> job.only, want |-> job.want,
              remove |-> job.remove, ok |-> ok]

(* A call that changes the repository to `next`.                            *)
Call(next, Done, Failed) ==
  \/ repo' = next /\ Done /\ Fine
  \/ UNCHANGED repo /\ Failed /\ Fault
  \/ repo' = next /\ Failed /\ Fault

-----------------------------------------------------------------------------
(* A job is taken up.  A create is not sent for a repository that is known. *)

Start(kind, only, want, remove) ==
  /\ job.at = "idle" /\ count.jobs < plan.jobs
  /\ only = "files" => kind = "bootstrap"
  /\ kind = "bootstrap" => Listed([want |-> want]) = {}
  /\ kind # "roles" => remove = {}
  /\ Listed([want |-> want]) \cup remove \subseteq plan.people
  /\ \A p \in remove : want[p] \in {Unlisted, "none"}
  /\ kind # "create" => repo.made # "no"
  /\ job' = [Idle EXCEPT !.kind = kind, !.only = only, !.want = want,
                         !.remove = remove, !.at = First(kind)]
  /\ count' = [count EXCEPT !.jobs = @ + 1]
  /\ told' = [told EXCEPT !.clean = TRUE]
  /\ UNCHANGED <<repo, rec, last>>

(* create_repo: a name that exists is the bridge's own earlier attempt only *)
(* if the bridge recorded it.                                               *)
Taken == repo.made # "no"

CreateRepo ==
  /\ job.at = "create"
  /\ \/ /\ ~Taken
        /\ Call([repo EXCEPT !.made = "bridge"],
                To("manage") /\ UNCHANGED last, End(FALSE))
        /\ told' = [told EXCEPT !.cut = @ \/ (repo'.made = "bridge"
                                              /\ job'.at = "idle")]
     \/ /\ Taken
        /\ IF rec.known THEN To("manage") /\ UNCHANGED last ELSE End(FALSE)
        /\ UNCHANGED <<repo, count, told>>
  /\ UNCHANGED rec

(* manage: record the repository; then the plan, or what is asked of it.    *)
Managed == [rec EXCEPT !.known = TRUE]

Manage ==
  /\ job.at = "manage"
  /\ rec' = Managed
  /\ To(IF job.only = "all" THEN "merges" ELSE "files")
  /\ UNCHANGED <<repo, last, count, told>>

(* The step `merge-styles`: configure_repo.                                 *)
ConfigureRepo ==
  /\ job.at = "merges"
  /\ IF repo.merges
     THEN To("files") /\ UNCHANGED <<repo, last, count>>
     ELSE Call([repo EXCEPT !.merges = TRUE],
               To("files") /\ UNCHANGED last, End(FALSE))
  /\ UNCHANGED <<rec, told>>

(* After the last step, run_bootstrap records the check; a create goes on   *)
(* to the roles.                                                            *)
Bootstrapped ==
  /\ rec' = [rec EXCEPT !.checked = rec.known]
  /\ IF job.kind = "create" THEN To("read") /\ UNCHANGED last ELSE End(TRUE)

AfterFiles ==
  IF job.only = "all" THEN To("protect") /\ UNCHANGED <<rec, last>>
  ELSE Bootstrapped

(* The steps that write managed files: refresh_on_branch opens the rule     *)
(* for the bot, writes, and puts back what it found.                        *)
RefreshFiles ==
  /\ job.at = "files"
  /\ IF repo.file = "current" THEN AfterFiles
     ELSE /\ job' = [job EXCEPT !.at = IF repo.rule.there THEN "open"
                                                          ELSE "write",
                                !.prior = repo.rule]
          /\ UNCHANGED <<rec, last>>
  /\ UNCHANGED <<repo, count, told>>

NotOpenedEnds == End(FALSE)
NotOpened ==
  job' = [job EXCEPT !.at = "restore", !.bad = TRUE] /\ UNCHANGED last

OpenForBot ==
  /\ job.at = "open"
  /\ \/ /\ repo.rule.there
        /\ Call([repo EXCEPT !.rule.push = "bot", !.rule.paths = FALSE],
                To("write") /\ UNCHANGED last, NotOpened)
     \/ ~repo.rule.there /\ NotOpened /\ UNCHANGED <<repo, count>>
  /\ UNCHANGED <<rec, told>>

WriteFile ==
  LET done(ok) ==
        IF job.prior.there
        THEN job' = [job EXCEPT !.at = "restore", !.bad = ~ok]
             /\ UNCHANGED <<rec, last>>
        ELSE IF ok THEN AfterFiles ELSE End(FALSE) /\ UNCHANGED rec
  IN /\ job.at = "write"
     /\ \/ /\ repo.rule.there => repo.rule.push # "nobody" /\ ~repo.rule.paths
           /\ Call([repo EXCEPT !.file = "current"], done(TRUE), done(FALSE))
        \/ /\ repo.rule.there
           /\ repo.rule.push = "nobody" \/ repo.rule.paths
           /\ done(FALSE) /\ UNCHANGED <<repo, count>>
     /\ UNCHANGED told

(* The restore is tried twice, whatever became of the writes.               *)
NotRestoredTriesOn == UNCHANGED <<job, last>>
NotRestored ==
  IF job.tries = 0 THEN job' = [job EXCEPT !.tries = 1] /\ UNCHANGED last
  ELSE End(FALSE)

RestoreRule ==
  LET restored == [repo EXCEPT !.rule.push = job.prior.push,
                               !.rule.paths = job.prior.paths]
  IN /\ job.at = "restore"
     /\ \/ /\ repo.rule.there
           /\ Call(restored,
                   IF job.bad THEN End(FALSE) /\ UNCHANGED rec ELSE AfterFiles,
                   NotRestored /\ UNCHANGED rec)
        \/ /\ ~repo.rule.there
           /\ NotRestored /\ UNCHANGED <<repo, rec, count>>
     /\ told' = [told EXCEPT !.ajar =
                   repo'.rule.push = "bot"
                     /\ (@ \/ job'.at = "idle" \/ job.prior.push = "bot")]

(* The step `protection`: protect seeds the merge allow-list with the       *)
(* repository's admins.                                                     *)
ProtectionRequest ==
  [there |-> TRUE, push |-> "nobody", paths |-> TRUE,
   list |-> repo.rule.list \cup {p \in People : repo.perm[p] = "admin"}]

Protect ==
  /\ job.at = "protect"
  /\ IF Closed(repo.rule)
     THEN Bootstrapped /\ UNCHANGED <<repo, count>>
     ELSE Call([repo EXCEPT !.rule = ProtectionRequest], Bootstrapped,
               End(FALSE) /\ UNCHANGED rec)
  /\ told' = [told EXCEPT !.ajar = @ /\ repo'.rule.push = "bot"]

-----------------------------------------------------------------------------
(* Roles: jobs.rs apply_roles, and the adapter's.                           *)

Have(p) == job.seen.perm[p]
HaveListed(p) == Have(p) # "none" /\ p \in job.seen.rule.list
NeedListed(p) == job.seen.rule.there /\ OnList(Wanted(job, p))
Unexpressible(p) == Wanted(job, p) = "maintain" /\ ~job.seen.rule.there

Strays(r) == {p \in r.rule.list : r.perm[p] = "none"}

(* What is there is read once: collaborators and the merge allow-list.      *)
ReadRoles ==
  /\ job.at = "read"
  /\ job' = [job EXCEPT !.at = "change", !.asked = Asked(job),
                        !.todo = Asked(job),
                        !.seen = [perm |-> repo.perm, rule |-> repo.rule]]
  /\ told' = [told EXCEPT !.stray = Strays(repo)]
  /\ UNCHANGED <<repo, rec, last, count>>

(* One person's permission.  A lost credential or a rate limit ends the job *)
(* with nothing recorded; any other failure is this person's.               *)
ChangeRole(p) ==
  LET perm == PermOf(Wanted(job, p))
      on == NeedListed(p) /\ ~HaveListed(p)
      off == ~NeedListed(p) /\ HaveListed(p)
      ok == job' = [job EXCEPT !.todo = @ \ {p},
                      !.failed = IF Unexpressible(p) THEN @ \cup {p} ELSE @,
                      !.add = IF on THEN @ \cup {p} ELSE @,
                      !.drop = IF off THEN @ \cup {p} ELSE @]
            /\ UNCHANGED last
      no == job' = [job EXCEPT !.todo = @ \ {p}, !.failed = @ \cup {p}]
            /\ UNCHANGED last
      fatal == End(FALSE)
  IN /\ job.at = "change" /\ p \in job.todo
     /\ IF Have(p) = perm
        THEN /\ UNCHANGED repo
             /\ (ok /\ Fine) \/ (on /\ (no \/ fatal) /\ Fault)
        ELSE \/ Call([repo EXCEPT !.perm[p] = perm], ok, no)
             \/ UNCHANGED repo /\ fatal /\ Fault
     /\ told' = [told EXCEPT
          !.given = IF repo'.perm[p] = repo.perm[p] THEN @
                    ELSE IF perm = "none" THEN @ \ {p} ELSE @ \cup {p},
          !.slipped = IF job'.at = "idle" THEN @ \cup job.asked ELSE @]
     /\ UNCHANGED rec

(* One write of the allow-list for all of them, from the list as read.      *)
NextListOnlyAsked ==
  {p \in job.seen.rule.list :
     Have(p) = "none" \/ (p \in job.asked /\ NeedListed(p))} \cup job.add
NextList ==
  {p \in job.seen.rule.list :
     IF Have(p) = "none" THEN TRUE
     ELSE IF p \in job.asked THEN NeedListed(p) ELSE TRUE} \cup job.add

WriteAllowList ==
  LET rest == job.failed \cup job.add \cup job.drop
      done(bad) == job' = [job EXCEPT !.at = "record", !.failed = bad]
  IN /\ job.at = "change" /\ job.todo = {}
     /\ IF ~job.seen.rule.there \/ NextList = job.seen.rule.list
        THEN done(job.failed) /\ UNCHANGED <<repo, last, count>>
        ELSE \/ /\ repo.rule.there
                /\ Call([repo EXCEPT !.rule.list = NextList],
                        done(job.failed), done(rest))
                /\ UNCHANGED last
             \/ ~repo.rule.there /\ done(rest) /\ UNCHANGED <<repo, last, count>>
             \/ UNCHANGED repo /\ End(FALSE) /\ Fault
     /\ told' = [told EXCEPT !.slipped = IF job'.at = "idle" THEN @ \cup job.asked
                                                             ELSE @]
     /\ UNCHANGED rec

(* The record takes what was asked for, whether or not each change took.    *)
RecordedIfAllTook ==
  IF job.failed # {} THEN rec.roles
  ELSE [p \in People |-> IF p \in Listed(job) THEN job.want[p] ELSE "none"]
Recorded ==
  [p \in People |-> IF p \in Listed(job) THEN job.want[p] ELSE "none"]

(* remaining_access: removed here, and still let in by a team.              *)
StillIn == job.remove \cap Teammates

RecordRoles ==
  /\ job.at = "record"
  /\ rec' = [rec EXCEPT !.known = TRUE, !.roles = Recorded]
  /\ End(job.failed = {} /\ StillIn = {})
  /\ told' = [told EXCEPT !.slipped = @ \cup job.failed]
  /\ UNCHANGED <<repo, count>>

-----------------------------------------------------------------------------
(* The bridge dies; the job runs again from its start.                      *)
Crash ==
  /\ job.at # "idle"
  /\ Fault
  /\ job' = [Idle EXCEPT !.kind = job.kind, !.only = job.only,
                         !.want = job.want, !.remove = job.remove,
                         !.at = First(job.kind)]
  /\ told' = [told EXCEPT
       !.cut = @ \/ (job.kind = "create" /\ job.at = "manage" /\ ~rec.known),
       !.ajar = @ \/ repo.rule.push = "bot",
       !.slipped = IF job.at \in {"change", "record"} THEN @ \cup job.asked
                                                      ELSE @]
  /\ UNCHANGED <<repo, rec, last>>

(* The repository's admins, between any two calls.                          *)
Outsider ==
  /\ count.edits < plan.edits
  /\ count' = [count EXCEPT !.edits = @ + 1]
  /\ \/ /\ repo.made = "no"
        /\ repo' = [repo EXCEPT !.made = "stranger"]
        /\ UNCHANGED told
     \/ /\ repo.made # "no"
        /\ \/ \E p \in plan.people, r \in {"none", "read", "admin"} :
                /\ repo' = [repo EXCEPT !.perm[p] = r]
                /\ told' = [told EXCEPT !.clean = FALSE, !.given = @ \ {p}]
           \/ /\ repo.rule.there
              /\ \/ repo' = [repo EXCEPT !.rule = NoRule]
                 \/ repo' = [repo EXCEPT !.rule.push = "anyone"]
                 \/ \E p \in plan.people : repo' = [repo EXCEPT !.rule.list = @ \cup {p}]
              /\ told' = [told EXCEPT !.clean = FALSE,
                            !.ajar = @ /\ repo'.rule.push = "bot"]
  /\ UNCHANGED <<rec, job, last>>

(* A bridge with a newer rendering of the workflow.                         *)
NewRelease ==
  /\ repo.file = "current" /\ job.at = "idle"
  /\ repo' = [repo EXCEPT !.file = "stale"]
  /\ told' = [told EXCEPT !.clean = FALSE]
  /\ UNCHANGED <<rec, job, last, count>>

RunJob ==
  /\ UNCHANGED plan
  /\ \/ CreateRepo \/ Manage \/ ConfigureRepo
     \/ RefreshFiles \/ OpenForBot \/ WriteFile \/ RestoreRule \/ Protect
     \/ ReadRoles \/ (\E p \in People : ChangeRole(p))
     \/ WriteAllowList \/ RecordRoles

Admit ==
  \/ \E kind \in {"create", "roles"}, want \in [People -> Roles \cup {Unlisted}],
        remove \in SUBSET People : Start(kind, "all", want, remove)
  \/ \E only \in {"all", "files"} : Start("bootstrap", only, Idle.want, {})

Next == UNCHANGED plan /\ (Admit \/ RunJob \/ Crash \/ Outsider \/ NewRelease)

Spec == Init /\ [][Next]_vars /\ WF_vars(RunJob)

-----------------------------------------------------------------------------
(* Properties.                                                              *)

(* A bootstrap of every step, or a create, that ended well leaves the       *)
(* default branch closed and the check's file current, whatever earlier     *)
(* attempts were cut off in (jobs.rs:762, forge.rs:773).                    *)
DoneMeansGuarded ==
  job.at = "idle" /\ last.ok /\ last.kind \in {"create", "bootstrap"}
    /\ last.only = "all" /\ told.clean
  => Closed(repo.rule) /\ repo.file = "current" /\ repo.merges

(* The branch is open to the bot only while it writes there, or because a   *)
(* job that opened it was cut off or said that it could not close it        *)
(* (forge.rs:789: the restore is attempted whatever happened).              *)
LeftAjarIsKnown ==
  repo.rule.push = "bot" /\ job.at \notin {"write", "restore"} => told.ajar

(* A projection that ended well left everyone it names with exactly the     *)
(* role asked for, allow-list included, unless an admin changed something   *)
(* meanwhile (forge.rs:1711).                                               *)
SuccessIsExact ==
  job.at = "idle" /\ last.ok /\ last.kind \in {"create", "roles"} /\ told.clean
  => \A p \in People :
       LET role == Wanted(last, p)
       IN p \in Listed(last) \cup last.remove =>
            /\ repo.perm[p] = PermOf(role)
            /\ repo.rule.there /\ role # "none" /\ p \notin told.stray
               => (p \in repo.rule.list <=> OnList(role))

(* A role the bridge gave is in its record, unless the change was reported  *)
(* failed or its job was cut off (jobs.rs:405: only what is recorded is     *)
(* taken away later).                                                       *)
GivenIsRecorded ==
  job.at = "idle" => \A p \in told.given :
    rec.roles[p] # "none" \/ p \in told.slipped

(* A create answered `nameTaken` met a stranger's repository, or the        *)
(* bridge's own from a create that was cut off or unanswered before it was  *)
(* recorded (jobs.rs:602).                                                  *)
OwnIsRecognised ==
  repo.made = "bridge" /\ job.at # "manage" => rec.known \/ told.cut

(* A projection changes nobody's role, and nobody's place on the allow-list *)
(* but through an admin's concurrent edit, whom it does not name, the       *)
(* bridge did not project before and it was not asked to remove             *)
(* (Unlisted::Keep).                                                        *)
KeepsOthers ==
  \A p \in People :
    job.at = "change" /\ p \notin job.asked /\ told'.clean
    => /\ repo'.perm[p] = repo.perm[p]
       /\ p \in repo'.rule.list <=> p \in repo.rule.list
OthersAreKept == [][KeepsOthers]_vars

(* Every job ends: each call answers or fails, and the bridge does not die  *)
(* for ever.                                                                *)
EveryJobEnds == []<>(job.at = "idle")

(* jobs.rs:357 (`people not listed lose a role the bridge projected         *)
(* before`): once a projection has ended well, whoever holds a role the     *)
(* bridge gave is one it lists.  It does not hold: a removal that failed is *)
(* no longer in the record, so the job sent again does not try it again.    *)
UnlistedLoseTheirRole ==
  job.at = "idle" /\ last.ok /\ last.kind = "roles" /\ told.clean
  => told.given \subseteq Listed(last)

=============================================================================
