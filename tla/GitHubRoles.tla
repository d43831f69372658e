----------------------------- MODULE GitHubRoles -----------------------------
(***************************************************************************)
(* The roles of one repository in a GitHub organisation, as the bridge      *)
(* projects them (`vgi-bridge/src/jobs.rs` apply_roles through              *)
(* `vgi-forge-github/src/forge.rs` apply_roles).  A grant to somebody who   *)
(* is no member is an invitation, which they accept or decline between any  *)
(* two of the bridge's calls; collaborators and invitations are read one    *)
(* after the other.  Every call may be refused, or applied and its answer   *)
(* lost, and the bridge may die between two calls.                          *)
(*                                                                          *)
(* The App's own bot and a personal namespace's owner are left out: they    *)
(* are never changed.                                                       *)
(***************************************************************************)
EXTENDS Naturals, FiniteSets

CONSTANTS
  People,      \* accounts the VTC may name
  Inside,      \* members of the organisation, whom its base
               \* permission lets in anyway
  MaxJobs, MaxFaults,
  MaxEdits     \* what people and admins do of themselves

VARIABLES
  role,     \* at GitHub: each person's direct role
  invite,   \* at GitHub: the role each is invited to
  rec,      \* the roles in the bridge's record
  job, last, count,
  told      \* history: what the properties speak of

vars == <<role, invite, rec, job, last, count, told>>

Roles == {"none", "write", "admin"}
Unlisted == "unlisted"
Nobody == [p \in People |-> "none"]

(* Who a job names: those it lists, those projected before, those to remove.*)
Listed(j) == {p \in People : j.want[p] # Unlisted}
Wanted(j, p) ==
  IF p \in Listed(j) /\ p \notin j.remove THEN j.want[p] ELSE "none"

Idle == [at |-> "idle", want |-> [p \in People |-> Unlisted], remove |-> {},
         asked |-> {}, member |-> Nobody, invited |-> Nobody,
         todo |-> {}, failed |-> {}, check |-> {}]

TypeOK ==
  /\ role \in [People -> Roles] /\ invite \in [People -> Roles]
  /\ rec \in [People -> Roles]
  /\ job \in [at : {"idle", "members", "invitations", "change", "access",
                    "record"},
              want : [People -> Roles \cup {Unlisted}], remove : SUBSET People,
              asked : SUBSET People,
              member : [People -> Roles], invited : [People -> Roles],
              todo : SUBSET People, failed : SUBSET People,
              check : SUBSET People]
  /\ last \in [want : [People -> Roles \cup {Unlisted}],
               remove : SUBSET People, ok : BOOLEAN]
  /\ count \in [jobs : 0..MaxJobs, faults : 0..MaxFaults, edits : 0..MaxEdits]
  /\ told \in [moved : SUBSET People, missed : SUBSET People]

Init ==
  /\ role = Nobody /\ invite = Nobody /\ rec = Nobody
  /\ job = Idle
  /\ last = [want |-> Idle.want, remove |-> {}, ok |-> FALSE]
  /\ count = [jobs |-> 0, faults |-> 0, edits |-> 0]
  /\ told = [moved |-> {}, missed |-> {}]

-----------------------------------------------------------------------------
Fault == count.faults < MaxFaults /\ count' = [count EXCEPT !.faults = @ + 1]
Fine == UNCHANGED count
forge == <<role, invite>>

End(ok) ==
  /\ job' = Idle
  /\ last' = [want |-> job.want, remove |-> job.remove, ok |-> ok]

Start(want, remove) ==
  /\ job.at = "idle" /\ count.jobs < MaxJobs
  /\ \A p \in remove : want[p] \in {Unlisted, "none"}
  /\ job' = [Idle EXCEPT !.at = "members", !.want = want, !.remove = remove]
  /\ count' = [count EXCEPT !.jobs = @ + 1]
  /\ told' = [moved |-> {}, missed |-> {}]
  /\ UNCHANGED <<forge, rec, last>>

(* The two reads.  Each may fail, and the job with it.                      *)
ReadMembers ==
  /\ job.at = "members"
  /\ \/ /\ job' = [job EXCEPT !.at = "invitations", !.member = role,
                     !.asked = Listed(job) \cup job.remove
                                 \cup {p \in People : rec[p] # "none"}]
        /\ UNCHANGED <<last, count>>
     \/ End(FALSE) /\ Fault
  /\ UNCHANGED <<forge, rec, told>>

(* What an invitation gives counts as the role of one who is not a member;  *)
(* whoever has the role wanted is left alone.                               *)
Have(member, invited, p) ==
  IF member[p] # "none" THEN member[p] ELSE invited[p]

AtOdds(p) == Have(job.member, invite, p) # Wanted(job, p)

ReadInvitations ==
  /\ job.at = "invitations"
  /\ \/ /\ job' = [job EXCEPT !.at = "change", !.invited = invite,
                     !.todo = {p \in job.asked : AtOdds(p)},
                     !.check = job.remove]
        /\ UNCHANGED <<last, count>>
     \/ End(FALSE) /\ Fault
  /\ told' = [told EXCEPT !.missed =
                {p \in People : role[p] # "none" /\ job.member[p] = "none"
                                /\ invite[p] = "none"}]
  /\ UNCHANGED <<forge, rec>>

(* change_role: by where the person stood when it was read.  An invitation  *)
(* that is gone meanwhile cannot be changed or withdrawn.                   *)
ChangeRole(p) ==
  LET want == Wanted(job, p)
      pending == job.member[p] = "none" /\ job.invited[p] # "none"
      done == job' = [job EXCEPT !.todo = @ \ {p}] /\ UNCHANGED last
      no == job' = [job EXCEPT !.todo = @ \ {p}, !.failed = @ \cup {p},
                               !.check = @ \ {p}] /\ UNCHANGED last
      call(r, i) == \/ role' = r /\ invite' = i /\ done /\ Fine
                    \/ role' = r /\ invite' = i /\ no /\ Fault
                    \/ UNCHANGED forge /\ (no \/ End(FALSE)) /\ Fault
  IN /\ job.at = "change" /\ p \in job.todo
     /\ \/ pending /\ invite[p] # "none"
           /\ call(role, [invite EXCEPT ![p] = want])
        \/ pending /\ invite[p] = "none"
           /\ no /\ UNCHANGED <<forge, count>>
        \/ ~pending /\ want = "none"
           /\ call([role EXCEPT ![p] = "none"], invite)
        \/ /\ ~pending /\ want # "none"
           /\ IF role[p] # "none" \/ p \in Inside
              THEN call([role EXCEPT ![p] = want], [invite EXCEPT ![p] = "none"])
              ELSE call(role, [invite EXCEPT ![p] = want])
     /\ UNCHANGED <<rec, told>>

Changed ==
  /\ job.at = "change" /\ job.todo = {}
  /\ job' = [job EXCEPT !.at = IF job.check = {} THEN "record" ELSE "access"]
  /\ UNCHANGED <<forge, rec, last, count, told>>

(* remaining_access: whoever was to be removed and still gets in, or of     *)
(* whom that cannot be read, makes the job fail.                            *)
HasAccess(p) == role[p] # "none" \/ p \in Inside

RemainingAccess(p) ==
  /\ job.at = "access" /\ p \in job.check
  /\ LET rest == job.check \ {p}
         on(bad) == job' = [job EXCEPT !.check = rest,
                              !.failed = IF bad THEN @ \cup {p} ELSE @,
                              !.at = IF rest = {} THEN "record" ELSE "access"]
     IN \/ on(HasAccess(p)) /\ Fine
        \/ on(TRUE) /\ Fault
  /\ UNCHANGED <<forge, rec, last, told>>

(* The record takes what was asked for, whether or not each change took.    *)
RecordRoles ==
  /\ job.at = "record"
  /\ rec' = [p \in People |-> IF p \in Listed(job) THEN job.want[p] ELSE "none"]
  /\ End(job.failed = {})
  /\ UNCHANGED <<forge, count, told>>

Crash ==
  /\ job.at # "idle" /\ Fault
  /\ job' = [Idle EXCEPT !.at = "members", !.want = job.want,
                         !.remove = job.remove]
  /\ UNCHANGED <<forge, rec, last, told>>

-----------------------------------------------------------------------------
Edit(p) ==
  /\ count.edits < MaxEdits
  /\ count' = [count EXCEPT !.edits = @ + 1]
  /\ UNCHANGED <<rec, job, last>>

Accept(p) ==
  /\ Edit(p) /\ invite[p] # "none"
  /\ role' = [role EXCEPT ![p] = invite[p]]
  /\ invite' = [invite EXCEPT ![p] = "none"]
  /\ UNCHANGED told

(* Somebody declines, or an admin removes or grants a role.                 *)
Moved(p) == told' = [told EXCEPT !.moved = @ \cup {p}]
Decline(p) ==
  /\ Edit(p) /\ invite[p] # "none" /\ Moved(p)
  /\ invite' = [invite EXCEPT ![p] = "none"] /\ UNCHANGED role
AdminSets(p, r) ==
  /\ Edit(p) /\ Moved(p) /\ role[p] # r
  /\ role' = [role EXCEPT ![p] = r]
  /\ invite' = [invite EXCEPT ![p] = "none"]

RunJob == ReadMembers \/ ReadInvitations \/ Changed \/ RecordRoles
            \/ \E p \in People : ChangeRole(p) \/ RemainingAccess(p)

Next ==
  \/ RunJob \/ Crash
  \/ \E want \in [People -> Roles \cup {Unlisted}], remove \in SUBSET People :
       Start(want, remove)
  \/ \E p \in People : Accept(p) \/ Decline(p)
  \/ \E p \in People, r \in {"none", "admin"} : AdminSets(p, r)

Spec == Init /\ [][Next]_vars /\ WF_vars(RunJob)

-----------------------------------------------------------------------------
(* Properties.                                                              *)

(* A projection that ended well left everyone it names with the role asked  *)
(* for, as a member or as the invitation they have, or none of either,      *)
(* however many accepted in between: but for one who accepted between the   *)
(* two reads and was in neither (forge.rs:1628), and one who declined or    *)
(* was changed by an admin.                                                 *)
SuccessGivesRoles ==
  job.at = "idle" /\ last.ok =>
    \A p \in (Listed(last) \cup last.remove) \ (told.moved \cup told.missed) :
      Have(role, invite, p) = Wanted(last, p)

(* A removal that ended well is of somebody who has no access left, even of *)
(* one who was in neither read (jobs.rs:478).                               *)
RemovedAreOut ==
  job.at = "idle" /\ last.ok =>
    \A p \in last.remove \ told.moved : role[p] = "none" /\ p \notin Inside

(* A projection leaves alone whom it does not name.                         *)
KeepsOthers ==
  \A p \in People : job.at = "change" /\ RunJob /\ p \notin job.asked =>
    role'[p] = role[p] /\ invite'[p] = invite[p]
OthersAreKept == [][KeepsOthers]_vars

EveryJobEnds == []<>(job.at = "idle")
=============================================================================
