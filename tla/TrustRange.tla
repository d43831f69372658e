----------------------------- MODULE TrustRange -----------------------------
(***************************************************************************)
(* verify-trust over a range of commits (verify-trust/src/lib.rs): the      *)
(* signature of each, the registry's decision on each signer that signed,   *)
(* and the policy that lets a platform's signature pass on a clean merge of *)
(* parents that pass, settled round by round.                               *)
(*                                                                          *)
(* A commit is a number; its parents are commits of the range, commits on   *)
(* the branch the range is measured against, or neither.  Keys, names and   *)
(* trees are kept as far as the checks tell them apart.                     *)
(***************************************************************************)
EXTENDS Naturals, Sequences, FiniteSets

CONSTANTS Commits,     \* those of the range
          OnBranch,    \* outside the range, on the branch (the boundary)
          Elsewhere,   \* outside both
          Dids, Publishes,   \* the keys that each DID's document lists; none:
                             \*   it did not resolve
          MaxSigners,
          Ranges       \* the ranges there may be

Keys == UNION {Publishes[d] : d \in Dids}
(* A signature: its armor, whether it holds for the bytes, with which key   *)
(* (or whether that is in the keyring); and the DIDs that the commit names, *)
(* in its trailer and as its committer.                                     *)
Signatures == [armor : {"none", "cut", "pgp", "ssh"}, holds : BOOLEAN,
               key : Keys \cup {"exempt"}, names : SUBSET Dids]
Trees == {"merge", "other", "conflict", "unknown"}
Parents == Commits \cup OnBranch \cup Elsewhere
CommitRanges == [Commits -> [sign : Signatures, parents : Seq(Parents), tree : Trees]]
ASSUME RangesAssumption == Ranges \subseteq CommitRanges
ASSUME OutsideAssumption == Commits \cap OnBranch = {}
Decisions == {"granted", "denied", "unavailable"}
Statuses == {"unread", "unsigned", "malformed", "conflicting", "nobody", "unresolved",
             "unknownKey", "bad", "pgpRejected", "valid", "exempt",
             "trusted", "unauthorized", "unavailable",
             "edit", "unverifiedParent", "altered"}

VARIABLES
  range,     \* the commits: signature, parents, and how the tree compares with
             \*   the merge of the parents, recomputed
  decides,   \* the registry's decision on each DID
  status,    \* the verdicts so far
  undecided, \* platform merges not settled
  at

vars == <<range, decides, status, undecided, at>>

TypeOK ==
  /\ range \in CommitRanges
  /\ decides \in [Dids -> Decisions]
  /\ status \in [Commits -> Statuses]
  /\ undecided \subseteq Commits
  /\ at \in {"claims", "signatures", "registry", "merges", "done", "refused"}

Init ==
  /\ range \in Ranges
  /\ decides \in [Dids -> Decisions]
  /\ status = [c \in Commits |-> "unread"]
  /\ undecided = {}
  /\ at = "claims"

-----------------------------------------------------------------------------
(* The DIDs to resolve, each at a cost: a commit claims one, or none.       *)
Names(c) == range[c].sign.names
Claimed == {d \in Dids : \E c \in Commits : Names(c) = {d}}
Claims ==
  /\ at = "claims"
  /\ at' = IF Cardinality(Claimed) > MaxSigners THEN "refused" ELSE "signatures"
  /\ UNCHANGED <<range, decides, status, undecided>>

(* The claimed DID's own key, and no other's, must have signed.             *)
BySigner(s) ==
  LET d == CHOOSE d \in Dids : s.names = {d} IN
  IF Publishes[d] = {} THEN "unresolved"
  ELSE IF s.key \notin Publishes[d] THEN "unknownKey"
  ELSE IF ~s.holds THEN "bad" ELSE "valid"
SshChecked(s) ==
  IF s.names = {} THEN "nobody"
  ELSE IF \A d \in s.names : s.names # {d} THEN "conflicting"
  ELSE BySigner(s)
Checked(s) ==
  CASE s.armor = "none" -> "unsigned"
    [] s.armor = "cut"  -> "malformed"
    [] s.armor = "pgp"  -> IF s.key = "exempt" /\ s.holds THEN "exempt" ELSE "pgpRejected"
    [] s.armor = "ssh"  -> SshChecked(s)
CheckSignatures ==
  /\ at = "signatures"
  /\ status' = [c \in Commits |-> Checked(range[c].sign)]
  /\ at' = "registry"
  /\ UNCHANGED <<range, decides, undecided>>

StatusRaw(d) == d
StatusOf(d) ==
  CASE d = "granted"     -> "trusted"
    [] d = "denied"      -> "unauthorized"
    [] d = "unavailable" -> "unavailable"
QueryRegistry ==
  /\ at = "registry"
  /\ status' = [c \in Commits |->
       IF status[c] = "valid" THEN StatusOf(decides[CHOOSE d \in Dids : Names(c) = {d}])
       ELSE status[c]]
  /\ undecided' = {c \in Commits : status[c] = "exempt"}
  /\ at' = "merges"
  /\ UNCHANGED <<range, decides>>

-----------------------------------------------------------------------------
(* The policy for platform-signed commits.                                  *)

Passes(s) == s \in {"trusted", "exempt"}
ParentsOf(c) == {range[c].parents[i] : i \in DOMAIN range[c].parents}
(* A parent that does not pass, and is not one that may yet.                *)
Fails(p) ==
  IF p \in Commits THEN p \notin undecided /\ ~Passes(status[p]) ELSE p \notin OnBranch
WaitsNever(c) == FALSE
Waits(c) == ParentsOf(c) \cap undecided # {}
CleanMerge(c) == Len(range[c].parents) = 2 /\ range[c].tree = "merge"

Judged(c) ==
  IF Len(range[c].parents) < 2 THEN "edit"
  ELSE IF \E p \in ParentsOf(c) : Fails(p) THEN "unverifiedParent"
  ELSE IF CleanMerge(c) THEN "exempt" ELSE "altered"
Ready(c) ==
  \/ Len(range[c].parents) < 2
  \/ \E p \in ParentsOf(c) : Fails(p)
  \/ ~Waits(c)

RestAll(ready) == undecided
Rest(ready) == undecided \ ready

(* A round judges all it can by the verdicts it began with.  A round that   *)
(* can judge none - no real range has one - fails them.                     *)
Settle ==
  /\ at = "merges" /\ undecided # {}
  /\ LET ready == {c \in undecided : Ready(c)} IN
     IF ready = {}
     THEN /\ status' = [c \in Commits |->
                          IF c \in undecided THEN "unverifiedParent" ELSE status[c]]
          /\ undecided' = {}
     ELSE /\ status' = [c \in Commits |-> IF c \in ready THEN Judged(c) ELSE status[c]]
          /\ undecided' = Rest(ready)
  /\ UNCHANGED <<range, decides, at>>

Report ==
  /\ at = "merges" /\ undecided = {}
  /\ at' = "done"
  /\ UNCHANGED <<range, decides, status, undecided>>

Next == Claims \/ CheckSignatures \/ QueryRegistry \/ Settle \/ Report
Spec == Init /\ [][Next]_vars /\ WF_vars(Next)

-----------------------------------------------------------------------------
(* The reference: who vouches for a commit, told along its ancestry.        *)

(* Its signer does: one whom it names alone, who holds the key, and whom    *)
(* the registry authorises.                                                 *)
Signed(c) ==
  \E d \in Dids :
    /\ Names(c) = {d} /\ decides[d] = "granted"
    /\ range[c].sign.armor = "ssh" /\ range[c].sign.holds
    /\ range[c].sign.key \in Publishes[d]
(* Or the platform does, of a merge that adds nothing to its two parents,   *)
(* if these are vouched for, or on the branch.                              *)
Merges(c) ==
  /\ range[c].sign.armor = "pgp" /\ range[c].sign.holds /\ range[c].sign.key = "exempt"
  /\ Len(range[c].parents) = 2 /\ range[c].tree = "merge"
Closed(S) ==
  \A c \in Commits :
    Signed(c) \/ (Merges(c) /\ ParentsOf(c) \subseteq S \cup OnBranch) => c \in S
(* The least set that is closed under both.                                 *)
Vouched == {c \in Commits : \A S \in SUBSET Commits : Closed(S) => c \in S}

(* A commit passes if and only if it is vouched for, in whatever order its  *)
(* merges come and are settled (lib.rs:602 apply_platform_merge_policy).    *)
PassesIffVouched ==
  at = "done" => \A c \in Commits : Passes(status[c]) <=> c \in Vouched

(* The rounds come to an end (lib.rs:693).                                  *)
Settles == <>(at \in {"done", "refused"})
=============================================================================
