------------------------------- MODULE Resign -------------------------------
(***************************************************************************)
(* The Dependabot re-sign (`vgi-bridge/src/resign.rs`) of one branch: the   *)
(* ledger kept from signed push deliveries, and the runs that read a pull   *)
(* request, judge its branch by the ledger, re-sign its commits and push    *)
(* them with a lease.  Dependabot and writers push, delete and create the   *)
(* branch at any moment; deliveries are lost, late and out of order.        *)
(*                                                                          *)
(* A head is a number, new with every push; what it holds is the set of     *)
(* those who wrote its commits.  Any writer can have GitHub sign a commit   *)
(* that names Dependabot as author, so that a commit does not show which of *)
(* the two wrote it.  Login and id of a sender are one value.               *)
(***************************************************************************)
EXTENDS Naturals, FiniteSets

CONSTANTS MaxHeads, MaxTime, MaxPushes, Permits, Concurrent,
          Plans     \* how often each move may happen in a behaviour

Moves == {"writer", "dependabot", "delete", "lose", "forget", "crash", "fail", "lag"}

VARIABLES
  branch,   \* its head, None if there is no such branch; who wrote its
            \*   commits, for every head there was; the pull request open from
            \*   it; the head it had before; GitHub's clock
  posts,    \* deliveries under way
  ledger,   \* Branches: the branch's record
  runs,     \* the re-sign runs
  vouched,  \* history: heads that were re-signed; whether one run was turned
            \*   away for another; whether a creation erased what was recorded;
            \*   the bridge's own pushes that went with an erased record
  plan, count

vars == <<branch, posts, ledger, runs, vouched, plan, count>>

None == 0
Heads == 1..MaxHeads
Who == {"dependabot", "writer", "bridge"}
Pushes == [before : 0..MaxHeads, after : Heads, who : Who, created : BOOLEAN]
NoLedger == [kept |-> FALSE, pushes |-> {}, own |-> {}, pull |-> None, last |-> None,
             over |-> FALSE]

TypeOK ==
  /\ plan \in [Moves -> Nat]
  /\ branch \in [head : 0..MaxHeads, holds : [Heads -> SUBSET Who], next : 1..(MaxHeads + 1),
                 pull : Nat, before : 0..MaxHeads, life : Nat, now : 1..MaxTime]
  /\ \A d \in posts :
       d \in [kind : {"push"}, push : Pushes, at : 1..MaxTime]
               \cup [kind : {"gone"}, at : 1..MaxTime] \cup [kind : {"pull"}, pull : Nat]
  /\ ledger \in [kept : BOOLEAN, pushes : SUBSET Pushes, own : SUBSET (Heads \X Heads),
                 pull : Nat, last : 0..MaxTime, over : BOOLEAN]
  /\ \A r \in runs :
       r \in [n : 1..Concurrent, pull : Nat, head : 0..MaxHeads, new : 0..MaxHeads,
              at : {"read", "judge", "permit", "held", "record", "send"}]
  /\ vouched \in [heads : SUBSET Heads, turned : BOOLEAN, erased : BOOLEAN,
                  lost : SUBSET (Heads \X Heads)]

Init ==
  /\ branch = [head |-> None, holds |-> [h \in Heads |-> {}], next |-> 1, pull |-> None,
               before |-> None, life |-> 0, now |-> 1]
  /\ posts = {} /\ ledger = NoLedger /\ runs = {}
  /\ vouched = [heads |-> {}, turned |-> FALSE, erased |-> FALSE, lost |-> {}]
  /\ plan \in Plans
  /\ count = [m \in Moves |-> 0]

Happens(m) ==
  /\ count[m] < plan[m]
  /\ count' = [count EXCEPT ![m] = @ + 1]
  /\ UNCHANGED plan
Quiet == UNCHANGED <<plan, count>>

-----------------------------------------------------------------------------
(* The branch on GitHub, and the deliveries that tell of it.                *)

Post(before, after, who, at) ==
  [kind |-> "push", at |-> at,
   push |-> [before |-> before, after |-> after, who |-> who, created |-> before = None]]
Pull(n) == [kind |-> "pull", pull |-> n]

(* `who' pushes a new head that holds `holds', in this second or the next.  *)
Moves2(who, holds) ==
  LET h == branch.next IN
  \E t \in {branch.now, branch.now + 1} \cap 1..MaxTime :
    /\ h \in Heads
    /\ branch' = [branch EXCEPT
         !.head = h, !.holds[h] = holds, !.next = @ + 1, !.now = t,
         !.before = IF branch.head = None THEN h ELSE branch.head,
         !.life = IF branch.head = None THEN @ + 1 ELSE @,
         !.pull = IF branch.head = None THEN branch.life + 1 ELSE @]
    /\ posts' = posts \cup {Post(branch.head, h, who, t)}
         \cup {Pull(branch'.pull)}      \* opened, or synchronized

(* Dependabot creates the branch, adds to it, or starts its commits over.   *)
DependabotPushes(over) ==
  /\ Happens("dependabot")
  /\ branch.head = None => over
  /\ Moves2("dependabot",
            {"dependabot"} \cup IF over THEN {} ELSE branch.holds[branch.head])
  /\ UNCHANGED <<ledger, runs, vouched>>

WriterPushes ==
  /\ Happens("writer")
  /\ Moves2("writer", {"writer"} \cup
            IF branch.head = None THEN {} ELSE branch.holds[branch.head])
  /\ UNCHANGED <<ledger, runs, vouched>>

(* Whoever deletes it closes its pull request.                              *)
DeleteBranch ==
  /\ Happens("delete") /\ branch.head # None
  /\ branch' = [branch EXCEPT !.head = None, !.before = None, !.pull = None]
  /\ posts' = posts \cup {[kind |-> "gone", at |-> branch.now]}
  /\ UNCHANGED <<ledger, runs, vouched>>

Lose(d) ==
  /\ Happens("lose") /\ d \in posts
  /\ posts' = posts \ {d}
  /\ UNCHANGED <<branch, ledger, runs, vouched>>

-----------------------------------------------------------------------------
(* The ledger.                                                              *)

(* Whether a delivery of second `t' may reset the record or clear it.       *)
Newest(t) == t >= ledger.last

(* The record after a push: afresh after a creation, the pull request kept. *)
WithPush(d) ==
  LET l == IF d.push.created /\ Newest(d.at)
           THEN [NoLedger EXCEPT !.pull = ledger.pull, !.last = ledger.last]
           ELSE ledger
      full == d.push \notin l.pushes /\ Cardinality(l.pushes) >= MaxPushes
  IN [l EXCEPT !.kept = TRUE,
               !.last = IF d.at > @ THEN d.at ELSE @,
               !.over = @ \/ full,
               !.pushes = IF full THEN @ ELSE @ \cup {d.push}]

(* A run for the pull request; a delivery waits while Concurrent of them are*)
(* at work (the bound on runs).                                             *)
Spawned(n) ==
  {r \in [n : 1..Concurrent, pull : {n}, head : {None}, new : {None}, at : {"read"}] :
     r.n \notin {s.n : s \in runs}}
Spawn(n) ==
  IF n = None THEN UNCHANGED runs
  ELSE \E r \in Spawned(n) : runs' = runs \cup {r}

Erases == vouched' = [vouched EXCEPT !.erased = @ \/ ledger.pushes # {},
                                     !.lost = @ \cup ledger.own]

OnPush(d) ==
  /\ d \in posts /\ d.kind = "push" /\ Quiet
  /\ posts' = posts \ {d}
  /\ ledger' = WithPush(d)
  /\ IF d.push.created /\ Newest(d.at) THEN Erases ELSE UNCHANGED vouched
  /\ Spawn(ledger.pull)
  /\ UNCHANGED branch

OnDeletion(d) ==
  /\ d \in posts /\ d.kind = "gone" /\ Quiet
  /\ posts' = posts \ {d}
  /\ IF Newest(d.at) THEN Erases /\ ledger' = NoLedger ELSE UNCHANGED <<ledger, vouched>>
  /\ UNCHANGED <<branch, runs>>

OnPullRequest(d) ==
  /\ d \in posts /\ d.kind = "pull" /\ Quiet
  /\ posts' = posts \ {d}
  /\ Spawn(d.pull)
  /\ UNCHANGED <<branch, ledger, vouched>>

(* Other branches push it out (make_room), or nothing touched it for ninety *)
(* days (prune).                                                            *)
Forget ==
  /\ Happens("forget") /\ ledger.kept
  /\ ledger' = NoLedger
  /\ Erases
  /\ UNCHANGED <<branch, posts, runs>>

(* is_clean.  Every head is new, so a ledger without foreign pushes has one *)
(* push at most to each.                                                    *)
Own(p) == <<p.before, p.after>> \in ledger.own
Foreign == {p \in ledger.pushes : p.who # "dependabot" /\ ~Own(p)}
Links ==
  {<<p.before, p.after>> : p \in {p \in ledger.pushes : ~p.created}}
    \cup {o \in ledger.own : \A p \in ledger.pushes : p.after # o[2]}
(* The walk from `h' back: the least set that holds it and what its heads   *)
(* were pushed over.                                                        *)
Walks(s) == \A l \in Links : l[2] \in s => l[1] \in s
Back(h) == {n \in 0..MaxHeads : \A s \in SUBSET (0..MaxHeads) : h \in s /\ Walks(s) => n \in s}
Clean(h) ==
  /\ ~ledger.over
  /\ Foreign = {}
  /\ \E p \in ledger.pushes :
       p.created /\ p.who = "dependabot" /\ p.after \in Back(h)

-----------------------------------------------------------------------------
(* A run.                                                                   *)

Ends(r) == runs' = runs \ {r}
Goes(r, s) == runs' = (runs \ {r}) \cup {s}
Holding(r) == r.at \in {"held", "record", "send"}

Remembering(n) == [ledger EXCEPT !.kept = TRUE, !.pull = n]
(* The pull request, from the API - which may lag one push behind - is      *)
(* remembered if it is open.                                                *)
Read(r, head) ==
  /\ r.at = "read"
  /\ \/ head = branch.head /\ Quiet
     \/ head = branch.before /\ head # branch.head /\ Happens("lag")
  /\ IF r.pull = branch.pull /\ head # None
     THEN /\ Goes(r, [r EXCEPT !.at = "judge", !.head = head])
          /\ ledger' = Remembering(r.pull)
     ELSE Ends(r) /\ UNCHANGED ledger
  /\ UNCHANGED <<branch, posts, vouched>>

Judge(r) ==
  /\ r.at = "judge" /\ Quiet
  /\ IF Clean(r.head) THEN Goes(r, [r EXCEPT !.at = "permit"]) ELSE Ends(r)
  /\ UNCHANGED <<branch, posts, ledger, vouched>>

(* A permit, then the branch - or away, if another run has it.              *)
Hold(r) ==
  /\ r.at = "permit" /\ Quiet
  /\ Cardinality({s \in runs : Holding(s)}) < Permits
  /\ LET taken == \E s \in runs : Holding(s) IN
     /\ IF taken THEN Ends(r) ELSE Goes(r, [r EXCEPT !.at = "held"])
     /\ vouched' = [vouched EXCEPT !.turned = @ \/ taken]
  /\ UNCHANGED <<branch, posts, ledger>>

(* Where the branch is, and what the commits are: all signed by GitHub.     *)
Examine(r) ==
  /\ r.at = "held" /\ Quiet
  /\ IF branch.head = r.head /\ "bridge" \notin branch.holds[r.head] /\ branch.next \in Heads
     THEN /\ Goes(r, [r EXCEPT !.at = "record", !.new = branch.next])
          /\ branch' = [branch EXCEPT !.holds[branch.next] = {"bridge"}, !.next = @ + 1]
     ELSE Ends(r) /\ UNCHANGED branch
  /\ UNCHANGED <<posts, ledger, vouched>>

WithOwnLatest(r) == [ledger EXCEPT !.own = {<<r.head, r.new>>}]
WithOwn(r) == [ledger EXCEPT !.own = @ \cup {<<r.head, r.new>>}]
(* The bridge's push, on record before it is sent.                          *)
RecordOwn(r) ==
  /\ r.at = "record" /\ Quiet
  /\ IF ledger.kept
     THEN /\ ledger' = WithOwn(r)
          /\ Goes(r, [r EXCEPT !.at = "send"])
     ELSE Ends(r) /\ UNCHANGED ledger
  /\ UNCHANGED <<branch, posts, vouched>>

(* The lease: the branch moves only from the head that was re-signed.       *)
Leased(r) == branch.head = r.head
Send(r) ==
  /\ r.at = "send" /\ Quiet
  /\ Ends(r)
  /\ IF Leased(r)
     THEN /\ branch' = [branch EXCEPT !.head = r.new, !.before = r.head]
          /\ posts' = posts \cup {Post(r.head, r.new, "bridge", branch.now),
                                  Pull(branch.pull)}
          /\ vouched' = [vouched EXCEPT !.heads = @ \cup {r.head}]
     ELSE UNCHANGED <<branch, posts, vouched>>
  /\ UNCHANGED ledger

Fail(r) == Happens("fail") /\ Ends(r) /\ UNCHANGED <<branch, posts, ledger, vouched>>
Crash == Happens("crash") /\ runs' = {} /\ UNCHANGED <<branch, posts, ledger, vouched>>

-----------------------------------------------------------------------------
Receive == \E d \in posts : OnPush(d) \/ OnDeletion(d) \/ OnPullRequest(d)
Work == \E r \in runs :
  \/ Read(r, branch.head) \/ Judge(r) \/ Hold(r) \/ Examine(r) \/ RecordOwn(r) \/ Send(r)
Next ==
  \/ \E over \in BOOLEAN : DependabotPushes(over)
  \/ WriterPushes \/ DeleteBranch \/ Forget \/ Crash
  \/ \E d \in posts : Lose(d)
  \/ \E r \in runs : Read(r, branch.before) \/ Fail(r)
  \/ Receive \/ Work

(* Deliveries arrive and runs go on.                                        *)
Spec == Init /\ [][Next]_vars /\ WF_vars(Receive) /\ WF_vars(Work)

-----------------------------------------------------------------------------
(* The bridge signs only what Dependabot wrote, whatever deliveries it saw  *)
(* and in which order (resign.rs:365 is_clean and the lease).               *)
OnlyDependabots == \A h \in vouched.heads : branch.holds[h] = {"dependabot"}

(* The bridge's own push is not taken for a stranger's, however it and the  *)
(* run's end are ordered with crashes (resign.rs:862: on record before it   *)
(* is sent) - but for one whose record a deletion, a new creation or the    *)
(* housekeeping erased.                                                     *)
OwnIsKnown ==
  \A p \in Foreign : p.who = "bridge" => <<p.before, p.after>> \in vouched.lost

(* A pull request that only Dependabot pushed to is re-signed in the end, if*)
(* nothing was lost or forgotten, no creation came after another push of its*)
(* second, and no run was turned away for another.                          *)
Undisturbed ==
  /\ \A m \in {"writer", "lose", "forget", "crash", "fail", "lag"} : count[m] = 0
  /\ count["delete"] = 0 /\ ~ledger.over /\ ~vouched.erased
  /\ branch.next \in Heads
Settled == branch.head = None \/ "bridge" \in branch.holds[branch.head]
Resigned == Undisturbed /\ ~vouched.turned => Settled
CleanIsResigned == []<>Resigned

(* "the push that moved it resumes the re-sign" (resign.rs:775).            *)
Resumed == Undisturbed => Settled
PushResumes == []<>Resumed
=============================================================================
