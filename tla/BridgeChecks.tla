----------------------------- MODULE BridgeChecks -----------------------------
(***************************************************************************)
(* The check the bridge posts itself, on one repository whose ruleset      *)
(* requires it on the protected branch.  GitHub's deliveries (a pull       *)
(* request opened, pushed to, reopened or given another base; a merge      *)
(* group; a request to run again) each start a task that reads the pull    *)
(* request from GitHub, posts a run on its head, verifies the commits      *)
(* against the registry and completes the run.                             *)
(*                                                                         *)
(* A run attaches to a commit, and GitHub lets a pull request into the     *)
(* protected branch when the newest run on its head is a success: what     *)
(* this module asks is whether anything gets in that no run vouched for,   *)
(* and whether every pull request gets its verdict.                        *)
(*                                                                         *)
(* A head is a commit, Reach[h] what is reachable from it, on[b] what is   *)
(* reachable from branch b.  Each arrival of a delivery is a task; a       *)
(* redelivery is another arrival of the same delivery.                     *)
(***************************************************************************)
EXTENDS Naturals, FiniteSets

CONSTANTS
    Commits, Heads,
    Reach,          \* [Heads -> SUBSET Commits]
    Pulls,          \* pull request numbers
    Branches, Protected,
    Held,           \* [Branches -> SUBSET Commits], what each holds at first
    Nothing,        \* no head, no branch, no pull request
    Permits,        \* checks.concurrency
    MaxArrivals,    \* bound: deliveries, redeliveries among them
    Plans           \* how often each move may happen in a behaviour

ASSUME ReachAssumption == Reach \in [Heads -> SUBSET Commits]
ASSUME HeldAssumption == Held \in [Branches -> SUBSET Commits]
ASSUME ProtectedAssumption == Protected \in Branches
ASSUME NothingAssumption == Nothing \notin Heads \cup Branches \cup Pulls
ASSUME BoundAssumption == Permits \in Nat \ {0} /\ MaxArrivals \in Nat

\* What people, the registry, the VTC, GitHub and the network do.
Moves == {"open", "push", "retarget", "close", "rerun", "group", "trust", "orphan",
          "loss", "failure", "crash", "lag"}

ASSUME PlanAssumption == Plans \subseteq [Moves -> Nat]

Arrivals == 1..MaxArrivals
States == {"none", "running", "success", "failure"}

VARIABLES
    pull,       \* each pull request: open, its head, its base and what that held
    shown,      \* and as GitHub's API shows it
    on,         \* what each branch holds
    gate,       \* the newest run on each head
    trusted,    \* the commits whose signers the registry grants the right
    governed,   \* whether the VTC has the namespace (it is bound, not orphaned)
    task,       \* what became of each arrival
    arrived,    \* how many there were
    handled,    \* Deliveries: the ids recorded as handled
    inFlight,   \* CheckRunner::in_flight
    started,    \* how many runs were started
    lastCheck,  \* RepoRecord::last_check
    pending,    \* the repository's report waits
    reports,    \* reports that wait for the namespace's lock
    inspected,  \* the last check the one that holds it read
    told,       \* the last check the VTC was told of
    vouched,    \* commits some check found trusted, and those there from the start
    newest,     \* the run judged last on each head
    plan, count

github == <<pull, shown, on, trusted, governed>>
report == <<lastCheck, pending, reports, inspected, told>>
history == <<vouched, newest>>
vars == <<pull, shown, on, gate, trusted, governed, task, arrived, handled, inFlight,
          started, lastCheck, pending, reports, inspected, told, vouched, newest, plan, count>>

NoPull == [open |-> FALSE, head |-> Nothing, base |-> Nothing, holds |-> {}]
NoTask == [at |-> "unsent", of |-> 0, kind |-> "pull", pulls |-> {}, left |-> {}, head |-> Nothing,
           pull |-> Nothing, base |-> Nothing, holds |-> {}, orphaned |-> FALSE,
           run |-> 0, verdict |-> "none", ok |-> TRUE]
NoCheck == [head |-> Nothing, verdict |-> "none"]
None == [head |-> Nothing, verdict |-> "unread"]

Init ==
    /\ pull = [n \in Pulls |-> NoPull]
    /\ shown = pull
    /\ on = Held
    /\ gate = [h \in Heads |-> [run |-> 0, state |-> "none"]]
    /\ trusted = Commits
    /\ governed = TRUE
    /\ task = [i \in Arrivals |-> NoTask]
    /\ arrived = 0
    /\ handled = {}
    /\ inFlight = {}
    /\ started = 0
    /\ lastCheck = NoCheck /\ told = NoCheck
    /\ pending = FALSE /\ reports = 0 /\ inspected = None
    /\ vouched = Held[Protected]
    /\ newest = [h \in Heads |-> 0]
    /\ plan \in Plans
    /\ count = [m \in Moves |-> 0]

Done(t) == [NoTask EXCEPT !.at = "done", !.of = t.of]

Happens(ms) ==
    /\ \A m \in ms : count[m] < plan[m]
    /\ count' = [m \in Moves |-> IF m \in ms THEN count[m] + 1 ELSE count[m]]
    /\ UNCHANGED plan

Never(ms) == \A m \in ms : count[m] = 0
Calm == UNCHANGED <<plan, count>>

\* The trigger is done with, posted or not.
Onward(t) == [t EXCEPT !.at = "next", !.left = @ \ {t.pull}, !.pull = Nothing,
                      !.run = 0, !.verdict = "none", !.orphaned = FALSE,
                      !.base = IF t.kind = "group" THEN t.base ELSE Nothing,
                      !.holds = IF t.kind = "group" THEN t.holds ELSE {}]

----------------------------------------------------------------------------
(* GitHub, people, the registry and the VTC.                              *)

\* A delivery is sent; each arrival of it will be a task.
Deliver(d) ==
    /\ arrived < MaxArrivals
    /\ arrived' = arrived + 1
    /\ task' = [task EXCEPT ![arrived + 1] = [d EXCEPT !.at = "underway"]]

New(kind, pulls, h) ==
    [NoTask EXCEPT !.of = arrived + 1, !.kind = kind, !.pulls = pulls, !.left = pulls,
                   !.head = h]

\* The check's own state, the registry's answers and the branches.
Aside == UNCHANGED <<gate, handled, inFlight, started, report, history>>
World == UNCHANGED <<on, trusted, governed>>

\* A pull request changes; what the API shows of it may lag behind.
Changes(move, n, p) ==
    /\ pull' = [pull EXCEPT ![n] = p]
    /\ \/ Happens({move}) /\ shown' = [shown EXCEPT ![n] = p]
       \/ Happens({move, "lag"}) /\ UNCHANGED shown

Tells(move, n, p) ==
    /\ Changes(move, n, p)
    /\ Deliver(New("pull", {n}, p.head))
    /\ Aside /\ World

Open(n, h, b) ==
    /\ pull[n] = NoPull
    /\ Tells("open", n, [open |-> TRUE, head |-> h, base |-> b, holds |-> on[b]])

Push(n, h) ==
    /\ pull[n].open /\ pull[n].head # h
    /\ Tells("push", n, [pull[n] EXCEPT !.head = h, !.holds = on[pull[n].base]])

Retarget(n, b) ==
    /\ pull[n].open /\ pull[n].base # b
    /\ Tells("retarget", n, [pull[n] EXCEPT !.base = b, !.holds = on[b]])

Reopen(n) ==
    /\ pull[n].head # Nothing /\ ~pull[n].open
    /\ Tells("close", n, [pull[n] EXCEPT !.open = TRUE])

\* (No check is due for a closed one.)
Close(n) ==
    /\ pull[n].open
    /\ Changes("close", n, [pull[n] EXCEPT !.open = FALSE])
    /\ UNCHANGED <<task, arrived>>
    /\ Aside /\ World

CatchUp(n) ==
    /\ shown[n] # pull[n]
    /\ shown' = [shown EXCEPT ![n] = pull[n]]
    /\ UNCHANGED <<pull, on, trusted, governed, task, arrived>>
    /\ Aside /\ Calm

\* A finished run is asked for again, for every pull request of its head.
Rerun(h) ==
    LET of == {n \in Pulls : pull[n].open /\ pull[n].head = h}
    IN  /\ gate[h].state \in {"success", "failure"} /\ of # {}
        /\ Happens({"rerun"})
        /\ Deliver(New("again", of, h))
        /\ UNCHANGED <<pull, shown>> /\ Aside /\ World

\* A merge queue asks for checks on what it would put on a branch: a group of
\* one, whose head is the pull request's.
Queue(n) ==
    LET p == pull[n]
    IN  /\ p.open
        /\ Happens({"group"})
        /\ Deliver([New("group", {Nothing}, p.head) EXCEPT !.base = p.base,
                                                           !.holds = on[p.base]])
        /\ UNCHANGED <<pull, shown>> /\ Aside /\ World

\* GitHub's rule: into the protected branch only with a success on the head.
\* (The other branches stay as they are; what is merged is not reopened.)
Merge(n) ==
    LET p == pull[n]
    IN  /\ p.open
        /\ p.base = Protected /\ gate[p.head].state = "success"
        /\ on' = [on EXCEPT ![Protected] = @ \cup Reach[p.head]]
        /\ pull' = [pull EXCEPT ![n] = [p EXCEPT !.open = FALSE, !.head = Nothing]]
        /\ shown' = [shown EXCEPT ![n] = pull'[n]]
        /\ UNCHANGED <<trusted, governed, task, arrived>>
        /\ Aside /\ Calm

Trust(c) ==
    /\ Happens({"trust"})
    /\ trusted' = IF c \in trusted THEN trusted \ {c} ELSE trusted \cup {c}
    /\ UNCHANGED <<pull, shown, on, governed, task, arrived>> /\ Aside

Govern ==
    /\ Happens({"orphan"})
    /\ governed' = ~governed
    /\ UNCHANGED <<pull, shown, on, trusted, task, arrived>> /\ Aside

Lose(i) ==
    /\ task[i].at = "underway"
    /\ Happens({"loss"})
    /\ task' = [task EXCEPT ![i].at = "cut"]
    /\ UNCHANGED <<pull, shown, arrived>> /\ Aside /\ World

\* A delivery that came to nothing is sent again, from the App's page.
Redeliver(i) ==
    /\ task[i].at \in {"cut", "failed"} /\ task[i].of \notin handled
    /\ \A j \in Arrivals : j > i => task[j].of # task[i].of
    /\ Deliver([Onward(task[i]) EXCEPT !.left = task[i].pulls, !.ok = TRUE])
    /\ UNCHANGED <<pull, shown>> /\ Aside /\ World /\ Calm

----------------------------------------------------------------------------
(* A delivery, and its triggers one after the other.                      *)

Bridge == UNCHANGED <<github, arrived>>

\* on_webhook: a delivery handled before is answered and no more.
Receives(i) ==
    /\ task[i].at = "underway"
    /\ task' = [task EXCEPT ![i] = IF task[i].of \in handled
                                   THEN Done(task[i]) ELSE [task[i] EXCEPT !.at = "next"]]
    /\ UNCHANGED <<gate, inFlight, started, report, history>> /\ Bridge /\ Calm

\* (Mistake: it is recorded as handled when it arrives.)
ReceiveRecorded(i) == Receives(i) /\ handled' = handled \cup {task[i].of}

Receive(i) == Receives(i) /\ UNCHANGED handled

\* checks::run: the namespace, as it is now, for the next trigger.
Begin(i, n) ==
    /\ task[i].at = "next" /\ n \in task[i].left
    /\ task' = [task EXCEPT ![i].at = IF task[i].kind = "group" THEN "basing" ELSE "reading",
                            ![i].pull = n,
                            ![i].orphaned = ~governed]
    /\ Aside /\ Bridge /\ Calm

\* The pull request is read from GitHub, with its base's tip, of now or of its
\* last change: closed or moved on, it is left alone.
ReadPull(i) ==
    /\ task[i].at = "reading"
    /\ LET t == task[i]
           p == shown[t.pull]
       IN  \/ /\ p.open /\ p.head = t.head
              /\ \E tip \in {p.holds, on[p.base]} :
                    task' = [task EXCEPT ![i] = [t EXCEPT !.at = "basing", !.base = p.base,
                                                          !.holds = tip]]
           \/ /\ ~(p.open /\ p.head = t.head)
              /\ task' = [task EXCEPT ![i] = Onward(t)]
    /\ Aside /\ Bridge /\ Calm

Key(t) == <<t.head, t.base>>

\* (Mistake: any base will do.)
MayClaimAnyBase(t) == Key(t) \notin inFlight

\* (Mistake: a check that runs already is not looked for.)
MayClaimTwice(t) == t.base = Protected

\* Nothing is posted against a base the ruleset does not protect, nor twice at
\* a time.
MayClaim(t) == t.base = Protected /\ Key(t) \notin inFlight

\* (Mistake: what was claimed is dropped at once.)
Claimed(t) == inFlight

Claims(t) == inFlight \cup {Key(t)}

Claim(i) ==
    /\ task[i].at = "basing"
    /\ \/ /\ MayClaim(task[i])
          /\ inFlight' = Claims(task[i])
          /\ task' = [task EXCEPT ![i].at = "claimed"]
       \/ /\ ~MayClaim(task[i])
          /\ task' = [task EXCEPT ![i] = Onward(task[i])]
          /\ UNCHANGED inFlight
    /\ UNCHANGED <<gate, handled, started, report, history>> /\ Bridge /\ Calm

AtWork == {i \in Arrivals : task[i].at \in {"judging", "finishing", "posted"}}

\* GitHub has a new run on the head, in progress.
PostsRun(t) ==
    /\ started' = started + 1
    /\ gate' = [gate EXCEPT ![t.head] = [run |-> started + 1, state |-> "running"]]

\* A permit first.
Starts(t) == Cardinality(AtWork) < Permits /\ PostsRun(t)

StartRun(i) ==
    /\ task[i].at = "claimed"
    /\ Starts(task[i])
    /\ task' = [task EXCEPT ![i].at = "judging", ![i].run = started + 1]
    /\ UNCHANGED <<handled, inFlight, report, history>> /\ Bridge /\ Calm

\* compare_commits: base...head.
Range(t) == Reach[t.head] \ t.holds

\* verify: every commit of the range is one the registry lets its signer sign;
\* an empty range is a success on the base's tip alone.
Passes(t) ==
    /\ ~t.orphaned
    /\ IF Range(t) = {} THEN Reach[t.head] = t.holds ELSE Range(t) \subseteq trusted

\* Whatever cannot be verified fails: a range too long or listed in part, a fetch
\* or a question to the registry that comes to nothing.
Judge(i) ==
    /\ task[i].at = "judging"
    /\ \E v \in {"success", "failure"} :
        /\ v = "failure" \/ Passes(task[i])
        /\ IF v = "failure" /\ Passes(task[i]) THEN Happens({"failure"}) ELSE Calm
        /\ task' = [task EXCEPT ![i].at = "finishing", ![i].verdict = v]
    /\ newest' = [newest EXCEPT ![task[i].head] = task[i].run]
    /\ vouched' = vouched \cup (Range(task[i]) \cap trusted)
    /\ UNCHANGED <<gate, handled, inFlight, started, report>> /\ Bridge

Finishes(t) ==
    gate' = IF gate[t.head].run = t.run
            THEN [gate EXCEPT ![t.head].state = t.verdict] ELSE gate

FinishRun(i) ==
    /\ task[i].at = "finishing"
    /\ Finishes(task[i])
    /\ task' = [task EXCEPT ![i].at = "posted"]
    /\ UNCHANGED <<handled, inFlight, started, report, history>> /\ Bridge /\ Calm

\* The repository's record, and report_check: one report waits at a time.
Posted(i) ==
    /\ task[i].at = "posted"
    /\ LET t == task[i]
       IN  /\ lastCheck' = [head |-> t.head, verdict |-> t.verdict]
           /\ inFlight' = inFlight \ {Key(t)}
           /\ task' = [task EXCEPT ![i] = Onward(t)]
    /\ UNCHANGED <<gate, handled, started, reports, inspected, told, history>>
    /\ Bridge /\ Calm

Record(i) == Posted(i) /\ pending' = TRUE

\* A request to GitHub fails; one that writes may have been applied.
Fails(i) ==
    /\ task[i].at \in {"reading", "basing", "claimed", "finishing"}
    /\ Happens({"failure"})
    /\ LET t == task[i]
       IN  /\ task' = [task EXCEPT ![i] = [Onward(t) EXCEPT !.ok = FALSE]]
           /\ inFlight' = IF t.at \in {"claimed", "finishing"}
                          THEN inFlight \ {Key(t)} ELSE inFlight
           /\ \/ UNCHANGED <<gate, started>>
              \/ t.at = "claimed" /\ Starts(t)
              \/ t.at = "finishing" /\ Finishes(t) /\ UNCHANGED started
    /\ UNCHANGED <<handled, report, history>> /\ Bridge

\* spawn's on_done: handled, if every trigger was posted or left alone.
EndDelivery(i) ==
    /\ task[i].at = "next" /\ task[i].left = {}
    /\ handled' = IF task[i].ok THEN handled \cup {task[i].of} ELSE handled
    /\ task' = [task EXCEPT ![i] =
                  IF task[i].ok THEN Done(task[i]) ELSE [task[i] EXCEPT !.at = "failed"]]
    /\ UNCHANGED <<gate, inFlight, started, report, history>> /\ Bridge /\ Calm

----------------------------------------------------------------------------
(* The report of the last check.                                          *)

Checks == <<task, gate, handled, inFlight, started, history>>

\* The interval has passed: the slot is freed before the repository is looked at.
StartReport ==
    /\ pending
    /\ pending' = FALSE
    /\ reports' = reports + (IF governed THEN 1 ELSE 0)
    /\ UNCHANGED <<lastCheck, inspected, told, Checks>> /\ Bridge /\ Calm

\* Under the namespace's lock: the record is read, then the VTC told.
Inspect ==
    /\ reports > 0 /\ inspected = None
    /\ reports' = reports - 1
    /\ \/ inspected' = lastCheck /\ Calm
       \/ UNCHANGED inspected /\ Happens({"failure"})
    /\ UNCHANGED <<lastCheck, pending, told, Checks>> /\ Bridge

Tell ==
    /\ inspected # None
    /\ inspected' = None
    /\ \/ told' = inspected /\ Calm
       \/ UNCHANGED told /\ Happens({"failure"})
    /\ UNCHANGED <<lastCheck, pending, reports, Checks>> /\ Bridge

\* The process dies and starts again: its checks and reports are gone, their
\* runs stay as they are.
Crash ==
    /\ Happens({"crash"})
    /\ task' = [i \in Arrivals |->
                  IF task[i].at \in {"unsent", "underway", "done", "failed", "cut"}
                  THEN task[i] ELSE [Onward(task[i]) EXCEPT !.at = "cut", !.ok = TRUE]]
    /\ inFlight' = {}
    /\ pending' = FALSE /\ reports' = 0 /\ inspected' = None
    /\ UNCHANGED <<gate, handled, started, lastCheck, told, history>> /\ Bridge

----------------------------------------------------------------------------

People ==
    \/ \E n \in Pulls : \/ Reopen(n) \/ Close(n) \/ Queue(n) \/ Merge(n)
                        \/ \E h \in Heads : Push(n, h)
                        \/ \E b \in Branches : Retarget(n, b)
                        \/ \E h \in Heads, b \in Branches : Open(n, h, b)
    \/ \E h \in Heads : Rerun(h)
    \/ \E c \in Commits : Trust(c)
    \/ Govern

Network ==
    \/ \E n \in Pulls : CatchUp(n)
    \/ \E i \in Arrivals : Lose(i) \/ Redeliver(i)

Check(i) ==
    \/ Receive(i) \/ (\E n \in task[i].left : Begin(i, n)) \/ ReadPull(i) \/ Claim(i)
    \/ StartRun(i) \/ Judge(i) \/ FinishRun(i) \/ Record(i) \/ EndDelivery(i)

Next ==
    \/ People \/ Network
    \/ \E i \in Arrivals : Check(i) \/ Fails(i)
    \/ StartReport \/ Inspect \/ Tell
    \/ Crash

Spec == Init /\ [][Next]_vars

\* Spawned tasks proceed and permits are handed out in turn; a waiting report
\* wakes; the API catches up; and, as the operators' guide asks, a delivery that
\* came to nothing is sent again.
Fairness ==
    /\ \A i \in Arrivals : WF_vars(Check(i)) /\ WF_vars(Redeliver(i))
    /\ \A n \in Pulls : WF_vars(CatchUp(n))
    /\ WF_vars(StartReport) /\ WF_vars(Inspect) /\ WF_vars(Tell)

FairSpec == Spec /\ Fairness

----------------------------------------------------------------------------
(* Properties.                                                             *)

PullRequests == [open : BOOLEAN, head : Heads \cup {Nothing},
                 base : Branches \cup {Nothing}, holds : SUBSET Commits]
Tasks == [at : {"unsent", "underway", "next", "reading", "basing", "claimed", "judging",
                "finishing", "posted", "done", "failed", "cut"},
          of : 0..MaxArrivals, kind : {"pull", "again", "group"},
          pulls : SUBSET (Pulls \cup {Nothing}), left : SUBSET (Pulls \cup {Nothing}),
          head : Heads \cup {Nothing}, pull : Pulls \cup {Nothing},
          base : Branches \cup {Nothing}, holds : SUBSET Commits, orphaned : BOOLEAN,
          run : Nat, verdict : {"none", "success", "failure"}, ok : BOOLEAN]
LastChecks == [head : Heads \cup {Nothing}, verdict : {"none", "success", "failure"}]

\* Type correctness; every check at work is one the runner knows to be in
\* flight, and none shares its key with another.
TypeOK ==
    /\ pull \in [Pulls -> PullRequests] /\ shown \in [Pulls -> PullRequests]
    /\ on \in [Branches -> SUBSET Commits]
    /\ gate \in [Heads -> [run : Nat, state : States]]
    /\ trusted \subseteq Commits /\ governed \in BOOLEAN
    /\ task \in [Arrivals -> Tasks] /\ arrived \in 0..MaxArrivals
    /\ handled \subseteq Arrivals
    /\ inFlight \subseteq Heads \X Branches
    /\ \A i \in AtWork : Key(task[i]) \in inFlight
    /\ \A i, j \in AtWork : Key(task[i]) = Key(task[j]) => i = j
    /\ started \in Nat
    /\ lastCheck \in LastChecks /\ told \in LastChecks
    /\ pending \in BOOLEAN /\ reports \in Nat /\ inspected \in LastChecks \cup {None}
    /\ vouched \subseteq Commits /\ newest \in [Heads -> Nat]
    /\ plan \in [Moves -> Nat] /\ count \in [Moves -> Nat]

\* Nothing is on the protected branch but what a check found trusted: whatever
\* heads are shared, bases moved, answers stale and deliveries repeated, the
\* success GitHub goes by covers all that the merge brings in.
NothingUnvouched == on[Protected] \subseteq vouched

\* The verdict GitHub goes by is the one judged last: no check of a head judged
\* before another completes after it.
NewestVerdictStands ==
    \A h \in Heads : gate[h].state \in {"success", "failure"} => newest[h] = gate[h].run

Due(n, h) == pull[n].open /\ pull[n].base = Protected /\ pull[n].head = h

\* Every pull request into the protected branch gets a verdict on its head, over
\* crashes, failed requests, lost deliveries and checks left to another that
\* runs already.  (Unless what the API shows lags behind a delivery: the pull
\* request has then "moved on", and its new delivery is recorded as handled.)
EveryHeadIsJudged ==
    \A n \in Pulls, h \in Heads :
        Due(n, h) ~> \/ ~Due(n, h) \/ gate[h].state \in {"success", "failure"}
                     \/ ~Never({"lag"})

\* The VTC is told of the last check, however many fall in one interval.
\* (Unless a crash or a failed request takes the report, or the namespace is
\* orphaned.)
ReportsCatchUp ==
    told # lastCheck ~> told = lastCheck \/ ~Never({"crash", "failure", "orphan"})

\* Whoever waits for a check hears of it: the forge at the head, the VTC of the
\* namespace (run_check's verdict and record_check's report).
VerdictsArrive == EveryHeadIsJudged /\ ReportsCatchUp
=============================================================================
