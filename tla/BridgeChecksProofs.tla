-------------------------- MODULE BridgeChecksProofs --------------------------
(* What is proved of BridgeChecks, for all commits, heads, branches and pull *)
(* requests, any number of permits and arrivals, and every plan.             *)
EXTENDS BridgeChecks, TLAPS

(* Types.                                                                  *)

Moving == {"underway", "next", "reading", "basing", "claimed", "judging", "finishing",
           "posted", "failed", "cut"}

\* A check that holds its key in the runner's set.
Holding(t) == t.at \in {"claimed", "judging", "finishing", "posted"}

PullOK(p) ==
    /\ p \in PullRequests
    /\ p.open => p.head # Nothing
    /\ p.head # Nothing => p.base \in Branches

TaskOK(t) ==
    /\ t \in Tasks
    /\ t.at \in Moving => t.head \in Heads /\ t.of \in Arrivals
    /\ t.kind # "group" => t.pulls \subseteq Pulls /\ t.left \subseteq Pulls
    /\ t.at = "reading" => t.pull \in Pulls
    /\ Holding(t) => t.base = Protected

PullsOK ==
    /\ pull \in [Pulls -> PullRequests] /\ shown \in [Pulls -> PullRequests]
    /\ \A n \in Pulls : PullOK(pull[n]) /\ PullOK(shown[n])

TasksOK ==
    /\ task \in [Arrivals -> Tasks]
    /\ \A i \in Arrivals : TaskOK(task[i])
    /\ \A i \in Arrivals : Holding(task[i]) => Key(task[i]) \in inFlight
    /\ \A i, j \in Arrivals :
          Holding(task[i]) /\ Holding(task[j]) /\ Key(task[i]) = Key(task[j]) => i = j

WorldOK ==
    /\ on \in [Branches -> SUBSET Commits]
    /\ trusted \subseteq Commits /\ governed \in BOOLEAN
    /\ arrived \in 0..MaxArrivals

StoreOK ==
    /\ gate \in [Heads -> [run : Nat, state : States]]
    /\ handled \subseteq Arrivals
    /\ inFlight \subseteq Heads \X Branches
    /\ started \in Nat

ReportOK ==
    /\ lastCheck \in LastChecks /\ told \in LastChecks
    /\ pending \in BOOLEAN /\ reports \in Nat /\ inspected \in LastChecks \cup {None}

HistoryOK == vouched \subseteq Commits /\ newest \in [Heads -> Nat]

PlanOK == plan \in [Moves -> Nat] /\ count \in [Moves -> Nat]

Typed ==
    PullsOK /\ TasksOK /\ WorldOK /\ StoreOK /\ ReportOK /\ HistoryOK /\ PlanOK

\* A check at work holds its key: the invariant is as strong as TypeOK.
LEMMA TypedIsTyped == Typed => TypeOK
<1> SUFFICES ASSUME Typed PROVE TypeOK
  OBVIOUS
<1>1. \A i \in AtWork : i \in Arrivals /\ Holding(task[i])
  BY DEF AtWork, Holding
<1> QED
  BY <1>1 DEF Typed, TypeOK, PullsOK, TasksOK, WorldOK, StoreOK, ReportOK, HistoryOK, PlanOK

\* What nothing has happened to yet.
LEMMA Blank == TaskOK(NoTask) /\ PullOK(NoPull) /\ NoCheck \in LastChecks
  BY BoundAssumption DEF NoTask, TaskOK, Tasks, Moving, Holding, NoPull, PullOK, PullRequests, NoCheck,
     LastChecks

LEMMA InitTyped == Init => Typed
<1> SUFFICES ASSUME Init PROVE Typed
  OBVIOUS
<1>1. PullsOK
  BY Blank DEF Init, PullsOK, PullOK
<1>2. TasksOK
  BY Blank DEF Init, TasksOK, TaskOK, Holding, NoTask
<1>3. WorldOK /\ HistoryOK
  BY HeldAssumption, ProtectedAssumption, BoundAssumption DEF Init, WorldOK, HistoryOK
<1>4. StoreOK
  BY DEF Init, StoreOK, States
<1>5. ReportOK /\ PlanOK
  BY Blank, PlanAssumption DEF Init, ReportOK, PlanOK
<1> QED
  BY <1>1, <1>2, <1>3, <1>4, <1>5 DEF Typed

\* Moves are counted.
LEMMA Counted ==
    ASSUME PlanOK, NEW ms, Happens(ms) \/ Calm
    PROVE  PlanOK'
  BY DEF PlanOK, Happens, Calm

\* One task moves; the keys of the others stay where they were.
LEMMA TaskPut ==
    ASSUME TasksOK, NEW i \in Arrivals, NEW t, TaskOK(t), task' = [task EXCEPT ![i] = t],
           \A j \in Arrivals \ {i} : Holding(task[j]) => Key(task[j]) \in inFlight',
           Holding(t) => /\ Key(t) \in inFlight'
                         /\ \A j \in Arrivals \ {i} :
                               Holding(task[j]) => Key(task[j]) # Key(t)
    PROVE  TasksOK'
<1>1. \A j \in Arrivals : task'[j] = IF j = i THEN t ELSE task[j]
  BY DEF TasksOK
<1>2. task' \in [Arrivals -> Tasks]
  BY DEF TasksOK, TaskOK
<1>3. \A j \in Arrivals : TaskOK(task'[j])
  BY <1>1 DEF TasksOK
<1>4. \A j \in Arrivals : Holding(task'[j]) => Key(task'[j]) \in inFlight'
  BY <1>1
<1>5. \A j, k \in Arrivals :
         Holding(task'[j]) /\ Holding(task'[k]) /\ Key(task'[j]) = Key(task'[k]) => j = k
  BY <1>1 DEF TasksOK
<1> QED
  BY <1>2, <1>3, <1>4, <1>5 DEF TasksOK, TaskOK, Holding, Key

\* What the fields of a task range over, by name.
Stages == {"unsent", "underway", "next", "reading", "basing", "claimed", "judging",
           "finishing", "posted", "done", "failed", "cut"}
Lists == SUBSET (Pulls \cup {Nothing})
Bases == Branches \cup {Nothing}
Named == Pulls \cup {Nothing}
Contents == SUBSET Commits
Verdicts == {"none", "success", "failure"}

LEMMA TasksByName ==
    Tasks = [at : Stages, of : 0..MaxArrivals, kind : {"pull", "again", "group"},
             pulls : Lists, left : Lists, head : Heads \cup {Nothing}, pull : Named,
             base : Bases, holds : Contents, orphaned : BOOLEAN, run : Nat,
             verdict : Verdicts, ok : BOOLEAN]
  BY DEF Tasks, Stages, Lists, Bases, Named, Contents, Verdicts

LEMMA TaskIsTask == ASSUME NEW t, TaskOK(t) PROVE t \in Tasks
  BY DEF TaskOK

\* A task with some of its fields replaced is a task.
LEMMA FieldsPut ==
    ASSUME NEW t \in Tasks, NEW a \in Stages, NEW l \in Lists, NEW q \in Named,
           NEW r \in Bases, NEW c \in Contents, NEW v \in Verdicts
    PROVE  [t EXCEPT !.at = a, !.left = l, !.pull = q, !.run = 0, !.verdict = v,
                     !.orphaned = FALSE, !.base = r, !.holds = c] \in Tasks
  BY TasksByName

\* A task between two stages, over or cut off holds nothing.
LEMMA RestOK ==
    ASSUME NEW t, TaskOK(t), t.at \in Moving, NEW a \in {"cut", "failed", "underway", "next"},
           NEW l \in Lists, t.kind # "group" => l \subseteq Pulls, NEW o \in BOOLEAN
    PROVE  LET u == [t EXCEPT !.at = a, !.left = l, !.ok = o]
           IN  TaskOK(u) /\ ~Holding(u)
<1> DEFINE u == [t EXCEPT !.at = a, !.left = l, !.ok = o]
<1>1. t \in Tasks /\ a \in Stages
  BY DEF TaskOK, Stages
<1>2. u \in Tasks
  BY <1>1, TasksByName
<1>3. /\ u.at = a /\ u.kind = t.kind /\ u.pulls = t.pulls /\ u.left = l
      /\ u.head = t.head /\ u.of = t.of
  BY <1>1, TasksByName
<1> HIDE DEF u
<1>4. TaskOK(u)
  BY <1>2, <1>3 DEF TaskOK, Holding
<1>5. ~Holding(u)
  BY <1>3 DEF Holding
<1> QED
  BY <1>4, <1>5 DEF u

\* The same of a task that keeps its list.
LEMMA StageOK ==
    ASSUME NEW t, TaskOK(t), t.at \in Moving, NEW a \in {"cut", "failed", "underway", "next"}
    PROVE  TaskOK([t EXCEPT !.at = a]) /\ ~Holding([t EXCEPT !.at = a])
<1>1. t.left \in Lists /\ t.ok \in BOOLEAN
  BY TasksByName DEF TaskOK
<1>2. [t EXCEPT !.at = a] = [t EXCEPT !.at = a, !.left = t.left, !.ok = t.ok]
  BY TasksByName DEF TaskOK
<1>3. t.kind # "group" => t.left \subseteq Pulls
  BY DEF TaskOK
<1>4. LET u == [t EXCEPT !.at = a, !.left = t.left, !.ok = t.ok]
      IN  TaskOK(u) /\ ~Holding(u)
  BY <1>1, <1>3, RestOK
<1> QED
  BY <1>2, <1>4

\* A trigger done with leaves a task that holds nothing.
LEMMA OnwardOK ==
    ASSUME NEW t, TaskOK(t), t.at \in Moving
    PROVE  /\ TaskOK(Onward(t)) /\ Onward(t).at = "next" /\ Onward(t).head = t.head
           /\ Onward(t).of = t.of /\ Onward(t).pulls = t.pulls /\ Onward(t).kind = t.kind
<1> DEFINE left == t.left \ {t.pull}
           base == IF t.kind = "group" THEN t.base ELSE Nothing
           holds == IF t.kind = "group" THEN t.holds ELSE {}
<1>1. t \in Tasks
  BY DEF TaskOK
<1>2. /\ left \in Lists /\ base \in Bases /\ holds \in Contents /\ Nothing \in Named
      /\ "next" \in Stages /\ "none" \in Verdicts
  BY <1>1 DEF Tasks, Lists, Bases, Contents, Named, Stages, Verdicts
<1>3. Onward(t) \in Tasks
  BY <1>1, <1>2, FieldsPut DEF Onward
<1> QED
  BY <1>3 DEF Onward, TaskOK, Holding, Moving, Tasks

\* And so it does when the task is cut off, sent again, or has failed in it.
LEMMA OnwardRest ==
    ASSUME NEW t, TaskOK(t), t.at \in Moving, NEW o \in BOOLEAN
    PROVE  /\ LET u == [[Onward(t) EXCEPT !.left = t.pulls, !.ok = o] EXCEPT !.at = "underway"]
              IN  TaskOK(u) /\ ~Holding(u)
           /\ LET u == [Onward(t) EXCEPT !.at = "cut", !.ok = o]
              IN  TaskOK(u) /\ ~Holding(u)
           /\ LET u == [Onward(t) EXCEPT !.ok = o]
              IN  TaskOK(u) /\ ~Holding(u)
<1> DEFINE w == Onward(t)
<1>1. TaskOK(w) /\ w.at = "next" /\ w.kind = t.kind
  BY OnwardOK
<1>2. /\ t.pulls \in Lists /\ (t.kind # "group" => t.pulls \subseteq Pulls)
      /\ w.left \in Lists /\ (w.kind # "group" => w.left \subseteq Pulls)
  BY <1>1, TasksByName DEF TaskOK
<1> HIDE DEF w
<1>3. /\ [[w EXCEPT !.left = t.pulls, !.ok = o] EXCEPT !.at = "underway"]
           = [w EXCEPT !.at = "underway", !.left = t.pulls, !.ok = o]
      /\ [w EXCEPT !.at = "cut", !.ok = o] = [w EXCEPT !.at = "cut", !.left = w.left, !.ok = o]
      /\ [w EXCEPT !.ok = o] = [w EXCEPT !.at = "next", !.left = w.left, !.ok = o]
  BY <1>1, TasksByName DEF TaskOK
<1>4. w.at \in Moving
  BY <1>1 DEF Moving
<1>5. /\ LET u == [w EXCEPT !.at = "underway", !.left = t.pulls, !.ok = o]
         IN  TaskOK(u) /\ ~Holding(u)
      /\ LET u == [w EXCEPT !.at = "cut", !.left = w.left, !.ok = o]
         IN  TaskOK(u) /\ ~Holding(u)
      /\ LET u == [w EXCEPT !.at = "next", !.left = w.left, !.ok = o]
         IN  TaskOK(u) /\ ~Holding(u)
  BY <1>1, <1>2, <1>4, RestOK
<1> QED
  BY <1>3, <1>5 DEF w

\* A delivery sent is a task that holds nothing.
LEMMA Sent ==
    ASSUME TasksOK, WorldOK, NEW d, TaskOK([d EXCEPT !.at = "underway"]), Deliver(d),
           UNCHANGED inFlight
    PROVE  TasksOK' /\ arrived' \in 0..MaxArrivals
<1>1. arrived + 1 \in Arrivals /\ arrived' \in 0..MaxArrivals
  BY BoundAssumption DEF WorldOK, Deliver, Arrivals
<1>2. ~Holding([d EXCEPT !.at = "underway"])
  BY DEF TaskOK, Tasks, Holding
<1> QED
  BY <1>1, <1>2, TaskPut DEF Deliver, TasksOK

LEMMA NewOK ==
    ASSUME WorldOK, arrived < MaxArrivals, NEW kind \in {"pull", "again"},
           NEW ns \in SUBSET Pulls, NEW h \in Heads
    PROVE  TaskOK([New(kind, ns, h) EXCEPT !.at = "underway"])
<1>1. arrived + 1 \in Arrivals
  BY BoundAssumption DEF WorldOK, Arrivals
<1> DEFINE t == [New(kind, ns, h) EXCEPT !.at = "underway"]
<1>2. /\ t.at = "underway" /\ t.of = arrived + 1 /\ t.head = h /\ t.kind = kind
      /\ t.pulls = ns /\ t.left = ns
  BY DEF New, NoTask
<1>3. arrived + 1 \in 0..MaxArrivals
  BY <1>1, BoundAssumption DEF Arrivals
<1>4. t \in Tasks
  BY <1>3 DEF New, NoTask, Tasks
<1> QED
  BY <1>1, <1>2, <1>4 DEF TaskOK, Moving, Holding

LEMMA GroupOK ==
    ASSUME WorldOK, arrived < MaxArrivals, NEW h \in Heads, NEW b \in Branches,
           NEW held \in SUBSET Commits
    PROVE  TaskOK([[New("group", {Nothing}, h) EXCEPT !.base = b, !.holds = held]
                      EXCEPT !.at = "underway"])
<1>1. arrived + 1 \in Arrivals
  BY BoundAssumption DEF WorldOK, Arrivals
<1> DEFINE t == [[New("group", {Nothing}, h) EXCEPT !.base = b, !.holds = held]
                   EXCEPT !.at = "underway"]
<1>2. t.at = "underway" /\ t.of = arrived + 1 /\ t.head = h /\ t.kind = "group"
  BY DEF New, NoTask
<1>3. arrived + 1 \in 0..MaxArrivals
  BY <1>1, BoundAssumption DEF Arrivals
<1>4. t \in Tasks
  BY <1>3 DEF New, NoTask, Tasks
<1> QED
  BY <1>1, <1>2, <1>4 DEF TaskOK, Moving, Holding

\* A pull request changes, with what is shown of it or without.
LEMMA PullPut ==
    ASSUME PullsOK, PlanOK, NEW n \in Pulls, NEW p, PullOK(p), NEW move, Changes(move, n, p)
    PROVE  PullsOK' /\ PlanOK'
<1>1. PullsOK'
  BY DEF Changes, PullsOK, PullOK
<1>2. PlanOK'
  BY Counted DEF Changes
<1> QED
  BY <1>1, <1>2

LEMMA Told ==
    ASSUME Typed, NEW n \in Pulls, NEW p, PullOK(p), p.head \in Heads, NEW move,
           Tells(move, n, p)
    PROVE  Typed'
<1>1. PullsOK' /\ PlanOK'
  BY PullPut DEF Typed, Tells
<1>2. TaskOK([New("pull", {n}, p.head) EXCEPT !.at = "underway"])
  BY NewOK DEF Typed, Tells, Deliver
<1>3. TasksOK' /\ arrived' \in 0..MaxArrivals
  BY <1>2, Sent DEF Typed, Tells, Aside
<1>4. WorldOK' /\ StoreOK' /\ ReportOK' /\ HistoryOK'
  BY <1>3 DEF Typed, Tells, Aside, World, report, history, WorldOK, StoreOK, ReportOK,
              HistoryOK
<1> QED
  BY <1>1, <1>3, <1>4 DEF Typed

LEMMA DoneOK ==
    ASSUME NEW t, TaskOK(t)
    PROVE  TaskOK(Done(t)) /\ ~Holding(Done(t))
<1>1. NoTask \in Tasks /\ t.of \in 0..MaxArrivals
  BY Blank DEF TaskOK, Tasks
<1>2. Done(t) \in Tasks
  BY <1>1 DEF Done, Tasks
<1>3. /\ Done(t).at = "done" /\ Done(t).kind = "pull"
      /\ Done(t).pulls = {} /\ Done(t).left = {}
  BY DEF Done, NoTask
<1> QED
  BY <1>2, <1>3 DEF TaskOK, Moving, Holding

\* What people, the registry and GitHub do.
LEMMA PeopleTyped == Typed /\ People => Typed'
<1> SUFFICES ASSUME Typed, People PROVE Typed'
  OBVIOUS
<1> USE DEF Typed
<1>0. ASSUME NEW n \in Pulls
      PROVE  pull[n] \in PullRequests /\ PullOK(pull[n]) /\ PullOK(shown[n])
  BY DEF PullsOK
<1>1. ASSUME NEW n \in Pulls, NEW h \in Heads, NEW b \in Branches, Open(n, h, b) PROVE Typed'
  <2>1. PullOK([open |-> TRUE, head |-> h, base |-> b, holds |-> on[b]])
    BY NothingAssumption DEF PullOK, PullRequests, WorldOK
  <2> QED
    BY <1>1, <2>1, Told DEF Open
<1>2. ASSUME NEW n \in Pulls, NEW h \in Heads, Push(n, h) PROVE Typed'
  <2>1. PullOK([pull[n] EXCEPT !.head = h, !.holds = on[pull[n].base]])
    BY <1>0, <1>2, NothingAssumption DEF Push, PullOK, PullRequests, WorldOK
  <2> QED
    BY <1>0, <1>2, <2>1, Told DEF Push, PullRequests
<1>3. ASSUME NEW n \in Pulls, NEW b \in Branches, Retarget(n, b) PROVE Typed'
  <2>1. PullOK([pull[n] EXCEPT !.base = b, !.holds = on[b]])
    BY <1>0, <1>3 DEF Retarget, PullOK, PullRequests, WorldOK
  <2>2. [pull[n] EXCEPT !.base = b, !.holds = on[b]].head \in Heads
    BY <1>0, <1>3 DEF Retarget, PullOK, PullRequests
  <2> QED
    BY <1>3, <2>1, <2>2, Told DEF Retarget
<1>4. ASSUME NEW n \in Pulls, Reopen(n) PROVE Typed'
  <2>1. PullOK([pull[n] EXCEPT !.open = TRUE])
    BY <1>0, <1>4 DEF Reopen, PullOK, PullRequests
  <2>2. [pull[n] EXCEPT !.open = TRUE].head \in Heads
    BY <1>0, <1>4 DEF Reopen, PullOK, PullRequests
  <2> QED
    BY <1>4, <2>1, <2>2, Told DEF Reopen
<1>5. ASSUME NEW n \in Pulls, Close(n) PROVE Typed'
  <2>1. PullOK([pull[n] EXCEPT !.open = FALSE])
    BY <1>0 DEF PullOK, PullRequests
  <2>2. PullsOK' /\ PlanOK'
    BY <1>5, <2>1, PullPut DEF Close
  <2>3. TasksOK' /\ WorldOK' /\ StoreOK' /\ ReportOK' /\ HistoryOK'
    BY <1>5 DEF Close, Aside, World, report, history, TasksOK, WorldOK, StoreOK, ReportOK,
                HistoryOK
  <2> QED
    BY <2>2, <2>3
<1>6. ASSUME NEW n \in Pulls, Queue(n) PROVE Typed'
  <2>1. pull[n].head \in Heads /\ pull[n].base \in Branches
    BY <1>0, <1>6 DEF Queue, PullOK, PullRequests
  <2>2. TaskOK([[New("group", {Nothing}, pull[n].head)
                   EXCEPT !.base = pull[n].base, !.holds = on[pull[n].base]]
                   EXCEPT !.at = "underway"])
    BY <1>6, <2>1, GroupOK DEF Queue, Deliver, WorldOK
  <2>3. TasksOK' /\ arrived' \in 0..MaxArrivals
    BY <1>6, <2>2, Sent DEF Queue, Aside
  <2>4. PullsOK' /\ WorldOK' /\ StoreOK' /\ ReportOK' /\ HistoryOK'
    BY <1>6, <2>3 DEF Queue, Aside, World, report, history, PullsOK, WorldOK, StoreOK,
                ReportOK, HistoryOK
  <2>5. PlanOK'
    BY <1>6, Counted DEF Queue
  <2> QED
    BY <2>3, <2>4, <2>5
<1>7. ASSUME NEW n \in Pulls, Merge(n) PROVE Typed'
  <2>1. PullOK([pull[n] EXCEPT !.open = FALSE, !.head = Nothing])
    BY <1>0 DEF PullOK, PullRequests
  <2>2. pull[n].head \in Heads
    BY <1>0, <1>7 DEF Merge, PullOK, PullRequests
  <2>3. on' \in [Branches -> SUBSET Commits]
    BY <1>7, <2>2, ReachAssumption, ProtectedAssumption DEF Merge, WorldOK
  <2>4. PullsOK'
    BY <1>7, <2>1 DEF Merge, PullsOK, PullOK
  <2>5. TasksOK' /\ WorldOK' /\ StoreOK' /\ ReportOK' /\ HistoryOK' /\ PlanOK'
    BY <1>7, <2>3 DEF Merge, Aside, Calm, report, history, TasksOK, WorldOK, StoreOK,
                ReportOK, HistoryOK, PlanOK
  <2> QED
    BY <2>4, <2>5
<1>8. ASSUME NEW h \in Heads, Rerun(h) PROVE Typed'
  <2> DEFINE of == {n \in Pulls : pull[n].open /\ pull[n].head = h}
  <2>1. TaskOK([New("again", of, h) EXCEPT !.at = "underway"])
    <3>1. of \in SUBSET Pulls /\ arrived < MaxArrivals
      BY <1>8 DEF Rerun, Deliver
    <3> QED
      BY <3>1, NewOK
  <2>2. TasksOK' /\ arrived' \in 0..MaxArrivals
    BY <1>8, <2>1, Sent DEF Rerun, Aside
  <2>3. PullsOK' /\ WorldOK' /\ StoreOK' /\ ReportOK' /\ HistoryOK'
    BY <1>8, <2>2 DEF Rerun, Aside, World, report, history, PullsOK, WorldOK, StoreOK,
                ReportOK, HistoryOK
  <2>4. PlanOK'
    BY <1>8, Counted DEF Rerun
  <2> QED
    BY <2>2, <2>3, <2>4
<1>9. ASSUME \/ \E c \in Commits : Trust(c)
             \/ Govern
      PROVE  Typed'
  <2>1. PlanOK'
    BY <1>9, Counted DEF Trust, Govern
  <2>2. PullsOK' /\ TasksOK' /\ StoreOK' /\ ReportOK' /\ HistoryOK'
    BY <1>9 DEF Trust, Govern, Aside, report, history, PullsOK, TasksOK, StoreOK, ReportOK,
                HistoryOK
  <2>3. WorldOK'
    BY <1>9 DEF Trust, Govern, WorldOK
  <2> QED
    BY <2>1, <2>2, <2>3
<1> QED
  BY <1>1, <1>2, <1>3, <1>4, <1>5, <1>6, <1>7, <1>8, <1>9 DEF People

\* What GitHub and the network do.
LEMMA NetworkTyped == Typed /\ Network => Typed'
<1> SUFFICES ASSUME Typed, Network PROVE Typed'
  OBVIOUS
<1> USE DEF Typed
<1>1. ASSUME NEW n \in Pulls, CatchUp(n) PROVE Typed'
  <2>1. PullsOK'
    BY <1>1 DEF CatchUp, PullsOK, PullOK
  <2> QED
    BY <1>1, <2>1 DEF CatchUp, Aside, Calm, report, history, TasksOK, WorldOK, StoreOK,
                      ReportOK, HistoryOK, PlanOK
<1>2. ASSUME NEW i \in Arrivals, Lose(i) PROVE Typed'
  <2>1. TaskOK([task[i] EXCEPT !.at = "cut"]) /\ ~Holding([task[i] EXCEPT !.at = "cut"])
    BY <1>2, StageOK DEF Lose, TasksOK, Moving
  <2>2. TasksOK'
    BY <1>2, <2>1, TaskPut DEF Lose, Aside, TasksOK
  <2>3. PlanOK'
    BY <1>2, Counted DEF Lose
  <2> QED
    BY <1>2, <2>2, <2>3 DEF Lose, Aside, World, report, history, PullsOK, WorldOK, StoreOK,
                            ReportOK, HistoryOK
<1>3. ASSUME NEW i \in Arrivals, Redeliver(i) PROVE Typed'
  <2> DEFINE d == [Onward(task[i]) EXCEPT !.left = task[i].pulls, !.ok = TRUE]
  <2>1. TaskOK(task[i]) /\ task[i].at \in Moving
    BY <1>3 DEF Redeliver, TasksOK, Moving
  <2>2. TaskOK([d EXCEPT !.at = "underway"])
    BY <2>1, OnwardRest
  <2>3. TasksOK' /\ arrived' \in 0..MaxArrivals
    BY <1>3, <2>2, Sent DEF Redeliver, Aside
  <2> QED
    BY <1>3, <2>3 DEF Redeliver, Aside, World, Calm, report, history, PullsOK, WorldOK,
                      StoreOK, ReportOK, HistoryOK, PlanOK
<1> QED
  BY <1>1, <1>2, <1>3 DEF Network

\* The arrival of a task's step leaves the world, the pull requests and the
\* report alone.
LEMMA BridgeStep ==
    ASSUME Typed, Bridge, PlanOK', TasksOK', StoreOK', ReportOK', HistoryOK'
    PROVE  Typed'
  BY DEF Typed, Bridge, github, PullsOK, WorldOK

\* A task that moves on without a key.
LEMMA FreePut ==
    ASSUME TasksOK, NEW i \in Arrivals, NEW t, TaskOK(t), ~Holding(t),
           task' = [task EXCEPT ![i] = t],
           inFlight' = inFlight \/ (Holding(task[i]) /\ inFlight' = inFlight \ {Key(task[i])})
    PROVE  TasksOK'
<1>1. \A j \in Arrivals \ {i} : Holding(task[j]) => Key(task[j]) \in inFlight'
  BY DEF TasksOK
<1> QED
  BY <1>1, TaskPut

\* A task that keeps its key.
LEMMA HoldingPut ==
    ASSUME TasksOK, NEW i \in Arrivals, NEW t, TaskOK(t), Holding(task[i]),
           Key(t) = Key(task[i]), task' = [task EXCEPT ![i] = t], UNCHANGED inFlight
    PROVE  TasksOK'
<1>1. \A j \in Arrivals \ {i} : Holding(task[j]) => Key(task[j]) # Key(t)
  BY DEF TasksOK
<1> QED
  BY <1>1, TaskPut DEF TasksOK

\* A run posted, or finished, is a run.
LEMMA PostsType ==
    ASSUME StoreOK, NEW t, PostsRun(t), UNCHANGED <<handled, inFlight>>
    PROVE  StoreOK'
<1>1. started + 1 \in Nat /\ "running" \in States
  BY DEF StoreOK, States
<1>2. gate' \in [Heads -> [run : Nat, state : States]]
  BY <1>1 DEF PostsRun, StoreOK
<1> QED
  BY <1>1, <1>2 DEF PostsRun, StoreOK

\* One check's steps.
LEMMA CheckTyped == ASSUME Typed, NEW i \in Arrivals, Check(i) PROVE Typed'
<1> USE DEF Typed
<1>0. TaskOK(task[i]) /\ task[i] \in Tasks
  BY DEF TasksOK
<1>1. CASE Receive(i)
  <2>1. TaskOK(Done(task[i])) /\ ~Holding(Done(task[i]))
    BY <1>0, DoneOK
  <2>2. TaskOK([task[i] EXCEPT !.at = "next"]) /\ ~Holding([task[i] EXCEPT !.at = "next"])
    BY <1>0, <1>1 DEF Receive, Receives, TaskOK, Tasks, Moving, Holding
  <2>3. TasksOK'
    BY <1>1, <2>1, <2>2, FreePut DEF Receive, Receives
  <2> QED
    BY <1>1, <2>3, BridgeStep DEF Receive, Receives, Calm, report, history, StoreOK,
                                  ReportOK, HistoryOK, PlanOK
<1>2. ASSUME NEW n \in task[i].left, Begin(i, n) PROVE Typed'
  <2> DEFINE t == [task[i] EXCEPT
                     !.at = IF task[i].kind = "group" THEN "basing" ELSE "reading",
                     !.pull = n, !.orphaned = ~governed]
  <2>1. t \in Tasks
    <3>1. n \in Pulls \cup {Nothing}
      BY <1>0 DEF Tasks
    <3>2. (~governed) \in BOOLEAN
      BY Zenon DEF WorldOK
    <3>3. \A o \in BOOLEAN, at \in {"basing", "reading"} :
             [task[i] EXCEPT !.at = at, !.pull = n, !.orphaned = o] \in Tasks
      BY <1>0, <3>1 DEF Tasks
    <3> QED
      BY <3>2, <3>3, Zenon
  <2>2. TaskOK(t) /\ ~Holding(t)
    BY <1>0, <1>2, <2>1 DEF Begin, TaskOK, Tasks, Moving, Holding
  <2>3. task' = [task EXCEPT ![i] = t]
    BY <1>2 DEF Begin, TasksOK
  <2>4. TasksOK'
    BY <1>2, <2>2, <2>3, FreePut DEF Begin, Aside
  <2> QED
    BY <1>2, <2>4, BridgeStep DEF Begin, Aside, Calm, report, history, StoreOK, ReportOK,
                                  HistoryOK, PlanOK
<1>3. CASE ReadPull(i)
  <2>1. TaskOK(Onward(task[i])) /\ ~Holding(Onward(task[i]))
    BY <1>0, <1>3, OnwardOK DEF ReadPull, Moving, Holding
  <2>2. PullOK(shown[task[i].pull])
    BY <1>0, <1>3 DEF ReadPull, TaskOK, PullsOK
  <2>3. ASSUME NEW tip \in {shown[task[i].pull].holds, on[shown[task[i].pull].base]},
               shown[task[i].pull].open
        PROVE  LET t == [task[i] EXCEPT !.at = "basing", !.base = shown[task[i].pull].base,
                                        !.holds = tip]
               IN  TaskOK(t) /\ ~Holding(t)
    <3>1. tip \in SUBSET Commits /\ shown[task[i].pull].base \in Branches
      BY <2>2, <2>3 DEF PullOK, PullRequests, WorldOK
    <3> QED
      BY <1>0, <1>3, <3>1 DEF ReadPull, TaskOK, Tasks, Moving, Holding
  <2>4. TasksOK'
    BY <1>3, <2>1, <2>3, FreePut DEF ReadPull, Aside
  <2> QED
    BY <1>3, <2>4, BridgeStep DEF ReadPull, Aside, Calm, report, history, StoreOK, ReportOK,
                                  HistoryOK, PlanOK
<1>4. CASE Claim(i)
  <2>1. TaskOK(Onward(task[i])) /\ ~Holding(Onward(task[i]))
    BY <1>0, <1>4, OnwardOK DEF Claim, Moving, Holding
  <2>2. CASE MayClaim(task[i]) /\ inFlight' = Claims(task[i])
             /\ task' = [task EXCEPT ![i].at = "claimed"]
    <3> DEFINE t == [task[i] EXCEPT !.at = "claimed"]
    <3>1. TaskOK(t) /\ Key(t) = Key(task[i]) /\ Key(t) \in Heads \X Branches
      BY <1>0, <1>4, <2>2, ProtectedAssumption
         DEF Claim, MayClaim, TaskOK, Tasks, Moving, Holding, Key
    <3>2. \A j \in Arrivals \ {i} : Holding(task[j]) => Key(task[j]) # Key(t)
      BY <2>2, <3>1 DEF MayClaim, TasksOK
    <3>3. task' = [task EXCEPT ![i] = t]
      BY <2>2 DEF TasksOK
    <3>4. \A j \in Arrivals \ {i} : Holding(task[j]) => Key(task[j]) \in inFlight'
      BY <2>2 DEF TasksOK, Claims
    <3>5. TasksOK'
      BY <2>2, <3>1, <3>2, <3>3, <3>4, TaskPut DEF Claims
    <3>6. StoreOK'
      BY <1>4, <2>2, <3>1 DEF Claim, Claims, StoreOK
    <3> QED
      BY <1>4, <3>5, <3>6, BridgeStep DEF Claim, Calm, report, history, ReportOK, HistoryOK,
                                          PlanOK
  <2>3. CASE task' = [task EXCEPT ![i] = Onward(task[i])] /\ UNCHANGED inFlight
    <3>1. TasksOK'
      BY <2>1, <2>3, FreePut
    <3> QED
      BY <1>4, <2>3, <3>1, BridgeStep DEF Claim, Calm, report, history, StoreOK, ReportOK,
                                          HistoryOK, PlanOK
  <2> QED
    BY <1>4, <2>2, <2>3 DEF Claim
<1>5. CASE StartRun(i)
  <2> DEFINE t == [task[i] EXCEPT !.at = "judging", !.run = started + 1]
  <2>0. started + 1 \in Nat /\ task[i].at = "claimed"
    BY <1>5 DEF StartRun, StoreOK
  <2>1. TaskOK(t) /\ Key(t) = Key(task[i]) /\ Holding(task[i])
    <3>1. t \in Tasks
      BY <1>0, <2>0 DEF Tasks
    <3> QED
      BY <1>0, <2>0, <3>1 DEF TaskOK, Tasks, Moving, Holding, Key
  <2>2. task' = [task EXCEPT ![i] = t]
    BY <1>5 DEF StartRun, TasksOK
  <2>3. TasksOK'
    BY <1>5, <2>1, <2>2, HoldingPut DEF StartRun
  <2>4. StoreOK'
    BY <1>5, PostsType DEF StartRun, Starts
  <2> QED
    BY <1>5, <2>3, <2>4, BridgeStep DEF StartRun, Calm, report, history, ReportOK, HistoryOK,
                                        PlanOK
<1>6. CASE Judge(i)
  <2>1. PICK v \in {"success", "failure"} :
             /\ Happens({"failure"}) \/ Calm
             /\ task' = [task EXCEPT ![i].at = "finishing", ![i].verdict = v]
    BY <1>6 DEF Judge
  <2> DEFINE t == [task[i] EXCEPT !.at = "finishing", !.verdict = v]
  <2>2. TaskOK(t) /\ Key(t) = Key(task[i]) /\ Holding(task[i]) /\ task[i].head \in Heads
    BY <1>0, <1>6 DEF Judge, TaskOK, Tasks, Moving, Holding, Key
  <2>3. task' = [task EXCEPT ![i] = t]
    BY <2>1 DEF TasksOK
  <2>4. TasksOK'
    BY <1>6, <2>2, <2>3, HoldingPut DEF Judge
  <2>5. HistoryOK'
    BY <1>0, <1>6, <2>2 DEF Judge, HistoryOK, WorldOK, Tasks
  <2>6. PlanOK'
    BY <2>1, Counted
  <2> QED
    BY <1>6, <2>4, <2>5, <2>6, BridgeStep DEF Judge, report, StoreOK, ReportOK
<1>7. CASE FinishRun(i)
  <2> DEFINE t == [task[i] EXCEPT !.at = "posted"]
  <2>1. TaskOK(t) /\ Key(t) = Key(task[i]) /\ Holding(task[i])
    BY <1>0, <1>7 DEF FinishRun, TaskOK, Tasks, Moving, Holding, Key
  <2>2. task' = [task EXCEPT ![i] = t]
    BY <1>7 DEF FinishRun, TasksOK
  <2>3. TasksOK'
    BY <1>7, <2>1, <2>2, HoldingPut DEF FinishRun
  <2>4. StoreOK'
    <3>1. task[i].head \in Heads /\ task[i].verdict \in States
      BY <1>0, <1>7 DEF FinishRun, TaskOK, Tasks, Moving, States
    <3>2. gate' = gate \/ gate' = [gate EXCEPT ![task[i].head].state = task[i].verdict]
      BY <1>7 DEF FinishRun, Finishes
    <3>3. gate' \in [Heads -> [run : Nat, state : States]]
      BY <3>1, <3>2 DEF StoreOK
    <3> QED
      BY <1>7, <3>3 DEF FinishRun, StoreOK
  <2> QED
    BY <1>7, <2>3, <2>4, BridgeStep DEF FinishRun, Calm, report, history, ReportOK,
                                        HistoryOK, PlanOK
<1>8. CASE Record(i)
  <2>1. TaskOK(Onward(task[i])) /\ ~Holding(Onward(task[i])) /\ Holding(task[i])
    BY <1>0, <1>8, OnwardOK DEF Record, Posted, Moving, Holding
  <2>2. TasksOK'
    BY <1>8, <2>1, FreePut DEF Record, Posted
  <2>3. ReportOK'
    BY <1>0, <1>8 DEF Record, Posted, ReportOK, LastChecks, Tasks
  <2> QED
    BY <1>8, <2>2, <2>3, BridgeStep DEF Record, Posted, Calm, history, StoreOK, HistoryOK,
                                        PlanOK
<1>9. CASE EndDelivery(i)
  <2>1. TaskOK(Done(task[i])) /\ ~Holding(Done(task[i]))
    BY <1>0, DoneOK
  <2>2. TaskOK([task[i] EXCEPT !.at = "failed"]) /\ ~Holding([task[i] EXCEPT !.at = "failed"])
    BY <1>0, <1>9, StageOK DEF EndDelivery, Moving
  <2>3. TasksOK'
    BY <1>9, <2>1, <2>2, FreePut DEF EndDelivery
  <2>4. StoreOK'
    BY <1>0, <1>9 DEF EndDelivery, StoreOK, TaskOK, Moving
  <2> QED
    BY <1>9, <2>3, <2>4, BridgeStep DEF EndDelivery, Calm, report, history, ReportOK,
                                        HistoryOK, PlanOK
<1> QED
  BY <1>1, <1>2, <1>3, <1>4, <1>5, <1>6, <1>7, <1>8, <1>9 DEF Check

\* A request that fails.
LEMMA FailsTyped == ASSUME Typed, NEW i \in Arrivals, Fails(i) PROVE Typed'
<1> USE DEF Typed
<1> DEFINE t == task[i]
           u == [Onward(t) EXCEPT !.ok = FALSE]
<1>1. TaskOK(t) /\ t.at \in Moving
  BY DEF Fails, TasksOK, Moving
<1>2. TaskOK(u) /\ ~Holding(u)
  BY <1>1, OnwardRest
<1>3. TasksOK'
  BY <1>2, FreePut DEF Fails, Holding
<1>4. inFlight' \subseteq Heads \X Branches
  BY DEF Fails, StoreOK
<1>5. StoreOK'
  <2>1. CASE UNCHANGED <<gate, started>>
    BY <1>4, <2>1 DEF Fails, StoreOK
  <2>2. CASE t.at = "claimed" /\ Starts(t)
    <3>1. started + 1 \in Nat /\ "running" \in States
      BY DEF StoreOK, States
    <3>2. gate' \in [Heads -> [run : Nat, state : States]]
      BY <2>2, <3>1 DEF Starts, PostsRun, StoreOK
    <3> QED
      BY <1>4, <2>2, <3>1, <3>2 DEF Fails, Starts, PostsRun, StoreOK
  <2>3. CASE t.at = "finishing" /\ Finishes(t) /\ UNCHANGED started
    BY <1>1, <1>4, <2>3 DEF Fails, Finishes, StoreOK, States, TaskOK, Tasks
  <2> QED
    BY <2>1, <2>2, <2>3 DEF Fails
<1>6. PlanOK'
  BY Counted DEF Fails
<1> QED
  BY <1>3, <1>5, <1>6, BridgeStep DEF Fails, report, history, ReportOK, HistoryOK

LEMMA ReportTyped == Typed /\ (StartReport \/ Inspect \/ Tell) => Typed'
<1> SUFFICES ASSUME Typed, StartReport \/ Inspect \/ Tell PROVE Typed'
  OBVIOUS
<1> USE DEF Typed
<1>1. TasksOK' /\ StoreOK' /\ HistoryOK'
  BY DEF StartReport, Inspect, Tell, Checks, history, TasksOK, StoreOK, HistoryOK
<1>2. ReportOK'
  <2>1. CASE StartReport
    <3>1. reports + (IF governed THEN 1 ELSE 0) \in Nat
      BY DEF ReportOK
    <3> QED
      BY <2>1, <3>1 DEF StartReport, ReportOK
  <2>2. CASE Inspect
    BY <2>2 DEF Inspect, ReportOK
  <2>3. CASE Tell
    BY <2>3 DEF Tell, ReportOK
  <2> QED
    BY <2>1, <2>2, <2>3
<1>3. PlanOK'
  BY Counted DEF StartReport, Inspect, Tell
<1> QED
  BY <1>1, <1>2, <1>3, BridgeStep DEF StartReport, Inspect, Tell

LEMMA CrashTyped == Typed /\ Crash => Typed'
<1> SUFFICES ASSUME Typed, Crash PROVE Typed'
  OBVIOUS
<1> USE DEF Typed
<1>1. ASSUME NEW i \in Arrivals
      PROVE  TaskOK(task'[i]) /\ task'[i] \in Tasks /\ ~Holding(task'[i])
  <2>1. TaskOK(task[i]) /\ task[i] \in Tasks
    BY DEF TasksOK
  <2>2. CASE task[i].at \in {"unsent", "underway", "done", "failed", "cut"}
    BY <2>1, <2>2 DEF Crash, Holding
  <2>3. CASE task[i].at \notin {"unsent", "underway", "done", "failed", "cut"}
    <3>1. task[i].at \in Moving
      BY <2>1, <2>3 DEF Tasks, Moving
    <3>2. /\ TaskOK([Onward(task[i]) EXCEPT !.at = "cut", !.ok = TRUE])
          /\ ~Holding([Onward(task[i]) EXCEPT !.at = "cut", !.ok = TRUE])
      BY <2>1, <3>1, OnwardRest
    <3>3. task'[i] = [Onward(task[i]) EXCEPT !.at = "cut", !.ok = TRUE]
      BY <2>3 DEF Crash
    <3> QED
      BY <3>2, <3>3, TaskIsTask
  <2> QED
    BY <2>2, <2>3
<1>2. TasksOK'
  BY <1>1 DEF Crash, TasksOK, TaskOK, Holding
<1>3. StoreOK' /\ HistoryOK'
  BY DEF Crash, history, StoreOK, HistoryOK
<1>4. ReportOK'
  BY DEF Crash, ReportOK
<1>5. PlanOK'
  BY Counted DEF Crash
<1> QED
  BY <1>2, <1>3, <1>4, <1>5, BridgeStep DEF Crash

LEMMA StepTyped == Typed /\ [Next]_vars => Typed'
<1> SUFFICES ASSUME Typed, [Next]_vars PROVE Typed'
  OBVIOUS
<1>1. CASE Next
  BY <1>1, PeopleTyped, NetworkTyped, CheckTyped, FailsTyped, ReportTyped, CrashTyped
     DEF Next
<1>2. CASE UNCHANGED vars
  BY <1>2 DEF vars, Typed, PullsOK, PullOK, TasksOK, WorldOK, StoreOK, ReportOK, HistoryOK,
              PlanOK
<1> QED
  BY <1>1, <1>2

\* The module's types; and each check at work holds a key of its own in the
\* runner's set, which is how CheckRunner keeps a head from being checked twice
\* at a time.
THEOREM TypeCorrect == Spec => []TypeOK
<1>1. Spec => []Typed
  BY InitTyped, StepTyped, PTL DEF Spec
<1> QED
  BY <1>1, TypedIsTyped, PTL

(* What guards the protected branch.                                       *)

\* What a base held is still on it.
Behind(x) == x.base = Protected => x.holds \subseteq on[Protected]

\* A success covers all of its head: what the check's range left out was on the
\* protected branch already, and what is there some check found trusted.
CoverInv ==
    /\ NothingUnvouched
    /\ \A n \in Pulls : Behind(pull[n]) /\ Behind(shown[n])
    /\ \A i \in Arrivals : Behind(task[i])
    /\ \A i \in Arrivals :
          task[i].at = "finishing" /\ task[i].verdict = "success"
              => Reach[task[i].head] \subseteq vouched
    /\ \A h \in Heads : gate[h].state = "success" => Reach[h] \subseteq vouched

\* A check between its run's start and end is its head's newest run.
VerdictInv ==
    /\ NewestVerdictStands
    /\ \A i \in Arrivals :
          task[i].at \in {"judging", "finishing"}
              => gate[task[i].head].run = task[i].run /\ gate[task[i].head].state = "running"
    /\ \A i \in Arrivals :
          task[i].at = "finishing" => newest[task[i].head] = task[i].run

LEMMA InitSafe == Init => CoverInv /\ VerdictInv
<1> SUFFICES ASSUME Init PROVE CoverInv /\ VerdictInv
  OBVIOUS
<1>1. Nothing # Protected
  BY NothingAssumption, ProtectedAssumption
<1>2. CoverInv
  BY <1>1, HeldAssumption, ProtectedAssumption
     DEF Init, CoverInv, NothingUnvouched, Behind, NoPull, NoTask
<1>3. VerdictInv
  BY DEF Init, VerdictInv, NewestVerdictStands, NoTask
<1> QED
  BY <1>2, <1>3

\* Runs are left alone, and no check comes to be between its run's start and end.
LEMMA VerdictKept ==
    ASSUME VerdictInv, UNCHANGED <<gate, newest>>,
           \A j \in Arrivals :
              task'[j].at \in {"judging", "finishing"} => task'[j] = task[j]
    PROVE  VerdictInv'
  BY DEF VerdictInv, NewestVerdictStands

\* The branches only grow, and so does what is vouched for; successes, and tasks
\* that have one to give, are none but those there were.
LEMMA CoverKept ==
    ASSUME CoverInv, UNCHANGED gate, vouched \subseteq vouched', UNCHANGED on,
           \A n \in Pulls : Behind(pull'[n]) /\ Behind(shown'[n]),
           \A j \in Arrivals :
              /\ Behind(task'[j])
              /\ task'[j].at = "finishing" => task'[j] = task[j]
    PROVE  CoverInv'
<1>1. NothingUnvouched'
  BY DEF CoverInv, NothingUnvouched
<1>2. \A n \in Pulls : Behind(pull[n])' /\ Behind(shown[n])'
  BY DEF Behind
<1>3. \A j \in Arrivals : Behind(task[j])'
  BY DEF Behind
<1>4. \A j \in Arrivals :
         task'[j].at = "finishing" /\ task'[j].verdict = "success"
            => Reach[task'[j].head] \subseteq vouched'
  BY DEF CoverInv
<1>5. \A h \in Heads : gate'[h].state = "success" => Reach[h] \subseteq vouched'
  BY DEF CoverInv
<1> QED
  BY <1>1, <1>2, <1>3, <1>4, <1>5 DEF CoverInv

LEMMA OnwardBehind ==
    ASSUME NEW i \in Arrivals, CoverInv, TaskOK(task[i])
    PROVE  Behind(Onward(task[i]))
<1>1. \/ /\ Onward(task[i]).base = task[i].base
         /\ Onward(task[i]).holds = task[i].holds
      \/ Onward(task[i]).base = Nothing
  BY DEF Onward, TaskOK, Tasks
<1>2. Behind(task[i]) /\ Nothing # Protected
  BY NothingAssumption, ProtectedAssumption DEF CoverInv
<1> QED
  BY <1>1, <1>2 DEF Behind

\* A delivery sent is not a check under way.
LEMMA SentQuiet ==
    ASSUME TasksOK, WorldOK, NEW d, TaskOK([d EXCEPT !.at = "underway"]),
           Behind([d EXCEPT !.at = "underway"]), CoverInv, Deliver(d)
    PROVE  \A j \in Arrivals :
              /\ Behind(task'[j])
              /\ task'[j].at \in {"judging", "finishing"} => task'[j] = task[j]
<1> DEFINE t == [d EXCEPT !.at = "underway"]
<1>1. \A j \in Arrivals : task'[j] = IF j = arrived + 1 THEN t ELSE task[j]
  BY DEF Deliver, TasksOK
<1>2. t.at = "underway"
  BY DEF TaskOK, Tasks
<1> QED
  BY <1>1, <1>2 DEF CoverInv

\* One task that moves, and not to a run.
LEMMA PutQuiet ==
    ASSUME TasksOK, CoverInv, NEW i \in Arrivals, NEW t, Behind(t),
           t.at \notin {"judging", "finishing"}, task' = [task EXCEPT ![i] = t]
    PROVE  \A j \in Arrivals :
              /\ Behind(task'[j])
              /\ task'[j].at \in {"judging", "finishing"} => task'[j] = task[j]
<1>1. \A j \in Arrivals : task'[j] = IF j = i THEN t ELSE task[j]
  BY DEF TasksOK
<1> QED
  BY <1>1 DEF CoverInv

LEMMA TellsSafe ==
    ASSUME Typed, CoverInv, VerdictInv, NEW n \in Pulls, NEW p, PullOK(p), p.head \in Heads,
           Behind(p), NEW move, Tells(move, n, p)
    PROVE  CoverInv' /\ VerdictInv'
<1> USE DEF Typed
<1> DEFINE t == [New("pull", {n}, p.head) EXCEPT !.at = "underway"]
<1>1. TaskOK(t)
  BY NewOK DEF Tells, Deliver
<1>2. Behind(t)
  BY NothingAssumption, ProtectedAssumption DEF Behind, New, NoTask
<1>3. \A j \in Arrivals :
         /\ Behind(task'[j])
         /\ task'[j].at \in {"judging", "finishing"} => task'[j] = task[j]
  BY <1>1, <1>2, SentQuiet DEF Tells
<1>4. \A m \in Pulls : Behind(pull'[m]) /\ Behind(shown'[m])
  BY DEF Tells, Changes, PullsOK, CoverInv
<1>5. UNCHANGED <<gate, on, vouched, newest>>
  BY DEF Tells, Aside, World, history
<1> QED
  BY <1>3, <1>4, <1>5, CoverKept, VerdictKept

LEMMA PeopleSafe == Typed /\ CoverInv /\ VerdictInv /\ People => CoverInv' /\ VerdictInv'
<1> SUFFICES ASSUME Typed, CoverInv, VerdictInv, People PROVE CoverInv' /\ VerdictInv'
  OBVIOUS
<1> USE DEF Typed
<1>0. ASSUME NEW n \in Pulls
      PROVE  /\ pull[n] \in PullRequests /\ PullOK(pull[n])
             /\ Behind(pull[n]) /\ Behind(shown[n])
  BY DEF PullsOK, CoverInv
<1>1. ASSUME NEW n \in Pulls, NEW h \in Heads, NEW b \in Branches, Open(n, h, b)
      PROVE  CoverInv' /\ VerdictInv'
  <2>1. /\ PullOK([open |-> TRUE, head |-> h, base |-> b, holds |-> on[b]])
        /\ Behind([open |-> TRUE, head |-> h, base |-> b, holds |-> on[b]])
    BY NothingAssumption DEF PullOK, PullRequests, WorldOK, Behind
  <2> QED
    BY <1>1, <2>1, TellsSafe DEF Open
<1>2. ASSUME NEW n \in Pulls, NEW h \in Heads, Push(n, h) PROVE CoverInv' /\ VerdictInv'
  <2> DEFINE p == [pull[n] EXCEPT !.head = h, !.holds = on[pull[n].base]]
  <2>1. PullOK(p) /\ p.head = h
    BY <1>0, <1>2, NothingAssumption DEF Push, PullOK, PullRequests, WorldOK
  <2>2. Behind(p)
    BY <1>0 DEF PullRequests, Behind
  <2> QED
    BY <1>2, <2>1, <2>2, TellsSafe DEF Push
<1>3. ASSUME NEW n \in Pulls, NEW b \in Branches, Retarget(n, b)
      PROVE  CoverInv' /\ VerdictInv'
  <2> DEFINE p == [pull[n] EXCEPT !.base = b, !.holds = on[b]]
  <2>1. PullOK(p) /\ p.head \in Heads
    BY <1>0, <1>3 DEF Retarget, PullOK, PullRequests, WorldOK
  <2>2. Behind(p)
    BY <1>0 DEF PullRequests, Behind
  <2> QED
    BY <1>3, <2>1, <2>2, TellsSafe DEF Retarget
<1>4. ASSUME NEW n \in Pulls, Reopen(n) PROVE CoverInv' /\ VerdictInv'
  <2> DEFINE p == [pull[n] EXCEPT !.open = TRUE]
  <2>1. PullOK(p) /\ p.head \in Heads /\ Behind(p)
    BY <1>0, <1>4 DEF Reopen, PullOK, PullRequests, Behind
  <2> QED
    BY <1>4, <2>1, TellsSafe DEF Reopen
<1>5. ASSUME NEW n \in Pulls, Close(n) PROVE CoverInv' /\ VerdictInv'
  <2> DEFINE p == [pull[n] EXCEPT !.open = FALSE]
  <2>1. Behind(p)
    BY <1>0 DEF PullRequests, Behind
  <2>2. \A m \in Pulls : Behind(pull'[m]) /\ Behind(shown'[m])
    BY <1>5, <2>1 DEF Close, Changes, PullsOK, CoverInv
  <2>3. UNCHANGED <<gate, on, vouched, newest, task>>
    BY <1>5 DEF Close, Aside, World, history
  <2> QED
    BY <2>2, <2>3, CoverKept, VerdictKept DEF CoverInv
<1>6. ASSUME NEW n \in Pulls, Queue(n) PROVE CoverInv' /\ VerdictInv'
  <2> DEFINE d == [New("group", {Nothing}, pull[n].head)
                     EXCEPT !.base = pull[n].base, !.holds = on[pull[n].base]]
  <2>1. pull[n].head \in Heads /\ pull[n].base \in Branches
    BY <1>0, <1>6 DEF Queue, PullOK, PullRequests
  <2>2. TaskOK([d EXCEPT !.at = "underway"])
    BY <1>6, <2>1, GroupOK DEF Queue, Deliver, WorldOK
  <2>3. Behind([d EXCEPT !.at = "underway"])
    BY DEF Behind, New, NoTask
  <2>4. \A j \in Arrivals :
           /\ Behind(task'[j])
           /\ task'[j].at \in {"judging", "finishing"} => task'[j] = task[j]
    BY <1>6, <2>2, <2>3, SentQuiet DEF Queue
  <2>5. UNCHANGED <<gate, on, vouched, newest, pull, shown>>
    BY <1>6 DEF Queue, Aside, World, history
  <2> QED
    BY <1>0, <2>4, <2>5, CoverKept, VerdictKept
<1>7. ASSUME NEW n \in Pulls, Merge(n) PROVE CoverInv' /\ VerdictInv'
  <2> DEFINE p == [pull[n] EXCEPT !.open = FALSE, !.head = Nothing]
  <2>1. pull[n].head \in Heads /\ gate[pull[n].head].state = "success"
    BY <1>0, <1>7 DEF Merge, PullOK, PullRequests
  <2>2. on[Protected] \subseteq on'[Protected] /\ on'[Protected] \subseteq vouched
    BY <1>7, <2>1, ProtectedAssumption DEF Merge, WorldOK, CoverInv, NothingUnvouched
  <2>3. UNCHANGED <<gate, vouched, newest, task>>
    BY <1>7 DEF Merge, Aside, history
  <2>4. Behind(p)
    BY <1>0 DEF PullRequests, Behind
  <2>5. \A m \in Pulls : Behind(pull'[m]) /\ Behind(shown'[m])
    BY <1>7, <2>4 DEF Merge, PullsOK, CoverInv
  <2>6. \A m \in Pulls : Behind(pull[m])' /\ Behind(shown[m])'
    BY <2>2, <2>5 DEF Behind
  <2>7. \A j \in Arrivals : Behind(task[j])'
    BY <2>2, <2>3 DEF Behind, CoverInv
  <2>8. CoverInv'
    BY <2>2, <2>3, <2>6, <2>7 DEF CoverInv, NothingUnvouched
  <2> QED
    BY <2>3, <2>8, VerdictKept
<1>8. ASSUME NEW h \in Heads, Rerun(h) PROVE CoverInv' /\ VerdictInv'
  <2> DEFINE of == {n \in Pulls : pull[n].open /\ pull[n].head = h}
             t == [New("again", of, h) EXCEPT !.at = "underway"]
  <2>1. TaskOK(t)
    <3>1. of \in SUBSET Pulls /\ arrived < MaxArrivals
      BY <1>8 DEF Rerun, Deliver
    <3> QED
      BY <3>1, NewOK
  <2>2. Behind(t)
    BY NothingAssumption, ProtectedAssumption DEF Behind, New, NoTask
  <2>3. Deliver(New("again", of, h))
    BY <1>8 DEF Rerun
  <2>4. \A j \in Arrivals :
           /\ Behind(task'[j])
           /\ task'[j].at \in {"judging", "finishing"} => task'[j] = task[j]
    BY <2>1, <2>2, <2>3, SentQuiet
  <2>5. UNCHANGED <<gate, on, vouched, newest, pull, shown>>
    BY <1>8 DEF Rerun, Aside, World, history
  <2> QED
    BY <1>0, <2>4, <2>5, CoverKept, VerdictKept
<1>9. ASSUME \/ \E c \in Commits : Trust(c)
             \/ Govern
      PROVE  CoverInv' /\ VerdictInv'
  <2>1. UNCHANGED <<gate, on, vouched, newest, pull, shown, task>>
    BY <1>9 DEF Trust, Govern, Aside, history
  <2> QED
    BY <1>0, <2>1, CoverKept, VerdictKept DEF CoverInv
<1> QED
  BY <1>1, <1>2, <1>3, <1>4, <1>5, <1>6, <1>7, <1>8, <1>9 DEF People

LEMMA NetworkSafe ==
    Typed /\ CoverInv /\ VerdictInv /\ Network => CoverInv' /\ VerdictInv'
<1> SUFFICES ASSUME Typed, CoverInv, VerdictInv, Network PROVE CoverInv' /\ VerdictInv'
  OBVIOUS
<1> USE DEF Typed
<1>0. \A n \in Pulls : Behind(pull[n]) /\ Behind(shown[n])
  BY DEF CoverInv
<1>1. ASSUME NEW n \in Pulls, CatchUp(n) PROVE CoverInv' /\ VerdictInv'
  <2>1. \A m \in Pulls : Behind(pull'[m]) /\ Behind(shown'[m])
    BY <1>0, <1>1 DEF CatchUp, PullsOK
  <2>2. UNCHANGED <<gate, on, vouched, newest, task>>
    BY <1>1 DEF CatchUp, Aside, history
  <2> QED
    BY <2>1, <2>2, CoverKept, VerdictKept DEF CoverInv
<1>2. ASSUME NEW i \in Arrivals, Lose(i) PROVE CoverInv' /\ VerdictInv'
  <2> DEFINE t == [task[i] EXCEPT !.at = "cut"]
  <2>1. t.at = "cut" /\ Behind(t) /\ task' = [task EXCEPT ![i] = t]
    BY <1>2 DEF Lose, TasksOK, Tasks, CoverInv, Behind
  <2>2. \A j \in Arrivals :
           /\ Behind(task'[j])
           /\ task'[j].at \in {"judging", "finishing"} => task'[j] = task[j]
    BY <2>1, PutQuiet
  <2>3. UNCHANGED <<gate, on, vouched, newest, pull, shown>>
    BY <1>2 DEF Lose, Aside, World, history
  <2> QED
    BY <1>0, <2>2, <2>3, CoverKept, VerdictKept
<1>3. ASSUME NEW i \in Arrivals, Redeliver(i) PROVE CoverInv' /\ VerdictInv'
  <2> DEFINE d == [Onward(task[i]) EXCEPT !.left = task[i].pulls, !.ok = TRUE]
             t == [d EXCEPT !.at = "underway"]
  <2>1. TaskOK(task[i]) /\ task[i].at \in Moving
    BY <1>3 DEF Redeliver, TasksOK, Moving
  <2>2. TaskOK(t)
    BY <2>1, OnwardRest
  <2>3. Behind(Onward(task[i]))
    BY OnwardBehind, <2>1
  <2>4. Behind(t)
    BY <2>1, <2>3, OnwardOK DEF TaskOK, Tasks, Behind
  <2>5. \A j \in Arrivals :
           /\ Behind(task'[j])
           /\ task'[j].at \in {"judging", "finishing"} => task'[j] = task[j]
    BY <1>3, <2>2, <2>4, SentQuiet DEF Redeliver
  <2>6. UNCHANGED <<gate, on, vouched, newest, pull, shown>>
    BY <1>3 DEF Redeliver, Aside, World, history
  <2> QED
    BY <1>0, <2>5, <2>6, CoverKept, VerdictKept
<1> QED
  BY <1>1, <1>2, <1>3 DEF Network

\* One task that moves, and not to a run, while branches and runs rest.
LEMMA PutSafe ==
    ASSUME Typed, CoverInv, VerdictInv, Bridge, UNCHANGED <<gate, vouched, newest>>,
           NEW i \in Arrivals, NEW t, Behind(t), t.at \notin {"judging", "finishing"},
           task' = [task EXCEPT ![i] = t]
    PROVE  CoverInv' /\ VerdictInv'
<1>1. \A j \in Arrivals :
         /\ Behind(task'[j])
         /\ task'[j].at \in {"judging", "finishing"} => task'[j] = task[j]
  BY PutQuiet DEF Typed
<1>2. UNCHANGED on /\ \A n \in Pulls : Behind(pull'[n]) /\ Behind(shown'[n])
  BY DEF Bridge, github, CoverInv
<1> QED
  BY <1>1, <1>2, CoverKept, VerdictKept

\* A run posted on the head of a check that holds its key: no other check is
\* between start and end there.
LEMMA PostsSafe ==
    ASSUME Typed, CoverInv, VerdictInv, Bridge, UNCHANGED <<vouched, newest>>,
           NEW i \in Arrivals, task[i].at = "claimed", PostsRun(task[i]), NEW t, Behind(t),
           task' = [task EXCEPT ![i] = t], t.at # "finishing",
           t.at = "judging" => t.head = task[i].head /\ t.run = started + 1
    PROVE  CoverInv' /\ VerdictInv'
<1> USE DEF Typed
<1>1. \A j \in Arrivals : task'[j] = IF j = i THEN t ELSE task[j]
  BY DEF TasksOK
<1>2. task[i].head \in Heads
  BY DEF TasksOK, TaskOK, Moving
<1>3. \A h \in Heads : gate'[h] = IF h = task[i].head
                               THEN [run |-> started + 1, state |-> "running"] ELSE gate[h]
  BY DEF PostsRun, StoreOK
<1>4. \A j \in Arrivals \ {i} :
         task[j].at \in {"judging", "finishing"}
            => task[j].head # task[i].head /\ task[j].head \in Heads
  BY DEF TasksOK, TaskOK, Holding, Key, Moving
<1>5. UNCHANGED <<on, pull, shown>>
  BY DEF Bridge, github
<1>6. CoverInv'
  BY <1>1, <1>3, <1>5 DEF CoverInv, NothingUnvouched, Behind
<1>7. VerdictInv'
  <2>1. NewestVerdictStands'
    BY <1>3 DEF VerdictInv, NewestVerdictStands
  <2>2. ASSUME NEW j \in Arrivals, task'[j].at \in {"judging", "finishing"}
        PROVE  /\ gate'[task'[j].head].run = task'[j].run
               /\ gate'[task'[j].head].state = "running"
    <3>1. CASE j = i
      BY <1>1, <1>2, <1>3, <2>2, <3>1
    <3>2. CASE j # i
      BY <1>1, <1>3, <1>4, <2>2, <3>2 DEF VerdictInv
    <3> QED
      BY <3>1, <3>2
  <2>3. ASSUME NEW j \in Arrivals, task'[j].at = "finishing"
        PROVE  newest'[task'[j].head] = task'[j].run
    BY <1>1, <2>3 DEF VerdictInv
  <2> QED
    BY <2>1, <2>2, <2>3 DEF VerdictInv
<1> QED
  BY <1>6, <1>7

\* A run that ends gives the verdict it came to.
LEMMA FinishesSafe ==
    ASSUME Typed, CoverInv, VerdictInv, Bridge, UNCHANGED <<vouched, newest>>,
           NEW i \in Arrivals, task[i].at = "finishing", Finishes(task[i]), NEW t, Behind(t),
           task' = [task EXCEPT ![i] = t], t.at \notin {"judging", "finishing"}
    PROVE  CoverInv' /\ VerdictInv'
<1> USE DEF Typed
<1>1. \A j \in Arrivals : task'[j] = IF j = i THEN t ELSE task[j]
  BY DEF TasksOK
<1>2. task[i].head \in Heads /\ gate[task[i].head].run = task[i].run
      /\ newest[task[i].head] = task[i].run
  BY DEF TasksOK, TaskOK, Moving, VerdictInv
<1>3. \A h \in Heads : gate'[h] = IF h = task[i].head
                               THEN [gate[h] EXCEPT !.state = task[i].verdict] ELSE gate[h]
  BY <1>2 DEF Finishes, StoreOK
<1>4. \A h \in Heads :
         /\ gate'[h].run = gate[h].run
         /\ h = task[i].head => gate'[h].state = task[i].verdict
  BY <1>3 DEF StoreOK
<1>5. \A j \in Arrivals \ {i} :
         task[j].at \in {"judging", "finishing"}
            => task[j].head # task[i].head /\ task[j].head \in Heads
  BY DEF TasksOK, TaskOK, Holding, Key, Moving
<1>6. UNCHANGED <<on, pull, shown>>
  BY DEF Bridge, github
<1>7. CoverInv'
  <2>1. \A h \in Heads : gate'[h].state = "success" => Reach[h] \subseteq vouched'
    BY <1>3, <1>4 DEF CoverInv
  <2> QED
    BY <1>1, <1>6, <2>1 DEF CoverInv, NothingUnvouched, Behind
<1>8. VerdictInv'
  <2>1. ASSUME NEW h \in Heads, gate'[h].state \in {"success", "failure"}
        PROVE  newest'[h] = gate'[h].run
    <3>1. CASE h = task[i].head
      BY <1>2, <1>4, <3>1
    <3>2. CASE h # task[i].head
      BY <1>3, <2>1, <3>2 DEF VerdictInv, NewestVerdictStands
    <3> QED
      BY <3>1, <3>2
  <2>2. ASSUME NEW j \in Arrivals, task'[j].at \in {"judging", "finishing"}
        PROVE  /\ gate'[task'[j].head].run = task'[j].run
               /\ gate'[task'[j].head].state = "running"
    <3>1. j # i /\ task'[j] = task[j]
      BY <1>1, <2>2
    <3>2. gate'[task[j].head] = gate[task[j].head]
      BY <1>3, <1>5, <2>2, <3>1
    <3> QED
      BY <2>2, <3>1, <3>2 DEF VerdictInv
  <2>3. ASSUME NEW j \in Arrivals, task'[j].at = "finishing"
        PROVE  newest'[task'[j].head] = task'[j].run
    BY <1>1, <2>3 DEF VerdictInv
  <2> QED
    BY <2>1, <2>2, <2>3 DEF VerdictInv, NewestVerdictStands
<1> QED
  BY <1>7, <1>8

LEMMA CheckSafe ==
    ASSUME Typed, CoverInv, VerdictInv, NEW i \in Arrivals, Check(i)
    PROVE  CoverInv' /\ VerdictInv'
<1> USE DEF Typed
<1>0. TaskOK(task[i]) /\ task[i] \in Tasks /\ Behind(task[i]) /\ Behind(Onward(task[i]))
  BY OnwardBehind DEF TasksOK, CoverInv
<1>a. task[i].at \in Moving => Onward(task[i]).at = "next"
  BY <1>0, OnwardOK
<1>b. Behind(Done(task[i])) /\ Done(task[i]).at = "done"
  BY NothingAssumption, ProtectedAssumption DEF Done, NoTask, Behind
<1>1. CASE Receive(i)
  <2>1. [task[i] EXCEPT !.at = "next"].at = "next" /\ Behind([task[i] EXCEPT !.at = "next"])
    BY <1>0 DEF Tasks, Behind
  <2> QED
    BY <1>1, <1>b, <2>1, PutSafe DEF Receive, Receives, history
<1>2. ASSUME NEW n \in task[i].left, Begin(i, n) PROVE CoverInv' /\ VerdictInv'
  <2> DEFINE t == [task[i] EXCEPT
                     !.at = IF task[i].kind = "group" THEN "basing" ELSE "reading",
                     !.pull = n, !.orphaned = ~governed]
  <2>1. task' = [task EXCEPT ![i] = t]
    BY <1>2 DEF Begin, TasksOK
  <2>2. Behind(t) /\ t.at \notin {"judging", "finishing"}
    BY <1>0 DEF Tasks, Behind
  <2> QED
    BY <1>2, <2>1, <2>2, PutSafe DEF Begin, Aside, history
<1>3. CASE ReadPull(i)
  <2>1. PullOK(shown[task[i].pull]) /\ Behind(shown[task[i].pull])
    BY <1>0, <1>3 DEF ReadPull, TaskOK, PullsOK, CoverInv
  <2>2. ASSUME NEW tip \in {shown[task[i].pull].holds, on[shown[task[i].pull].base]}
        PROVE  LET t == [task[i] EXCEPT !.at = "basing", !.base = shown[task[i].pull].base,
                                        !.holds = tip]
               IN  Behind(t) /\ t.at = "basing"
    BY <1>0, <2>1, <2>2 DEF Tasks, Behind
  <2> QED
    BY <1>0, <1>3, <1>a, <2>2, PutSafe DEF ReadPull, Moving, Aside, history
<1>4. CASE Claim(i)
  <2>1. [task[i] EXCEPT !.at = "claimed"].at = "claimed"
        /\ Behind([task[i] EXCEPT !.at = "claimed"])
    BY <1>0 DEF Tasks, Behind
  <2>2. \/ task' = [task EXCEPT ![i] = [task[i] EXCEPT !.at = "claimed"]]
        \/ task' = [task EXCEPT ![i] = Onward(task[i])]
    BY <1>4 DEF Claim, TasksOK
  <2> QED
    BY <1>0, <1>4, <1>a, <2>1, <2>2, PutSafe DEF Claim, Moving, history
<1>5. CASE StartRun(i)
  <2> DEFINE t == [task[i] EXCEPT !.at = "judging", !.run = started + 1]
  <2>1. task' = [task EXCEPT ![i] = t]
    BY <1>5 DEF StartRun, TasksOK
  <2>2. Behind(t) /\ t.at = "judging" /\ t.head = task[i].head /\ t.run = started + 1
    BY <1>0 DEF Tasks, Behind
  <2> QED
    BY <1>5, <2>1, <2>2, PostsSafe DEF StartRun, Starts, history
<1>6. CASE Judge(i)
  <2> USE <1>6
  <2>1. PICK v \in {"success", "failure"} :
             /\ v = "failure" \/ Passes(task[i])
             /\ task' = [task EXCEPT ![i].at = "finishing", ![i].verdict = v]
    BY DEF Judge
  <2> DEFINE t == [task[i] EXCEPT !.at = "finishing", !.verdict = v]
  <2>2. \A j \in Arrivals : task'[j] = IF j = i THEN t ELSE task[j]
    BY <2>1 DEF TasksOK
  <2>3. /\ Behind(t) /\ t.at = "finishing" /\ t.verdict = v
        /\ t.head = task[i].head /\ t.run = task[i].run
    BY <1>0 DEF Tasks, Behind
  <2>4. task[i].at = "judging" /\ task[i].head \in Heads /\ task[i].base = Protected
    BY <1>0 DEF Judge, TaskOK, Moving, Holding
  <2>5. UNCHANGED <<gate, on, pull, shown>>
    BY DEF Judge, Bridge, github
  <2>6. vouched \subseteq vouched' /\ Range(task[i]) \cap trusted \subseteq vouched'
    BY DEF Judge
  <2>7. v = "success" => Reach[task[i].head] \subseteq vouched'
    <3>1. SUFFICES ASSUME v = "success" PROVE Reach[task[i].head] \subseteq vouched'
      OBVIOUS
    <3>2. Reach[task[i].head] \subseteq Range(task[i]) \cup task[i].holds
      BY DEF Range
    <3>3. Range(task[i]) \subseteq vouched'
      BY <2>1, <2>6, <3>1 DEF Passes
    <3>4. task[i].holds \subseteq vouched'
      BY <1>0, <2>4, <2>6 DEF Behind, CoverInv, NothingUnvouched
    <3> QED
      BY <3>2, <3>3, <3>4
  <2>8. CoverInv'
    <3>1. \A j \in Arrivals :
             task'[j].at = "finishing" /\ task'[j].verdict = "success"
                => Reach[task'[j].head] \subseteq vouched'
      BY <2>2, <2>3, <2>6, <2>7 DEF CoverInv
    <3>2. \A j \in Arrivals : Behind(task'[j])
      BY <2>2, <2>3 DEF CoverInv
    <3>3. NothingUnvouched' /\ \A h \in Heads : gate'[h].state = "success"
                                                => Reach[h] \subseteq vouched'
      BY <2>5, <2>6 DEF CoverInv, NothingUnvouched
    <3> QED
      BY <2>5, <3>1, <3>2, <3>3 DEF CoverInv, Behind
  <2>9. VerdictInv'
    <3>1. \A h \in Heads : newest'[h] = IF h = task[i].head THEN task[i].run ELSE newest[h]
      BY DEF Judge, HistoryOK
    <3>2. gate[task[i].head].state = "running" /\ gate[task[i].head].run = task[i].run
      BY <2>4 DEF VerdictInv
    <3>3. NewestVerdictStands'
      BY <2>5, <3>1, <3>2 DEF VerdictInv, NewestVerdictStands
    <3>4. \A j \in Arrivals :
             task'[j].at \in {"judging", "finishing"}
                => /\ gate'[task'[j].head].run = task'[j].run
                   /\ gate'[task'[j].head].state = "running"
      BY <2>2, <2>3, <2>5, <3>2 DEF VerdictInv
    <3>5. \A j \in Arrivals :
             task'[j].at = "finishing" => newest'[task'[j].head] = task'[j].run
      <4>1. ASSUME NEW j \in Arrivals \ {i}, task[j].at = "finishing"
            PROVE  task[j].head \in Heads /\ task[j].head # task[i].head
        BY <2>4, <4>1 DEF TasksOK, TaskOK, Holding, Key, Moving
      <4>2. ASSUME NEW j \in Arrivals, task'[j].at = "finishing"
            PROVE  newest'[task'[j].head] = task'[j].run
        <5>1. CASE j = i
          <6>1. task'[j] = t /\ t.head = task[i].head /\ t.run = task[i].run
            BY <2>2, <2>3, <5>1
          <6> QED
            BY <2>4, <3>1, <6>1
        <5>2. CASE j # i
          <6>1. task'[j] = task[j] /\ task[j].at = "finishing"
            BY <2>2, <4>2, <5>2
          <6>2. newest'[task[j].head] = newest[task[j].head]
            BY <3>1, <4>1, <5>2, <6>1
          <6> QED
            BY <6>1, <6>2 DEF VerdictInv
        <5> QED
          BY <5>1, <5>2
      <4> QED
        BY <4>2
    <3> QED
      BY <3>3, <3>4, <3>5 DEF VerdictInv
  <2> QED
    BY <2>8, <2>9
<1>7. CASE FinishRun(i)
  <2>1. [task[i] EXCEPT !.at = "posted"].at = "posted"
        /\ Behind([task[i] EXCEPT !.at = "posted"])
    BY <1>0 DEF Tasks, Behind
  <2>2. task' = [task EXCEPT ![i] = [task[i] EXCEPT !.at = "posted"]]
    BY <1>7 DEF FinishRun, TasksOK
  <2> QED
    BY <1>7, <2>1, <2>2, FinishesSafe DEF FinishRun, history
<1>8. CASE Record(i)
  BY <1>0, <1>8, <1>a, PutSafe DEF Record, Posted, Moving, history
<1>9. CASE EndDelivery(i)
  <2>1. [task[i] EXCEPT !.at = "failed"].at = "failed"
        /\ Behind([task[i] EXCEPT !.at = "failed"])
    BY <1>0 DEF Tasks, Behind
  <2> QED
    BY <1>9, <1>b, <2>1, PutSafe DEF EndDelivery, history
<1> QED
  BY <1>1, <1>2, <1>3, <1>4, <1>5, <1>6, <1>7, <1>8, <1>9 DEF Check

LEMMA FailsSafe ==
    ASSUME Typed, CoverInv, VerdictInv, NEW i \in Arrivals, Fails(i)
    PROVE  CoverInv' /\ VerdictInv'
<1> USE DEF Typed
<1> DEFINE t == [Onward(task[i]) EXCEPT !.ok = FALSE]
<1>1. TaskOK(task[i]) /\ task[i].at \in Moving
  BY DEF Fails, TasksOK, Moving
<1>2. t.at = "next" /\ Behind(t)
  BY <1>1, OnwardOK, OnwardBehind DEF TaskOK, Tasks, Behind
<1>3. task' = [task EXCEPT ![i] = t] /\ Bridge /\ UNCHANGED <<vouched, newest>>
  BY DEF Fails, history
<1>4. CASE UNCHANGED <<gate, started>>
  BY <1>2, <1>3, <1>4, PutSafe
<1>5. CASE task[i].at = "claimed" /\ Starts(task[i])
  BY <1>2, <1>3, <1>5, PostsSafe DEF Starts
<1>6. CASE task[i].at = "finishing" /\ Finishes(task[i])
  BY <1>2, <1>3, <1>6, FinishesSafe
<1> QED
  BY <1>4, <1>5, <1>6 DEF Fails

LEMMA CrashSafe ==
    Typed /\ CoverInv /\ VerdictInv /\ Crash => CoverInv' /\ VerdictInv'
<1> SUFFICES ASSUME Typed, CoverInv, VerdictInv, Crash PROVE CoverInv' /\ VerdictInv'
  OBVIOUS
<1> USE DEF Typed
<1>1. ASSUME NEW j \in Arrivals
      PROVE  Behind(task'[j]) /\ task'[j].at \notin {"judging", "finishing"}
  <2>1. TaskOK(task[j]) /\ Behind(task[j]) /\ Behind(Onward(task[j]))
    BY OnwardBehind DEF TasksOK, CoverInv
  <2>2. CASE task[j].at \in {"unsent", "underway", "done", "failed", "cut"}
    BY <2>1, <2>2 DEF Crash
  <2>3. CASE task[j].at \notin {"unsent", "underway", "done", "failed", "cut"}
    <3> DEFINE t == [Onward(task[j]) EXCEPT !.at = "cut", !.ok = TRUE]
    <3>1. Onward(task[j]) \in Tasks
      BY <2>1, <2>3, OnwardOK DEF TaskOK, Tasks, Moving
    <3>2. t.at = "cut" /\ Behind(t)
      BY <2>1, <3>1 DEF Tasks, Behind
    <3>3. task'[j] = t
      BY <2>3 DEF Crash
    <3> QED
      BY <3>2, <3>3
  <2> QED
    BY <2>2, <2>3
<1>2. UNCHANGED <<gate, on, vouched, newest, pull, shown>>
  BY DEF Crash, Bridge, github, history
<1> QED
  BY <1>1, <1>2, CoverKept, VerdictKept DEF CoverInv

LEMMA StepSafe ==
    Typed /\ CoverInv /\ VerdictInv /\ [Next]_vars => CoverInv' /\ VerdictInv'
<1> SUFFICES ASSUME Typed, CoverInv, VerdictInv, [Next]_vars PROVE CoverInv' /\ VerdictInv'
  OBVIOUS
<1>1. CASE StartReport \/ Inspect \/ Tell \/ UNCHANGED vars
  <2>1. UNCHANGED <<gate, on, vouched, newest, pull, shown, task>>
    BY <1>1 DEF StartReport, Inspect, Tell, vars, Bridge, github, Checks, history
  <2> QED
    BY <2>1, CoverKept, VerdictKept DEF CoverInv
<1>2. CASE People \/ Network \/ Crash \/ \E i \in Arrivals : Check(i) \/ Fails(i)
  BY <1>2, PeopleSafe, NetworkSafe, CheckSafe, FailsSafe, CrashSafe
<1> QED
  BY <1>1, <1>2 DEF Next

LEMMA Safe == Spec => [](CoverInv /\ VerdictInv)
<1>1. Init => Typed /\ CoverInv /\ VerdictInv
  BY InitTyped, InitSafe
<1>2. Typed /\ CoverInv /\ VerdictInv /\ [Next]_vars => (Typed /\ CoverInv /\ VerdictInv)'
  BY StepTyped, StepSafe
<1> QED
  BY <1>1, <1>2, PTL DEF Spec

\* checks::run posts nothing for a base that is not protected, and verifies the
\* whole of base...head: whatever pull requests share a head or change their
\* base, nothing is merged that no check found trusted.
THEOREM NothingGetsInUnvouched == Spec => []NothingUnvouched
<1>1. CoverInv => NothingUnvouched
  BY DEF CoverInv
<1> QED
  BY <1>1, Safe, PTL

\* CheckRunner's keys: the verdict GitHub goes by on a head is the one that was
\* judged last, over failures, redeliveries and crashes.
THEOREM TheNewestVerdictStands == Spec => []NewestVerdictStands
<1>1. VerdictInv => NewestVerdictStands
  BY DEF VerdictInv
<1> QED
  BY <1>1, Safe, PTL
=============================================================================
