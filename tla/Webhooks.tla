------------------------------ MODULE Webhooks ------------------------------
(***************************************************************************)
(* What the bridge makes of GitHub's webhooks (`vgi-bridge/src/events.rs`,  *)
(* `vgi-forge-github/src/webhook.rs`, inspect_repo and manage in jobs.rs):  *)
(* organisations, each a namespace with its own App, and repositories that  *)
(* people and the bridge create, rename, transfer and delete.  A delivery   *)
(* may be lost, late, out of order or sent again, and speaks for the        *)
(* organisation whose App sent it: its secret is that organisation's, so    *)
(* its other fields may name anything.                                      *)
(*                                                                          *)
(* A handler runs as a task beside the jobs; its synchronous stretches are  *)
(* one step each.  A repository is its forge id; a name is a place, which   *)
(* GitHub keeps answering for after the repository left it (a redirect).    *)
(***************************************************************************)
EXTENDS Naturals, FiniteSets

CONSTANTS Owners, Names, Ids, Nothing,
          Plans        \* how often each move may happen in a behaviour, the
                       \*   names in use, what is governed from the start

Moves == {"stranger", "rename", "transfer", "delete", "edit", "claim",
          "create", "adopt", "roles", "lose", "again", "crash", "stall"}

VARIABLES
  forge,    \* GitHub: where each repository is, the ids born, the id each
            \*   name leads to, the number of events so far
  posts,    \* deliveries under way, or that can be sent again
  seen,     \* Deliveries: those recorded as handled
  tasks,    \* the handlers at work
  store,    \* Repos and Namespaces: each id's record, the managed sets, and
            \*   the adapter's copy of these
  jobs,     \* each namespace's job, and its lock
  told,     \* what the VTCs were told
  notes,    \* history: deliveries handled, and whether one was twice; ids the
            \*   bridge created and recorded in time; ids ever detached; those
            \*   that were, or were deleted, while a job had them in hand; those
            \*   each namespace lost since its last job for them; those whose
            \*   record named a place outside its namespace; the owners each
            \*   was with since it was recorded, or was found with by a handler
            \*   at work then
  plan, count

vars == <<forge, posts, seen, tasks, store, jobs, told, notes, plan, count>>

Places == Owners \X Names
Inside(p, o) == p \in {o} \X Names
NoRecord == [ns |-> Nothing, at |-> Nothing]
Resting == [at |-> "idle", kind |-> "none", id |-> Nothing, place |-> Nothing,
            view |-> {}, slow |-> FALSE]

Deliveries == [event : Nat, to : Owners, id : Ids,
               kind : {"created", "deleted", "renamed", "transferred", "edited"},
               from : Places \cup {Nothing}, at : Places]
Reports == [to : Owners, what : {"unmanaged", "deleted", "renamed", "transferred"},
            id : Ids, from : Places \cup {Nothing}, at : Places]

TypeOK ==
  /\ plan \in [moves : [Moves -> Nat], names : SUBSET Names,
               given : SUBSET (Ids \X (Owners \X Names))]
  /\ forge \in [place : [Ids -> Places \cup {Nothing}], born : SUBSET Ids,
                way : [Places -> Ids \cup {Nothing}], events : Nat]
  /\ posts \subseteq Deliveries /\ seen \subseteq Deliveries
  /\ \A t \in tasks :
       t \in [post : Deliveries, at : {"new", "wait", "confirm", "report", "look", "act"},
              found : Places \cup {Nothing}, id : Ids \cup {Nothing},
              old : [ns : Owners \cup {Nothing}, at : Places \cup {Nothing}]]
  /\ store \in [record : [Ids -> [ns : Owners \cup {Nothing}, at : Places \cup {Nothing}]],
                managed : [Owners -> SUBSET Ids], listed : [Owners -> SUBSET Ids]]
  /\ \A o \in Owners :
       /\ jobs[o].lock \in {"free", "job", "look"}
       /\ jobs[o].job \in
            [at : {"idle", "forge", "manage", "plan", "persist", "roles"}, view : SUBSET Ids,
             kind : {"none", "create", "adopt", "roles"}, id : Ids \cup {Nothing},
             place : Places \cup {Nothing}, slow : BOOLEAN]
  /\ told \subseteq Reports
  /\ notes \in [handled : SUBSET Deliveries, twice : BOOLEAN, made : SUBSET Ids,
                dropped : SUBSET Ids, caught : SUBSET Ids, astray : SUBSET Ids,
                gone : [Owners -> SUBSET Ids], been : [Ids -> SUBSET Owners]]

(* Nothing yet, or what a job governed long since.                          *)
At(i) == {g[2] : g \in {g \in plan.given : g[1] = i}}
Init ==
  /\ plan \in Plans
  /\ forge = [place |-> [i \in Ids |-> CHOOSE p \in At(i) \cup {Nothing} :
                                          At(i) # {} => p # Nothing],
              born |-> {g[1] : g \in plan.given},
              way |-> [p \in Places |-> CHOOSE i \in Ids \cup {Nothing} :
                         IF \E g \in plan.given : g[2] = p THEN <<i, p>> \in plan.given
                         ELSE i = Nothing],
              events |-> 0]
  /\ posts = {} /\ seen = {} /\ tasks = {} /\ told = {}
  /\ LET ids == [o \in Owners |-> {i \in Ids : Inside(forge.place[i], o)}] IN
     store = [record |-> [i \in Ids |->
                IF At(i) = {} THEN NoRecord
                ELSE [ns |-> forge.place[i][1], at |-> forge.place[i]]],
              managed |-> ids, listed |-> ids]
  /\ jobs = [o \in Owners |-> [lock |-> "free", job |-> Resting]]
  /\ notes = [handled |-> {}, twice |-> FALSE, made |-> {}, dropped |-> {},
              caught |-> {}, astray |-> {}, gone |-> [o \in Owners |-> {}],
              been |-> [i \in Ids |-> {o \in Owners : Inside(forge.place[i], o)}]]
  /\ count = [m \in Moves |-> 0]

Happens(m) ==
  /\ count[m] < plan.moves[m]
  /\ count' = [count EXCEPT ![m] = @ + 1]
  /\ UNCHANGED plan
Quiet == UNCHANGED <<plan, count>>

-----------------------------------------------------------------------------
(* GitHub.                                                                  *)

Taken == {forge.place[i] : i \in Ids}
Post(to, kind, i, from, at) ==
  [event |-> forge.events, to |-> to, kind |-> kind, id |-> i, from |-> from, at |-> at]
Moved(i, p) ==
  [forge EXCEPT !.place[i] = p, !.born = @ \cup {i}, !.events = @ + 1,
                !.way = IF p = Nothing THEN @ ELSE [@ EXCEPT ![p] = i]]
(* The ids jobs have in hand: what they write next was read before.         *)
InHand == {i \in Ids : \E o \in Owners : i = jobs[o].job.id \/ i \in jobs[o].job.view}
World == UNCHANGED <<seen, tasks, store, jobs, told>>

StrangerCreates(i, p) ==
  /\ Happens("stranger") /\ i \notin forge.born /\ p \notin Taken
  /\ forge' = Moved(i, p)
  /\ posts' = posts \cup {Post(p[1], "created", i, Nothing, p)}
  /\ World /\ UNCHANGED notes

Rename(i, p) ==
  /\ Happens("rename") /\ forge.place[i] # Nothing /\ p \notin Taken
  /\ Inside(p, forge.place[i][1])
  /\ forge' = Moved(i, p)
  /\ posts' = posts \cup {Post(p[1], "renamed", i, forge.place[i], p)}
  /\ World /\ UNCHANGED notes

(* Both organisations' Apps may be told of it.                              *)
Transfer(i, p) ==
  /\ Happens("transfer") /\ forge.place[i] # Nothing /\ p \notin Taken
  /\ p[1] # forge.place[i][1] /\ p[2] = forge.place[i][2]
  /\ forge' = Moved(i, p)
  /\ posts' = posts \cup {Post(o, "transferred", i, forge.place[i], p) :
                            o \in {p[1], forge.place[i][1]}}
  /\ notes' = [notes EXCEPT !.been[i] = @ \cup {p[1]}]
  /\ World

Delete(i) ==
  /\ Happens("delete") /\ forge.place[i] # Nothing
  /\ forge' = Moved(i, Nothing)
  /\ posts' = posts \cup
       {Post(forge.place[i][1], "deleted", i, Nothing, forge.place[i])}
  /\ notes' = [notes EXCEPT !.caught = @ \cup (InHand \cap {i})]
  /\ World

(* Somebody changes its branch rules.                                       *)
Edit(i) ==
  /\ Happens("edit") /\ forge.place[i] # Nothing
  /\ forge' = [forge EXCEPT !.events = @ + 1]
  /\ posts' = posts \cup {Post(forge.place[i][1], "edited", i, Nothing, forge.place[i])}
  /\ World /\ UNCHANGED notes

(* A delivery its App's owner signed, of what did not happen.               *)
Claim(d) ==
  /\ Happens("claim") /\ d.event = forge.events
  /\ forge' = [forge EXCEPT !.events = @ + 1]
  /\ posts' = posts \cup {d}
  /\ World /\ UNCHANGED notes

Lose(d) ==
  /\ Happens("lose") /\ d \in posts
  /\ posts' = posts \ {d}
  /\ World /\ UNCHANGED <<forge, notes>>

(* Where a request for a name ends: with the repository it leads to.        *)
Answer(p) == IF p = Nothing \/ forge.way[p] = Nothing THEN Nothing
             ELSE IF forge.place[forge.way[p]] = Nothing THEN Nothing ELSE forge.way[p]

-----------------------------------------------------------------------------
(* What the handlers do to the records.                                     *)

RepoIn(o, i) == store.record[i].ns = o
ClaimedByAny(o, i) ==
  \/ store.record[i].ns \notin {o, Nothing}
  \/ \E q \in Owners : i \in store.managed[q]
ClaimedElsewhere(o, i) ==
  \/ store.record[i].ns \notin {o, Nothing}
  \/ \E q \in Owners \ {o} : i \in store.managed[q]
(* Records of `o' at a name that is another repository's now.               *)
Stale(o, p, i) == {j \in Ids \ {i} : store.record[j] = [ns |-> o, at |-> p]}

Without(st, gone) ==
  [record |-> [i \in Ids |-> IF i \in gone THEN NoRecord ELSE st.record[i]],
   managed |-> [o \in Owners |-> st.managed[o] \ gone],
   listed |-> [o \in Owners |-> IF st.managed[o] \cap gone = {} THEN st.listed[o]
                                 ELSE st.managed[o] \ gone]]
Astray(st) == {i \in Ids : /\ st.record[i] # NoRecord
                           /\ ~Inside(st.record[i].at, st.record[i].ns)}
(* Detach the ids `gone', then write `st' back and tell `reports'.          *)
Write(gone, st, reports) ==
  /\ store' = st
  /\ told' = told \cup reports
  /\ notes' = [notes EXCEPT
       !.dropped = @ \cup gone,
       !.astray = @ \cup Astray(st),
       !.caught = @ \cup (gone \cap InHand),
       !.gone = [o \in Owners |-> @[o] \cup
                  {i \in gone : RepoIn(o, i) \/ i \in store.managed[o]}]]
Detach(gone, reports) == Write(gone, Without(store, gone), reports)
Nothing2Do == UNCHANGED <<store, told, notes>>

Tell(o, what, i, from, at) ==
  [to |-> o, what |-> what, id |-> i, from |-> from, at |-> at]

ReportUnmanaged(o, p, i) ==
  IF RepoIn(o, i) THEN Nothing2Do
  ELSE Detach(Stale(o, p, i), {Tell(o, "unmanaged", i, Nothing, p)})

(* Out of `o', as far as another namespace does not record or manage it.    *)
TransferredOut(o, from, to, i) ==
  IF ClaimedElsewhere(o, i) THEN Nothing2Do
  ELSE Detach({i}, {Tell(o, "transferred", i, from, to)})

(* Where record `i' is, once renamed in `o'.                                *)
Renamed(o, i, p) ==
  LET st == Without(store, Stale(o, p, i))
  IN IF RepoIn(o, i) THEN [st EXCEPT !.record[i].at = p] ELSE st

(* GitHub answered with `i' at `p', and `rec' is its record, of whatever    *)
(* namespace.  (Drift reports are left out: they change no record's place.) *)
Inspected(o, p, i, rec) ==
  CASE ~Inside(p, o) ->
         IF Inside(rec.at, o) THEN TransferredOut(o, rec.at, p, i) ELSE Nothing2Do
    [] Inside(p, o) /\ rec = NoRecord ->
         IF Stale(o, p, i) = {} THEN Nothing2Do ELSE ReportUnmanaged(o, p, i)
    [] Inside(p, o) /\ rec \notin {NoRecord, [rec EXCEPT !.at = p]} ->
         Write(Stale(o, p, i),
               [Without(store, Stale(o, p, i)) EXCEPT !.record[i].at = p],
               {Tell(o, "renamed", i, rec.at, p)})
    [] OTHER -> Nothing2Do

-----------------------------------------------------------------------------
(* A delivery arrives: verified, in its App's scope, and not handled before.*)

Admits(d) ==
  CASE d.kind = "renamed" -> Inside(d.from, d.to) /\ Inside(d.at, d.to)
    [] d.kind = "transferred" -> Inside(d.from, d.to) \/ Inside(d.at, d.to)
    [] OTHER -> Inside(d.at, d.to)
Recorded(d) == seen \cup {d}

Receive(d, again) ==
  /\ d \in posts
  /\ IF again THEN Happens("again") /\ UNCHANGED posts
     ELSE Quiet /\ posts' = posts \ {d}
  /\ IF Admits(d) /\ d \notin seen
     THEN /\ seen' = Recorded(d)
          /\ tasks' = tasks \cup {[post |-> d, at |-> "new", found |-> Nothing,
                                   id |-> Nothing, old |-> NoRecord]}
          /\ notes' = [notes EXCEPT !.handled = @ \cup {d},
                                    !.twice = @ \/ d \in notes.handled]
     ELSE UNCHANGED <<seen, tasks, notes>>
  /\ UNCHANGED <<forge, store, jobs, told>>

Ends(t) == tasks' = tasks \ {t}
Goes(t, next) == tasks' = (tasks \ {t}) \cup {next}

(* A repository created: reported once the bridge, if it is the creator, has*)
(* had time to record it.                                                   *)
OnCreated(t) ==
  /\ t.post.kind = "created"
  /\ \/ /\ t.at = "new"
        /\ IF RepoIn(t.post.to, t.post.id) THEN Ends(t)
           ELSE Goes(t, [t EXCEPT !.at = "wait"])
        /\ Nothing2Do
     \/ /\ t.at = "wait"
        /\ \A o \in Owners : LET j == jobs[o].job IN
             j.kind = "create" /\ j.at = "manage" /\ j.id = t.post.id => j.slow
        /\ Ends(t)
        /\ ReportUnmanaged(t.post.to, t.post.at, t.post.id)
  /\ UNCHANGED jobs

OnDeleted(t) ==
  /\ t.post.kind = "deleted"
  /\ Ends(t)
  /\ IF ClaimedElsewhere(t.post.to, t.post.id) THEN Nothing2Do
     ELSE Detach({t.post.id},
                 {Tell(t.post.to, "deleted", t.post.id, Nothing, t.post.at)})
  /\ UNCHANGED jobs

OnRenamed(t) ==
  LET o == t.post.to  i == t.post.id  p == t.post.at IN
  /\ t.post.kind = "renamed"
  /\ Ends(t)
  /\ IF ClaimedElsewhere(o, i) THEN Nothing2Do
     ELSE Write(Stale(o, p, i), Renamed(o, i, p), {Tell(o, "renamed", i, t.post.from, p)})
  /\ UNCHANGED jobs

(* GitHub showed `i' with `o', and nobody but `old' has it here.            *)
LeftForUnasked(o, i, found, old) == ~ClaimedElsewhere(old, i)
LeftFor(o, i, found, old) ==
  Inside(found, o) /\ ~Inside(found, old) /\ ~ClaimedElsewhere(old, i)

(* A transfer: out, if this owner records it or had it; else in, and another*)
(* owner's record of it goes only if GitHub says that it is here.           *)
OnTransferred(t) ==
  LET o == t.post.to  i == t.post.id  p == t.post.at
      mine == RepoIn(o, i) /\ Inside(store.record[i].at, o)
      from == IF mine THEN store.record[i].at ELSE <<o, p[2]>>
  IN
  /\ t.post.kind = "transferred"
  /\ \/ /\ t.at = "new" /\ (mine \/ Inside(t.post.from, o))
        /\ Ends(t) /\ TransferredOut(o, from, p, i)
     \/ /\ t.at = "new" /\ ~(mine \/ Inside(t.post.from, o))
        /\ IF store.record[i].ns \in {o, Nothing}
           THEN Ends(t) /\ ReportUnmanaged(o, p, i)
           ELSE /\ Goes(t, [t EXCEPT !.at = "confirm", !.old = store.record[i]])
                /\ Nothing2Do
     \/ /\ t.at = "confirm"      \* the call may also fail
        /\ \E found \in {forge.place[i], Nothing} :
             Goes(t, [t EXCEPT !.at = "report", !.found = found])
        /\ Nothing2Do
     \/ /\ t.at = "report" /\ Ends(t)
        /\ IF LeftFor(o, i, t.found, t.old.ns)
           THEN Detach({i} \cup Stale(o, p, i),
                  {Tell(t.old.ns, "transferred", i, t.old.at, t.found),
                   Tell(o, "unmanaged", i, Nothing, p)})
           ELSE ReportUnmanaged(o, p, i)
  /\ UNCHANGED jobs

(* A change of its rules prompts an inspection, under the namespace's lock: *)
(* what GitHub answers for the name is compared with what is recorded.      *)
OnEdited(t) ==
  LET o == t.post.to  p == t.found  i == t.id IN
  /\ t.post.kind = "edited"
  /\ \/ /\ t.at = "new" /\ jobs[o].lock = "free"
        /\ \E i2 \in {Answer(t.post.at), Nothing} :
             IF i2 = Nothing THEN Ends(t) /\ UNCHANGED jobs
             ELSE /\ Goes(t, [t EXCEPT !.at = "act", !.id = i2, !.found = forge.place[i2]])
                  /\ jobs' = [jobs EXCEPT ![o].lock = "look"]
        /\ Nothing2Do
     \/ /\ t.at = "act"
        /\ Ends(t)
        /\ jobs' = [jobs EXCEPT ![o].lock = "free"]
        /\ Inspected(o, p, i, store.record[i])

-----------------------------------------------------------------------------
(* The jobs that record repositories, one of a namespace at a time.         *)

SetJob(o, j) == jobs' = [jobs EXCEPT ![o].job = j]
EndJob(o) == jobs' = [jobs EXCEPT ![o] = [lock |-> "free", job |-> Resting]]
Beside == UNCHANGED <<posts, seen, tasks, told>>

Take(o, kind, p) ==
  /\ Happens(kind) /\ jobs[o].lock = "free" /\ Inside(p, o)
  /\ jobs' = [jobs EXCEPT ![o] =
       [lock |-> "job",
        job |-> [Resting EXCEPT !.at = "forge", !.kind = kind, !.place = p]]]
  /\ Beside /\ UNCHANGED <<forge, store, notes>>

(* createRepo: GitHub makes the repository, and tells the App so.           *)
Create(o, i) ==
  LET j == jobs[o].job IN
  /\ j.at = "forge" /\ j.kind = "create" /\ Quiet
  /\ i \notin forge.born /\ j.place \notin Taken
  /\ forge' = Moved(i, j.place)
  /\ posts' = posts \cup {Post(o, "created", i, Nothing, j.place)}
  /\ SetJob(o, [j EXCEPT !.at = "manage", !.id = i])
  /\ UNCHANGED <<seen, tasks, store, told, notes>>

(* bootstrap reads the repository the name leads to, and its name now; the  *)
(* role jobs go by the record at the name, if there is one.                 *)
Read(o) ==
  LET j == jobs[o].job
      known == {i \in Ids : store.record[i].at = j.place}
  IN
  /\ j.at = "forge" /\ Quiet
  /\ \/ /\ j.kind = "adopt" /\ Answer(j.place) # Nothing
        /\ SetJob(o, [j EXCEPT !.at = "manage", !.id = Answer(j.place),
                               !.place = forge.place[Answer(j.place)]])
     \/ /\ j.kind = "roles"
        /\ \E i \in IF known # {} THEN known ELSE {Answer(j.place)} \ {Nothing} :
             SetJob(o, [j EXCEPT !.at = "roles", !.id = i])
  /\ Beside /\ UNCHANGED <<forge, store, notes>>

(* The create's answer takes longer than the handler of `created' waits.    *)
Stall(o) ==
  /\ Happens("stall")
  /\ jobs[o].job.kind = "create" /\ jobs[o].job.at = "manage"
  /\ jobs' = [jobs EXCEPT ![o].job.slow = TRUE]
  /\ Beside /\ UNCHANGED <<forge, store, notes>>

(* An existing record keeps its namespace.                                  *)
FirstRecordBare(o, p) == [ns |-> o, at |-> o]
FirstRecord(o, p) == [ns |-> o, at |-> p]
Managed(o, i, p) ==
  LET ids == store.managed[o] \cup {i} IN
  [store EXCEPT !.record[i] = IF store.record[i] = NoRecord THEN FirstRecord(o, p)
                              ELSE [@ EXCEPT !.at = p],
                !.managed[o] = ids, !.listed[o] = ids]
Manage(o) ==
  LET j == jobs[o].job  i == j.id IN
  /\ j.at = "manage" /\ Quiet
  /\ store' = Managed(o, i, j.place)
  /\ notes' = [notes EXCEPT
       !.made = IF j.kind = "create" /\ ~j.slow THEN @ \cup {i} ELSE @,
       !.gone[o] = @ \ {i},
       !.astray = @ \cup Astray(store'),
       !.been[i] = {q \in Owners :
                      \/ Inside(forge.place[i], q)
                      \/ \E t \in tasks : t.post.id = i /\ Inside(t.found, q)}]
  /\ SetJob(o, [j EXCEPT !.at = "plan"])
  /\ Beside /\ UNCHANGED forge

(* The plan ran; the adapter's set is written back to the store.            *)
Persist(o) ==
  LET j == jobs[o].job IN
  /\ Quiet
  /\ \/ /\ j.at = "plan"
        /\ SetJob(o, [j EXCEPT !.at = "persist", !.view = store.listed[o]])
        /\ UNCHANGED store
     \/ /\ j.at = "persist"
        /\ store' = [store EXCEPT !.managed[o] = j.view]
        /\ IF j.kind = "create" THEN SetJob(o, [j EXCEPT !.at = "roles", !.view = {}])
           ELSE EndJob(o)
  /\ Beside /\ UNCHANGED <<forge, notes>>

(* Roles were given: recorded, in a new record if there is none.            *)
Roles(o) ==
  LET j == jobs[o].job IN
  /\ j.at = "roles" /\ Quiet
  /\ store' = [store EXCEPT !.record[j.id] =
                 IF @ = NoRecord THEN FirstRecord(o, j.place) ELSE @]
  /\ notes' = [notes EXCEPT !.astray = @ \cup Astray(store'), !.gone[o] = @ \ {j.id}]
  /\ EndJob(o)
  /\ Beside /\ UNCHANGED forge

(* A call to GitHub fails (a create that was answered "failed" made nothing;*)
(* a step of the plan that failed is persisted with the rest, and no roles  *)
(* follow; without a plan nothing is).                                      *)
Fail(o) ==
  /\ jobs[o].job.at \in {"forge", "plan", "roles"} /\ Quiet
  /\ EndJob(o)
  /\ Beside /\ UNCHANGED <<forge, store, notes>>

(* The process ends: the tasks and the jobs' progress are gone, the         *)
(* adapter is told again what the store has.                                *)
Crash ==
  /\ Happens("crash")
  /\ tasks' = {}
  /\ jobs' = [o \in Owners |-> [lock |-> "free", job |-> Resting]]
  /\ store' = [store EXCEPT !.listed = store.managed]
  /\ UNCHANGED <<forge, posts, seen, told, notes>>

-----------------------------------------------------------------------------
Handle ==
  \E t \in tasks :
    /\ OnCreated(t) \/ OnDeleted(t) \/ OnRenamed(t) \/ OnTransferred(t) \/ OnEdited(t)
    /\ Quiet /\ UNCHANGED <<forge, posts, seen>>
RunJob ==
  \E o \in Owners :
    (\E i \in Ids : Create(o, i)) \/ Read(o) \/ Manage(o) \/ Persist(o) \/ Roles(o) \/ Fail(o)
Proceed == Handle \/ RunJob \/ \E d \in posts : Receive(d, FALSE)

InUse == Owners \X plan.names
Next ==
  \/ \E i \in Ids :
       \/ \E p \in InUse : StrangerCreates(i, p) \/ Rename(i, p) \/ Transfer(i, p)
       \/ Delete(i) \/ Edit(i)
  \/ \E o \in Owners, i \in Ids, p, q \in InUse,
       k \in {"created", "deleted", "renamed", "transferred"} :
       Claim([event |-> forge.events, to |-> o, kind |-> k, id |-> i, from |-> p, at |-> q])
  \/ \E d \in posts : Lose(d) \/ Receive(d, TRUE)
  \/ \E o \in Owners :
       \/ \E p \in InUse, k \in {"create", "adopt", "roles"} : Take(o, k, p)
       \/ Stall(o)
  \/ Crash
  \/ Proceed

(* Deliveries arrive, tasks are run, calls answer or fail.                  *)
Spec == Init /\ [][Next]_vars /\ WF_vars(Proceed)

-----------------------------------------------------------------------------
(* A delivery is handled once, however often it is sent (events.rs:253).    *)
EachOnce == ~notes.twice

(* Every repository an event names lies in the namespace it goes to (event  *)
(* 0.2; events.rs:324, 475, 621), whatever the delivery says - if no        *)
(* inspection and no job put the record of the repository astray.           *)
EventsStayInside ==
  \A r \in told : r.id \notin notes.astray =>
    /\ r.what \in {"renamed", "transferred"} => Inside(r.from, r.to)
    /\ r.what # "transferred" => Inside(r.at, r.to)

(* What the bridge created and recorded in time is not reported as a        *)
(* stranger's, unless it was detached or moved, or an App's owner says so   *)
(* (events.rs:592: the wait, then the record is looked up again).           *)
OwnNotStrange ==
  count["transfer"] = 0 /\ count["claim"] = 0 =>
    \A r \in told : r.what = "unmanaged" /\ r.id \in notes.made => r.id \in notes.dropped

(* What left a namespace is neither recorded nor managed there until a job  *)
(* of it says so (event 0.2: rights never follow a repository; events.rs    *)
(* detach) - but for a job that had it in hand when it was detached.        *)
NothingIsCarried ==
  \A o \in Owners : \A i \in notes.gone[o] \ notes.caught :
    store.record[i].ns # o /\ i \notin store.managed[o] /\ i \notin store.listed[o]

(* No step (an action): an organisation's delivery takes nothing from another namespace unless   *)
(* the repository left it, by GitHub's own answer (events.rs:307            *)
(* detach_from, 323 confirm_transfer_in).                                   *)
OnlyItsOwn ==
  \A i \in Ids, o \in Owners :
    /\ store.record[i].ns = o /\ store'.record[i].ns # o
    /\ \A t \in tasks \ tasks' : t.post.to # o
    => notes.been[i] \ {o} # {}

(* A repository deleted while recorded is dropped in the end - if none of   *)
(* its deliveries is lost and no crash takes a handler, no job has it in    *)
(* hand, and no two namespaces have it.                                     *)
Excused(i) ==
  \/ count["lose"] > 0 \/ count["crash"] > 0 \/ i \in notes.caught
  \/ \E o \in Owners : i \in store.managed[o] /\ store.record[i].ns # o
Orphan(i) ==
  i \in forge.born /\ forge.place[i] = Nothing /\ store.record[i] # NoRecord
Dropped(i) == store.record[i] = NoRecord \/ Excused(i)
LeftBehind == \E i \in Ids : Orphan(i) /\ ~Dropped(i)
DeletedIsDropped == []<>~LeftBehind

(* "a replayed or reordered delivery costs a read, not a wrong state"       *)
(* (events.rs:7): no delivery of what happened detaches a repository that   *)
(* still is where its record says.                                          *)
LateCostsNothing ==
  count["claim"] = 0 =>
    \A i \in Ids :
      store.record[i] # NoRecord /\ store'.record[i] = NoRecord
        => forge.place[i] # store.record[i].at
=============================================================================
