---------------------------- MODULE NamespaceLife ----------------------------
(***************************************************************************)
(* A namespace's life on the bridge: bound, orphaned when its VTC answers  *)
(* that it does not have it, back when the VTC sends a job for it,         *)
(* superseded when its owner is bound again under another id, forgotten    *)
(* when it was orphaned for long enough.                                   *)
(*                                                                         *)
(* The document loop, the binds' callbacks, the jobs, the retention sweep, *)
(* the role-map reports and the senders are tasks of one process, on       *)
(* several threads; they share the store, a transaction at a time, and the *)
(* jobs and the sweep a lock per namespace.                                *)
(*                                                                         *)
(* Every id here names the same owner.  Events are of two kinds: the one   *)
(* that reports a bind, and the namespace's role map, queued under one key *)
(* so that a newer report replaces an older one.                           *)
(***************************************************************************)
EXTENDS Naturals, FiniteSets

CONSTANTS
    Names,      \* namespace ids
    Repos,      \* the owner's repositories
    Nobody,     \* no namespace
    Plans       \* how often each move may happen in a behaviour

\* What the VTC, the admins, the world and the clock do.
Moves == {"bind", "work", "report", "refusal", "loss", "regain", "retention", "crash"}

ASSUME NameAssumption == Nobody \notin Names
ASSUME PlanAssumption == Plans \subseteq [Moves -> Nat]

VARIABLES
    vtc,        \* whether the VTC has each namespace
    asked,      \* its job documents under way to the bridge
    docs,       \* event documents under way to it: the entry they carry,
                \*   whether the outbox still holds that entry with their id,
                \*   whether no job brought its namespace back since
    answers,    \* and its answers, to documents the outbox still holds
    told,       \* the ids it was told are superseded
    space,      \* Namespaces: state, retention past, managed repositories
    repoOf,     \* Repos: the namespace in each repository's record
    successor,  \* Meta: for an id a re-binding retired, the id that supersedes it
    flows,      \* Pending: ids with a bind link open
    outbox,     \* Outbox: events not acknowledged
    loop,       \* the document loop
    binder,     \* the callback that completes each id's bind
    work,       \* each namespace's job
    lock,       \* and lock
    sweep,      \* the retention sweep
    reporter,   \* the namespace whose role map was read and is being queued
    sending,    \* the entries checked and waiting for the state to be flushed
    hasty,      \* two binds were completed over each other
    late,       \* ids retired while a link of theirs could still complete
    overtaken,  \* ids whose record a bind rewrote while a job was at work on it
    plan, count

world == <<vtc, asked, docs, answers, told>>
store == <<space, repoOf, successor, flows, outbox>>
tasks == <<loop, binder, work, lock, sweep, reporter, sending>>
history == <<hasty, late, overtaken>>
vars == <<vtc, asked, docs, answers, told, space, repoOf, successor, flows, outbox,
          loop, binder, work, lock, sweep, reporter, sending, hasty, late, overtaken,
          plan, count>>

States == {"none", "pending", "bound", "orphaned"}
Spaces == [state : States, due : BOOLEAN, managed : SUBSET Repos]
Entries == [ns : Names, what : {"bindCompleted", "roleMap"}, names : SUBSET Names]
Documents == [entry : Entries, held : BOOLEAN, fresh : BOOLEAN]
Answers == [entry : Entries, code : {"ok", "unknownNamespace", "refused"},
            fresh : BOOLEAN]
Loops == [at : {"idle", "bind", "work", "serve", "drop"}, ns : Names \cup {Nobody},
          revived : BOOLEAN]
Binders == [at : {"resting", "proving", "moving", "taking", "telling"},
            managed : SUBSET Repos, left : SUBSET Names,
            old : Names \cup {Nobody}, done : SUBSET Names]
Works == [at : {"none", "queued", "acting", "noting", "dead"}, repos : SUBSET Repos]
Sweeps == [at : {"idle", "next", "deleting"}, ns : Names \cup {Nobody},
           left : SUBSET Names]

RoleMap(n) == [ns |-> n, what |-> "roleMap", names |-> {}]

NoSpace == [state |-> "none", due |-> FALSE, managed |-> {}]
Resting == [at |-> "resting", managed |-> {}, left |-> {}, old |-> Nobody, done |-> {}]
NoWork == [at |-> "none", repos |-> {}]
Idle == [at |-> "idle", ns |-> Nobody, revived |-> FALSE]
Swept == [at |-> "idle", ns |-> Nobody, left |-> {}]

Bound(n) == space[n].state = "bound"
Orphaned(n) == space[n].state = "orphaned"
Retired(n) == successor[n] # Nobody
Serving == {n \in Names : Bound(n) \/ Orphaned(n)}

Init ==
    /\ vtc = [n \in Names |-> "never"]
    /\ asked = {} /\ docs = {} /\ answers = {} /\ told = {}
    /\ space = [n \in Names |-> NoSpace]
    /\ repoOf = [r \in Repos |-> Nobody]
    /\ successor = [n \in Names |-> Nobody]
    /\ flows = {} /\ outbox = {}
    /\ loop = Idle
    /\ binder = [n \in Names |-> Resting]
    /\ work = [n \in Names |-> NoWork]
    /\ lock = [n \in Names |-> "free"]
    /\ sweep = Swept
    /\ reporter = Nobody
    /\ sending = {}
    /\ hasty = FALSE /\ late = {} /\ overtaken = {}
    /\ plan \in Plans
    /\ count = [m \in Moves |-> 0]

Happens(m) ==
    /\ count[m] < plan[m]
    /\ count' = [count EXCEPT ![m] = @ + 1]
    /\ UNCHANGED plan

Never(ms) == \A m \in ms : count[m] = 0
Calm == UNCHANGED <<plan, count>>

----------------------------------------------------------------------------
(* The outbox.                                                             *)

\* Entries leave the outbox, or are put anew: what was sent of them is no
\* longer held, and an answer to it threads to nothing.  A document that is
\* not held matters for the ids it names, and is left out if it names none.
Matter(ds) == {d \in ds : d.held \/ d.entry.names # {}}

Unhold(gone) ==
    /\ docs' = Matter({IF d.entry \in gone THEN [d EXCEPT !.held = FALSE] ELSE d :
                        d \in docs})
    /\ answers' = {a \in answers : a.entry \notin gone}

Drop(gone) == outbox' = outbox \ gone /\ Unhold(gone)

\* drop_events.  (Mistake: only its role map.)
RoleMapsOf(n) == outbox \cap {RoleMap(n)}
EventsOf(n) == {e \in outbox : e.ns = n}

\* Store::put, under the entry's key
Queue(entries) == outbox' = outbox \cup entries /\ Unhold(entries)

\* started_serving, report_role_map: only a bound namespace has a role map.
Serves(n) == IF Bound(n) THEN {RoleMap(n)} ELSE {}

\* link_up, report_role_maps: a bound namespace's record is read, and then its
\* role map queued, whatever became of it between.
ReadRoleMap(n) ==
    /\ reporter = Nobody /\ Bound(n)
    /\ Happens("report")
    /\ reporter' = n
    /\ UNCHANGED <<world, store, loop, binder, work, lock, sweep, sending, history>>

QueueRoleMap ==
    /\ reporter # Nobody
    /\ Queue({RoleMap(reporter)})
    /\ reporter' = Nobody
    /\ UNCHANGED <<vtc, asked, told, space, repoOf, successor, flows, loop, binder, work,
                   lock, sweep, sending, history>>
    /\ Calm

\* send_outbox, to the flush: a role map there is no longer a reason for, and
\* any event of an orphaned namespace, is dropped.
Unsendable(e) == Orphaned(e.ns) \/ (e.what = "roleMap" /\ ~Bound(e.ns))

PickEntry(e) ==
    /\ e \in outbox /\ sending = {}
    /\ IF Unsendable(e)
       THEN Drop({e}) /\ UNCHANGED sending
       ELSE sending' = {e} /\ UNCHANGED <<outbox, docs, answers>>
    /\ UNCHANGED <<vtc, asked, told, space, repoOf, successor, flows, loop, binder, work,
                   lock, sweep, reporter, history>>
    /\ Calm

\* send_outbox, once flushed: the document's id goes on the entry, if the
\* entry is still there; the document goes out all the same.
SendEntry(e) ==
    /\ e \in sending
    /\ sending' = sending \ {e}
    /\ docs' = docs \cup Matter({[entry |-> e, held |-> e \in outbox, fresh |-> TRUE]})
    /\ UNCHANGED <<vtc, asked, answers, told, store, loop, binder, work, lock, sweep,
                   reporter, history>>
    /\ Calm

----------------------------------------------------------------------------
(* The VTC.                                                                *)

\* It has a namespace from the moment it asks for its bind.
VtcBinds(n) ==
    /\ vtc[n] \in {"never", "has"}
    /\ Happens("bind")
    /\ vtc' = [vtc EXCEPT ![n] = "has"]
    /\ asked' = asked \cup {[kind |-> "bind", ns |-> n]}
    /\ UNCHANGED <<docs, answers, told, store, tasks, history>>

VtcWorks(n) ==
    /\ vtc[n] = "has"
    /\ Happens("work")
    /\ asked' = asked \cup {[kind |-> "work", ns |-> n]}
    /\ UNCHANGED <<vtc, docs, answers, told, store, tasks, history>>

\* Its records are restored from a copy older than the bind; or from a newer one.
VtcLoses(n) ==
    /\ vtc[n] = "has"
    /\ Happens("loss")
    /\ vtc' = [vtc EXCEPT ![n] = "lacks"]
    /\ UNCHANGED <<asked, docs, answers, told, store, tasks, history>>

VtcRegains(n) ==
    /\ vtc[n] = "lacks"
    /\ Happens("regain")
    /\ vtc' = [vtc EXCEPT ![n] = "has"]
    /\ UNCHANGED <<asked, docs, answers, told, store, tasks, history>>

\* It acknowledges an event, answers that it does not have the namespace, or
\* refuses it for another reason.  An answer to a document the outbox no
\* longer holds is ignored by the bridge, and left out.
Reply(d, code) ==
    IF d.held THEN answers \cup {[entry |-> d.entry, code |-> code, fresh |-> d.fresh]}
              ELSE answers

VtcHears(d) ==
    /\ d \in docs
    /\ docs' = docs \ {d}
    /\ LET has == vtc[d.entry.ns] = "has"
       IN  \/ /\ answers' = Reply(d, IF has THEN "ok" ELSE "unknownNamespace")
              /\ told' = IF has THEN told \cup d.entry.names ELSE told
              /\ Calm
           \/ /\ has
              /\ answers' = Reply(d, "refused")
              /\ Happens("refusal")
              /\ UNCHANGED told
    /\ UNCHANGED <<vtc, asked, store, tasks, history>>

----------------------------------------------------------------------------
(* The document loop: one document at a time.                             *)

\* A job brings namespace n back: what was sent for it before is stale.
Stale(msgs, n) == {IF m.entry.ns = n THEN [m EXCEPT !.fresh = FALSE] ELSE m : m \in msgs}

\* on_job, unorphan: a job that names an orphaned namespace binds it again.
TakeJob(j) ==
    /\ loop.at = "idle" /\ j \in asked
    /\ j.kind = "work" => work[j.ns].at = "none"
    /\ asked' = asked \ {j}
    /\ loop' = [at |-> j.kind, ns |-> j.ns, revived |-> Orphaned(j.ns)]
    /\ IF Orphaned(j.ns)
       THEN /\ space' = [space EXCEPT ![j.ns].state = "bound", ![j.ns].due = FALSE]
            /\ docs' = Stale(docs, j.ns)
            /\ answers' = Stale(answers, j.ns)
       ELSE UNCHANGED <<space, docs, answers>>
    /\ UNCHANGED <<vtc, told, repoOf, successor, flows, outbox, binder, work, lock, sweep,
                   reporter, sending, history>>
    /\ Calm

Answer == loop' = IF loop.revived THEN [loop EXCEPT !.at = "serve"] ELSE Idle

\* admit, and flows::begin: never for a retired id.
MayBind(n) == ~Retired(n)

BeginBind ==
    /\ loop.at = "bind"
    /\ IF MayBind(loop.ns)
       THEN /\ flows' = flows \cup {loop.ns}
            /\ space' = IF space[loop.ns].state = "none"
                        THEN [space EXCEPT ![loop.ns].state = "pending"] ELSE space
       ELSE UNCHANGED <<flows, space>>
    /\ Answer
    /\ UNCHANGED <<world, repoOf, successor, outbox, binder, work, lock, sweep, reporter,
                   sending, history>>
    /\ Calm

\* admit: only a bound namespace; then the job is spawned.
AdmitWork ==
    /\ loop.at = "work"
    /\ \E r \in Repos :
        work' = IF Bound(loop.ns)
                THEN [work EXCEPT ![loop.ns] = [at |-> "queued", repos |-> {r}]]
                ELSE work
    /\ Answer
    /\ UNCHANGED <<world, store, binder, lock, sweep, reporter, sending, history>>
    /\ Calm

\* started_serving, once the job that brought the namespace back is answered
ServeAgain ==
    /\ loop.at = "serve"
    /\ Queue(Serves(loop.ns))
    /\ loop' = Idle
    /\ UNCHANGED <<vtc, asked, told, space, repoOf, successor, flows, binder, work, lock,
                   sweep, reporter, sending, history>>
    /\ Calm

\* on_event_ack, on_error_response
TakeAnswer(a) ==
    /\ loop.at = "idle" /\ a \in answers
    /\ IF a.code = "unknownNamespace"
       THEN /\ Drop({a.entry})
            /\ IF Bound(a.entry.ns)
               THEN /\ space' = [space EXCEPT ![a.entry.ns].state = "orphaned",
                                              ![a.entry.ns].due = FALSE]
                    /\ loop' = [Idle EXCEPT !.at = "drop", !.ns = a.entry.ns]
               ELSE UNCHANGED <<space, loop>>
       ELSE /\ IF a.code = "ok" THEN Drop({a.entry})
               ELSE answers' = answers \ {a} /\ UNCHANGED <<outbox, docs>>
            /\ UNCHANGED <<space, loop>>
    /\ UNCHANGED <<vtc, asked, told, repoOf, successor, flows, binder, work, lock, sweep,
                   reporter, sending, history>>
    /\ Calm

\* orphan: the events still waiting
DropWaiting ==
    /\ loop.at = "drop"
    /\ Drop(EventsOf(loop.ns))
    /\ loop' = Idle
    /\ UNCHANGED <<vtc, asked, told, space, repoOf, successor, flows, binder, work, lock,
                   sweep, reporter, sending, history>>
    /\ Calm

----------------------------------------------------------------------------
(* Completing a bind.                                                      *)

\* bind_callback: the link is taken, the proof awaited; or the link expires.
Callback(n) ==
    /\ n \in flows /\ binder[n].at = "resting"
    /\ flows' = flows \ {n}
    /\ binder' = [binder EXCEPT ![n] = [Resting EXCEPT !.at = "proving"]]
    /\ UNCHANGED <<world, space, repoOf, successor, outbox, loop, work, lock, sweep,
                   reporter, sending, history>>
    /\ Calm

Expire(n) ==
    /\ n \in flows
    /\ flows' = flows \ {n}
    /\ UNCHANGED <<world, space, repoOf, successor, outbox, tasks, history>>
    /\ Calm

ProofFails(n) ==
    /\ binder[n].at = "proving"
    /\ binder' = [binder EXCEPT ![n] = Resting]
    /\ UNCHANGED <<world, store, loop, work, lock, sweep, reporter, sending, history>>
    /\ Calm

\* supersede: the owner's other ids, with the state they are to hand over, as
\* the list reads them.  (Mistake: an orphaned namespace is not taken over.)
EarlierBound(n) == {o \in Names : Bound(o) /\ o # n}
Earlier(n) == {o \in Serving : o # n}

AtWork(n) == work[n].at \in {"acting", "noting"}

\* What the owner's ids hold together.  (Mistake: n's own set alone.)
PooledOwn(n) == space[n].managed
Pooled(n) == UNION {space[o].managed : o \in Earlier(n) \cup {n}}

Proven(n) ==
    /\ binder[n].at = "proving"
    /\ binder' = [binder EXCEPT ![n] =
                    [Resting EXCEPT !.at = "moving", !.left = Earlier(n),
                                 !.managed = Pooled(n)]]
    /\ hasty' = (hasty \/ \E m \in Names \ {n} : binder[m].at \in {"moving", "taking"})
    /\ overtaken' = overtaken \cup {o \in Earlier(n) \cup {n} : AtWork(o)}
    /\ UNCHANGED <<world, store, loop, work, lock, sweep, reporter, sending, late>>
    /\ Calm

\* One of them is retired; its repositories' records are moved;
Retire(n, o) ==
    /\ binder[n].at = "moving" /\ o \in binder[n].left
    /\ successor' = [successor EXCEPT ![o] = n]
    /\ repoOf' = [r \in Repos |-> IF repoOf[r] = o THEN n ELSE repoOf[r]]
    /\ binder' = [binder EXCEPT ![n].at = "taking", ![n].old = o]
    /\ UNCHANGED <<world, space, flows, outbox, loop, work, lock, sweep, reporter,
                   sending, history>>
    /\ Calm

\* its events and its record are deleted.
TakeOver(n) ==
    /\ binder[n].at = "taking"
    /\ LET o == binder[n].old
       IN  /\ Drop(EventsOf(o))
           /\ space' = [space EXCEPT ![o] = NoSpace]
           /\ binder' = [binder EXCEPT ![n].at = "moving", ![n].left = @ \ {o},
                                       ![n].old = Nobody, ![n].done = @ \cup {o}]
           /\ late' = IF \/ o \in flows \/ binder[o].at # "resting"
                         \/ loop.at = "bind" /\ loop.ns = o
                      THEN late \cup {o} ELSE late
    /\ UNCHANGED <<vtc, asked, told, repoOf, successor, flows, loop, work, lock, sweep,
                   reporter, sending, hasty, overtaken>>
    /\ Calm

\* bind_callback: the new namespace is stored bound.
PutBound(n) ==
    /\ binder[n].at = "moving" /\ binder[n].left = {}
    /\ space' = [space EXCEPT ![n] = [state |-> "bound", due |-> FALSE,
                                      managed |-> binder[n].managed]]
    /\ binder' = [binder EXCEPT ![n].at = "telling", ![n].managed = {}]
    /\ UNCHANGED <<world, repoOf, successor, flows, outbox, loop, work, lock, sweep,
                   reporter, sending, history>>
    /\ Calm

\* and then reported, with the ids it supersedes, unless it is orphaned by now.
\* (Mistake: the one being taken over is named, when none is.)
CompletedOld(n) == [ns |-> n, what |-> "bindCompleted", names |-> {binder[n].old}]
Completed(n) == [ns |-> n, what |-> "bindCompleted", names |-> binder[n].done]

Tell(n) ==
    /\ binder[n].at = "telling"
    /\ Queue((IF Orphaned(n) THEN {} ELSE {Completed(n)}) \cup Serves(n))
    /\ binder' = [binder EXCEPT ![n] = Resting]
    /\ UNCHANGED <<vtc, asked, told, space, repoOf, successor, flows, loop, work, lock,
                   sweep, reporter, sending, history>>
    /\ Calm

----------------------------------------------------------------------------
(* Jobs and the retention sweep: one at a time for each namespace.        *)

\* m's bind has read n's record, and is to write what it read.
Holds(m, n) ==
    binder[m].at \in {"moving", "taking"} /\ n \in binder[m].left \cup {m, binder[m].old}

\* run_job, Ctx::load: under the lock, if the namespace is bound then.
StartWork(n) ==
    /\ work[n].at = "queued" /\ lock[n] = "free"
    /\ IF Bound(n)
       THEN /\ work' = [work EXCEPT ![n].at = "acting"]
            /\ lock' = [lock EXCEPT ![n] = "job"]
            /\ overtaken' = IF \E m \in Names : Holds(m, n)
                            THEN overtaken \cup {n} ELSE overtaken
       ELSE work' = [work EXCEPT ![n] = NoWork] /\ UNCHANGED <<lock, overtaken>>
    /\ UNCHANGED <<world, store, loop, binder, sweep, reporter, sending, hasty, late>>
    /\ Calm

\* manage: the repository's record, kept by the namespace that had it;
Record(n) ==
    /\ work[n].at = "acting"
    /\ repoOf' = [r \in Repos |-> IF r \in work[n].repos /\ repoOf[r] = Nobody
                                  THEN n ELSE repoOf[r]]
    /\ work' = [work EXCEPT ![n].at = "noting"]
    /\ UNCHANGED <<world, space, successor, flows, outbox, loop, binder, lock, sweep,
                   reporter, sending, history>>
    /\ Calm

\* then the namespace's managed set; a job whose namespace is gone dies there.
Manage(n) ==
    /\ work[n].at = "noting"
    /\ lock' = [lock EXCEPT ![n] = "free"]
    /\ IF space[n].state = "none"
       THEN work' = [work EXCEPT ![n].at = "dead"] /\ UNCHANGED space
       ELSE /\ work' = [work EXCEPT ![n] = NoWork]
            /\ space' = [space EXCEPT ![n].managed = @ \cup work[n].repos]
    /\ UNCHANGED <<world, repoOf, successor, flows, outbox, loop, binder, sweep, reporter,
                   sending, history>>
    /\ Calm

\* Time: n was orphaned for orphan_retention_days.
RetentionPasses(n) ==
    /\ Orphaned(n) /\ ~space[n].due
    /\ Happens("retention")
    /\ space' = [space EXCEPT ![n].due = TRUE]
    /\ UNCHANGED <<world, repoOf, successor, flows, outbox, tasks, history>>

Overdue == {n \in Names : Orphaned(n) /\ space[n].due}

\* sweep_orphaned: the list is read once,
StartSweep ==
    /\ sweep.at = "idle" /\ Overdue # {}
    /\ sweep' = [at |-> "next", ns |-> Nobody, left |-> Overdue]
    /\ UNCHANGED <<world, store, loop, binder, work, lock, reporter, sending, history>>
    /\ Calm

NextSwept(n) ==
    IF sweep.left = {n} THEN Swept
    ELSE [at |-> "next", ns |-> Nobody, left |-> sweep.left \ {n}]

\* each of it taken under its lock, and looked at again; whether its retention
\* has passed is not.
Unlocked(n) == lock[n] = "free"

CheckForgotten(n) ==
    /\ sweep.at = "next" /\ n \in sweep.left /\ Unlocked(n)
    /\ IF Orphaned(n)
       THEN /\ sweep' = [sweep EXCEPT !.at = "deleting", !.ns = n]
            /\ lock' = [lock EXCEPT ![n] = "sweep"]
       ELSE sweep' = NextSwept(n) /\ UNCHANGED lock
    /\ UNCHANGED <<world, store, loop, binder, work, reporter, sending, history>>
    /\ Calm

\* forget: its repositories' records, its events, its record.
Forget ==
    /\ sweep.at = "deleting"
    /\ LET n == sweep.ns
       IN  /\ repoOf' = [r \in Repos |-> IF repoOf[r] = n THEN Nobody ELSE repoOf[r]]
           /\ Drop(EventsOf(n))
           /\ space' = [space EXCEPT ![n] = NoSpace]
           /\ lock' = [lock EXCEPT ![n] = "free"]
           /\ sweep' = NextSwept(n)
    /\ UNCHANGED <<vtc, asked, told, successor, flows, loop, binder, work, reporter,
                   sending, history>>
    /\ Calm

\* The process dies and starts again: restore resumes the open jobs and reports
\* every bound namespace's role map; a job not yet recorded is asked again.
Crash ==
    /\ Happens("crash")
    /\ loop' = Idle
    /\ asked' = IF loop.at \in {"bind", "work"}
                THEN asked \cup {[kind |-> loop.at, ns |-> loop.ns]} ELSE asked
    /\ binder' = [n \in Names |-> Resting]
    /\ work' = [n \in Names |-> IF work[n] = NoWork THEN NoWork
                                ELSE [work[n] EXCEPT !.at = "queued"]]
    /\ lock' = [n \in Names |-> "free"]
    /\ sweep' = Swept
    /\ reporter' = Nobody
    /\ sending' = {}
    /\ Queue(UNION {Serves(n) : n \in Names})
    /\ UNCHANGED <<vtc, told, space, repoOf, successor, flows, history>>

----------------------------------------------------------------------------

Vtc(n) == VtcBinds(n) \/ VtcWorks(n) \/ VtcLoses(n) \/ VtcRegains(n)

Bind(n) ==
    \/ Proven(n) \/ TakeOver(n) \/ PutBound(n) \/ Tell(n)
    \/ \E o \in Names : Retire(n, o)

Work(n) == StartWork(n) \/ Record(n) \/ Manage(n)

Loop == BeginBind \/ AdmitWork \/ ServeAgain \/ DropWaiting
Receiving == (\E j \in asked : TakeJob(j)) \/ (\E a \in answers : TakeAnswer(a)) \/ Loop

Sending == (\E e \in outbox : PickEntry(e)) \/ (\E e \in sending : SendEntry(e))

Sweeping == StartSweep \/ (\E n \in Names : CheckForgotten(n)) \/ Forget

Next ==
    \/ \E n \in Names :
        \/ Vtc(n) \/ Callback(n) \/ Expire(n) \/ ProofFails(n) \/ Bind(n) \/ Work(n)
        \/ ReadRoleMap(n) \/ RetentionPasses(n)
    \/ \E d \in docs : VtcHears(d)
    \/ Receiving \/ Sending \/ Sweeping \/ QueueRoleMap \/ Crash

Spec == Init /\ [][Next]_vars

----------------------------------------------------------------------------
(* Properties.                                                             *)

WorldOK ==
    /\ vtc \in [Names -> {"never", "has", "lacks"}]
    /\ asked \subseteq [kind : {"bind", "work"}, ns : Names]
    /\ docs \subseteq Documents /\ answers \subseteq Answers
    /\ told \subseteq Names

StoreOK ==
    /\ space \in [Names -> Spaces]
    /\ repoOf \in [Repos -> Names \cup {Nobody}]
    /\ successor \in [Names -> Names \cup {Nobody}]
    /\ flows \subseteq Names
    /\ outbox \subseteq Entries

TasksOK ==
    /\ loop \in Loops /\ (loop.at # "idle" => loop.ns \in Names)
    /\ binder \in [Names -> Binders]
    /\ \A n \in Names : binder[n].at = "taking" => binder[n].old \in Names
    /\ work \in [Names -> Works]
    /\ lock \in [Names -> {"free", "job", "sweep"}]
    /\ sweep \in Sweeps /\ (sweep.at = "deleting" => sweep.ns \in Names)
    /\ reporter \in Names \cup {Nobody}
    /\ sending \subseteq Entries

HistoryOK ==
    /\ hasty \in BOOLEAN /\ late \subseteq Names /\ overtaken \subseteq Names
    /\ plan \in [Moves -> Nat] /\ count \in [Moves -> Nat]

TypeOK == WorldOK /\ StoreOK /\ TasksOK /\ HistoryOK

\* Nothing was cut off, or done over something else.
Smooth == Never({"crash"}) /\ ~hasty /\ overtaken = {}

\* One record serves one owner: a re-binding takes over every other that does,
\* orphaned ones too.  (Unless two binds of the owner complete at once.)
OneRecordPerOwner == ~hasty => Cardinality(Serving) <= 1

\* A repository's record and the managed set go together, through every
\* re-binding: the namespace that has the one has the other, or will when the
\* bind or the job that is at it stores it.
HandedOver ==
    Smooth => \A r \in Repos :
        LET n == repoOf[r]
        IN  n # Nobody => \/ r \in space[n].managed \cup binder[n].managed
                          \/ work[n].at = "noting" /\ r \in work[n].repos

\* A retired id is not served again, whatever links, jobs, answers and sweeps
\* are under way.  (Unless a link of it was open when it was retired, or a
\* crash left its record behind.)
RetiredStaysRetired ==
    Never({"crash"}) =>
        \A n \in Names \ late :
            Retired(n) => \/ space[n].state = "none"
                          \/ \E m \in Names : binder[m].old = n

\* The retention sweep never takes a namespace away under a job: only a
\* re-binding does, which takes no lock.
DeadOnlyIfOvertaken == \A n \in Names : work[n].at = "dead" => n \in overtaken

\* A namespace is orphaned only on the VTC's word that it does not have it, in
\* answer to an event sent since the VTC last brought it back.  (Unless a crash
\* cut the orphaning off before it dropped what was waiting.)
OrphanedOnFreshWord ==
    [][\A n \in Names : Bound(n) /\ Orphaned(n)' /\ Never({"crash"}) =>
        \E a \in answers \ answers' :
            a.entry.ns = n /\ a.code = "unknownNamespace" /\ a.fresh]_vars

\* The VTC knows which ids a re-binding superseded, or the event that names them
\* is on its way, through refusals, repeats and answers to other events.  (Unless
\* a crash cuts it off, the VTC loses a namespace, or the new id is superseded in
\* turn.)
RetiredIsReported ==
    Never({"crash", "loss"}) =>
        \A n \in Names : Retired(n) =>
            \/ n \in told \/ Retired(successor[n])
            \/ \E m \in Names : n \in binder[m].done \cup {binder[m].old}
            \/ \E e \in outbox : n \in e.names

\* A re-binding is whole: complete_bind takes the repositories, the id and the
\* record of the namespace before it together, whatever runs beside it, and the
\* VTC comes to know.
ReboundWhole ==
    HandedOver /\ RetiredStaysRetired /\ RetiredIsReported /\ DeadOnlyIfOvertaken

\* What the documentation says of a retired id: ids are never reused.  (Here
\* where no two binds of the owner are completed over each other.)
IdsAreNotReused ==
    ~hasty => \A n \in Names : Retired(n) /\ Bound(n) => \E m \in Names : binder[m].old = n

\* What it says of removal: an orphaned namespace, past its retention.
RemovedOnlyOverdue ==
    [][\A n \in Names :
        sweep.at = "deleting" /\ sweep.ns = n /\ sweep' # sweep =>
            (Orphaned(n) /\ space[n].due) \/ count' # count]_vars
=============================================================================
