------------------------------- MODULE Mirror -------------------------------
(***************************************************************************)
(* The mirror of VTA mode: the bridge's records live in the VTA's          *)
(* app-state, the local store is a cache, and a background task carries    *)
(* local changes over with writes conditional on the version last seen.    *)
(* A result or event is sent to the VTC only when nothing waits to be      *)
(* mirrored.                                                               *)
(*                                                                         *)
(* A value is a number, made once; past[v] holds the values v was made     *)
(* from, itself among them, so that "v is still there" means that v is in  *)
(* the past of what is there now.  A deletion is a value too (in `gone`).  *)
(*                                                                         *)
(* The writer's lease is a lock here: that it excludes, and what it does   *)
(* for secrets, is StateLease's matter.  pull() runs before anything else  *)
(* and is repeated whole after a crash: one step.                          *)
(***************************************************************************)
EXTENDS Naturals

CONSTANTS
    Hosts,          \* the hosts that ever run on the context
    Keys,           \* records of the mirrored tables
    Big,            \* the keys whose value the VTA is too small for
    NoHost,
    MaxValues,      \* bound: local changes
    Plans           \* what may happen in a behaviour: by which hosts, to which
                    \*   records, how many changes, how often each mishap

ASSUME HostAssumption == NoHost \notin Hosts
ASSUME BigAssumption == Big \subseteq Keys
ASSUME BoundAssumption == MaxValues \in Nat

\* A deletion, a clean stop, a process that dies with changes pending, a data
\* directory lost, a restore of the VTA from its backup, old deletions reaped,
\* a request that never arrives, an answer that never arrives.
Mishaps == {"deletion", "stop", "crash", "loss", "restore", "reaping", "failure",
            "lostAnswer"}

ASSUME PlanAssumption ==
    Plans \subseteq [hosts : SUBSET Hosts, keys : SUBSET Keys, changes : 0..MaxValues,
                    mishaps : [Mishaps -> Nat]]

Values == 1..MaxValues
NoValue == 0
NoRequest == [key |-> "none", version |-> 0, live |-> FALSE]

VARIABLES
    remote,     \* the VTA: the context's counter, records, reaped deletions
    backup,     \* an earlier copy of it
    lease,      \* who holds the writer's lease
    disk,       \* each host's data directory: cache, versions mirrored, outbox
    up,         \* the hosts whose bridge runs
    versions,   \* its memory: the version each live record was last seen at,
    dirty,      \*   the changes not yet taken by a pass,
    batch,      \*   the changes the pass under way still has in flight,
    request,    \*   the write applied and not yet answered,
    stopped,    \*   whether it saw another writer
    made,       \* how many values were made
    past,       \* what each value was made from
    gone,       \* the values that are deletions
    reported,   \* <<key, value>> pairs the VTC was told of
    knows,      \* those told from each host's data directory
    plan,       \* what may happen in this behaviour,
    count       \* and how often each mishap did

memory == <<versions, dirty, batch, request, stopped>>
history == <<made, past, gone>>
vars == <<remote, backup, lease, disk, up, versions, dirty, batch, request, stopped,
          made, past, gone, reported, knows, plan, count>>

Empty == [cache |-> [k \in Keys |-> NoValue], mirrored |-> [k \in Keys |-> 0],
          outbox |-> {}]
Fresh == [counter |-> 0, rec |-> [k \in Keys |-> [version |-> 0, value |-> NoValue]],
          reaped |-> {}]

Init ==
    /\ remote = Fresh /\ backup = Fresh
    /\ lease = NoHost
    /\ disk = [h \in Hosts |-> Empty]
    /\ up = {}
    /\ versions = [h \in Hosts |-> [k \in Keys |-> 0]]
    /\ dirty = [h \in Hosts |-> {}]
    /\ batch = [h \in Hosts |-> {}]
    /\ request = [h \in Hosts |-> NoRequest]
    /\ stopped = [h \in Hosts |-> FALSE]
    /\ made = 0
    /\ past = [v \in Values |-> {}]
    /\ gone = {}
    /\ reported = {}
    /\ knows = [h \in Hosts |-> {}]
    /\ plan \in Plans
    /\ count = [m \in Mishaps |-> 0]

Past(v) == IF v = NoValue THEN {} ELSE past[v]
Live(v) == v # NoValue /\ v \notin gone
Cache(h, k) == disk[h].cache[k]
Pending(h) == dirty[h] \cup batch[h]

\* The version a conditional request is compared with: a live record's.
LiveVersion(k) == IF Live(remote.rec[k].value) THEN remote.rec[k].version ELSE 0

\* The plan allows the mishap once more.
Happens(m) ==
    /\ count[m] < plan.mishaps[m]
    /\ count' = [count EXCEPT ![m] = @ + 1]
    /\ UNCHANGED plan

Never(ms) == \A m \in ms : count[m] = 0

----------------------------------------------------------------------------
(* The store: a local change, and the report of it.                       *)

\* Store::put, update or delete, in the cache and marked for the mirror; then,
\* by the same task, the result or event that reports it is queued.
Change(h, k, deletes) ==
    /\ h \in up /\ k \in plan.keys
    /\ made < plan.changes
    /\ IF deletes THEN Live(Cache(h, k)) /\ Happens("deletion")
                  ELSE UNCHANGED <<plan, count>>
    /\ LET v == made + 1
       IN  /\ made' = v
           /\ past' = [past EXCEPT ![v] = Past(Cache(h, k)) \cup {v}]
           /\ gone' = IF deletes THEN gone \cup {v} ELSE gone
           /\ disk' = [disk EXCEPT ![h].cache[k] = v, ![h].outbox = @ \cup {<<k, v>>}]
    /\ dirty' = [dirty EXCEPT ![h] = @ \cup {k}]
    /\ UNCHANGED <<remote, backup, lease, up, versions, batch, request, stopped,
                   reported, knows>>

\* (Mistake: reports do not wait for what a pass has in flight.)
FlushedDirty(h) == ~stopped[h] /\ dirty[h] = {}

\* Mirror::flush: everything is in the VTA, and nobody else writes there.
Flushed(h) == ~stopped[h] /\ Pending(h) = {}

\* send_outbox, and the VTC's acknowledgement.
SendReport(h, r) ==
    /\ h \in up
    /\ r \in disk[h].outbox
    /\ Flushed(h)
    /\ disk' = [disk EXCEPT ![h].outbox = @ \ {r}]
    /\ reported' = reported \cup {r}
    /\ knows' = [knows EXCEPT ![h] = @ \cup {r}]
    /\ UNCHANGED <<remote, backup, lease, up, memory, history, plan, count>>

----------------------------------------------------------------------------
(* A pass: Mirror::sync_pass, Mirror::write.                              *)

\* The lease is taken (a write of its own), then the batch.
StartPass(h) ==
    /\ h \in up
    /\ ~stopped[h]
    /\ batch[h] = {} /\ dirty[h] # {}
    /\ lease = NoHost
    /\ lease' = h
    /\ remote' = [remote EXCEPT !.counter = @ + 1]
    /\ batch' = [batch EXCEPT ![h] = dirty[h]]
    /\ dirty' = [dirty EXCEPT ![h] = {}]
    /\ UNCHANGED <<backup, disk, up, versions, request, stopped, history, reported,
                   knows, plan, count>>

\* (Mistake: a request given up is still waited for.)
PutBackWaiting(h) ==
    /\ dirty' = [dirty EXCEPT ![h] = Pending(h)]
    /\ batch' = [batch EXCEPT ![h] = {}]
    /\ lease' = IF lease = h THEN NoHost ELSE lease
    /\ UNCHANGED request

\* A pass that fails puts back what it had not written, and ends.
PutBack(h) ==
    /\ dirty' = [dirty EXCEPT ![h] = Pending(h)]
    /\ batch' = [batch EXCEPT ![h] = {}]
    /\ request' = [request EXCEPT ![h] = NoRequest]
    /\ lease' = IF lease = h THEN NoHost ELSE lease

\* One change is done with; the last one ends the pass.
Done(h, k) ==
    /\ batch' = [batch EXCEPT ![h] = @ \ {k}]
    /\ lease' = IF batch[h] = {k} /\ lease = h THEN NoHost ELSE lease

\* Whether the VTA takes the write: a put only over the version last seen (or
\* over no live record, if none was); a deletion only of that version, or of
\* any when none was seen.
Accepts(h, k) ==
    \/ versions[h][k] = LiveVersion(k)
    \/ ~Live(Cache(h, k)) /\ versions[h][k] = 0

\* A write the VTA applies: the value the cache holds now, or its deletion.
Write(h, k) ==
    /\ h \in up /\ k \in batch[h] /\ request[h] = NoRequest
    /\ Live(Cache(h, k)) => k \notin Big
    /\ Live(Cache(h, k)) \/ LiveVersion(k) # 0
    /\ Accepts(h, k)
    /\ LET n == remote.counter + 1
       IN  /\ remote' = [remote EXCEPT
                            !.counter = n,
                            !.rec[k] = [version |-> n, value |-> Cache(h, k)],
                            !.reaped = @ \ {k}]
           /\ request' = [request EXCEPT
                            ![h] = [key |-> k, version |-> n, live |-> Live(Cache(h, k))]]
    /\ UNCHANGED <<backup, lease, disk, up, versions, dirty, batch, stopped, history,
                   reported, knows, plan, count>>

\* Nothing to do at the VTA: a deletion of no live record, whose row is
\* dropped; or a value too large, which stays in the cache only.
Skip(h, k) ==
    /\ h \in up /\ k \in batch[h] /\ request[h] = NoRequest
    /\ \/ /\ ~Live(Cache(h, k)) /\ LiveVersion(k) = 0
          /\ versions' = [versions EXCEPT ![h][k] = 0]
          /\ disk' = [disk EXCEPT ![h].mirrored[k] = 0]
       \/ /\ Live(Cache(h, k)) /\ k \in Big
          /\ UNCHANGED <<versions, disk>>
    /\ Done(h, k)
    /\ UNCHANGED <<remote, backup, up, dirty, request, stopped, history, reported,
                   knows, plan, count>>

\* The version is not the one last seen: the mirror stops.
Conflict(h, k) ==
    /\ h \in up /\ k \in batch[h] /\ request[h] = NoRequest
    /\ Live(Cache(h, k)) => k \notin Big
    /\ Live(Cache(h, k)) \/ LiveVersion(k) # 0
    /\ ~Accepts(h, k)
    /\ stopped' = [stopped EXCEPT ![h] = TRUE]
    /\ PutBack(h)
    /\ UNCHANGED <<remote, backup, disk, up, versions, history, reported, knows, plan, count>>

\* (Mistake: the version is remembered on disk only.)
AnsweredDisk(h) ==
    /\ h \in up
    /\ request[h] # NoRequest
    /\ LET r == request[h]
       IN  /\ disk' = [disk EXCEPT ![h].mirrored[r.key] = IF r.live THEN r.version ELSE 0]
           /\ Done(h, r.key)
    /\ request' = [request EXCEPT ![h] = NoRequest]
    /\ UNCHANGED <<remote, backup, up, versions, dirty, stopped, history, reported,
                   knows, plan, count>>

\* The answer: the version is remembered, in memory and on disk.
Answered(h) ==
    /\ h \in up
    /\ request[h] # NoRequest
    /\ LET r == request[h]
           n == IF r.live THEN r.version ELSE 0
       IN  /\ versions' = [versions EXCEPT ![h][r.key] = n]
           /\ disk' = [disk EXCEPT ![h].mirrored[r.key] = n]
           /\ Done(h, r.key)
    /\ request' = [request EXCEPT ![h] = NoRequest]
    /\ UNCHANGED <<remote, backup, up, dirty, stopped, history, reported, knows, plan, count>>

\* The VTA is not reached, or its answer is lost: given up, and tried again.
RequestFails(h) ==
    /\ Happens("failure")
    /\ h \in up /\ batch[h] # {} /\ request[h] = NoRequest
    /\ PutBack(h)
    /\ UNCHANGED <<remote, backup, disk, up, versions, stopped, history, reported, knows>>

AnswerLost(h) ==
    /\ Happens("lostAnswer")
    /\ h \in up /\ request[h] # NoRequest
    /\ PutBack(h)
    /\ UNCHANGED <<remote, backup, disk, up, versions, stopped, history, reported, knows>>

\* The lease of a process that is no longer writing runs out.
LeaseExpires ==
    /\ lease # NoHost
    /\ batch[lease] = {}
    /\ lease' = NoHost
    /\ UNCHANGED <<remote, backup, disk, up, memory, history, reported, knows, plan, count>>

----------------------------------------------------------------------------
(* Starting: Mirror::pull.                                                *)

\* What the listing says of a key: nothing at all, if it never was there or
\* its deletion was reaped.
Listed(k) == remote.rec[k].value # NoValue /\ k \notin remote.reaped
Snapshot == remote.reaped # {}

\* The VTA went back in time: its counter is behind what this host mirrored, a
\* mirrored record is missing from a full listing, or is there at an older
\* version.
RolledBack(h) ==
    \E k \in Keys :
        LET m == disk[h].mirrored[k]
        IN  \/ m > remote.counter
            \/ m > 0 /\ ~Listed(k) /\ ~Snapshot
            \/ Listed(k) /\ remote.rec[k].version < m

\* What the cache holds of a key after the pull: the VTA's copy or deletion;
\* a mirrored record a snapshot lacks is dropped (deleted, as it must be).
Pulled(h, k) ==
    IF Listed(k) \/ disk[h].mirrored[k] > 0 THEN remote.rec[k].value ELSE Cache(h, k)

\* A cached record never mirrored, of which the VTA says nothing.
Unmirrored(h) ==
    {k \in Keys : ~Listed(k) /\ disk[h].mirrored[k] = 0 /\ Live(Cache(h, k))}

Start(h) ==
    /\ h \in plan.hosts \ up
    /\ ~RolledBack(h)
    /\ up' = up \cup {h}
    /\ disk' = [disk EXCEPT
                   ![h].cache = [k \in Keys |-> Pulled(h, k)],
                   ![h].mirrored = [k \in Keys |-> LiveVersion(k)]]
    /\ versions' = [versions EXCEPT ![h] = [k \in Keys |-> LiveVersion(k)]]
    /\ dirty' = [dirty EXCEPT ![h] = Unmirrored(h)]
    /\ UNCHANGED <<remote, backup, lease, batch, request, stopped, history, reported,
                   knows, plan, count>>

Forget(h) ==
    /\ up' = up \ {h}
    /\ versions' = [versions EXCEPT ![h] = [k \in Keys |-> 0]]
    /\ dirty' = [dirty EXCEPT ![h] = {}]
    /\ batch' = [batch EXCEPT ![h] = {}]
    /\ request' = [request EXCEPT ![h] = NoRequest]
    /\ stopped' = [stopped EXCEPT ![h] = FALSE]

\* The process ends; what it had in memory is gone.  A clean stop makes one
\* last pass first.
Stop(h) ==
    /\ h \in up
    /\ Happens(IF Pending(h) = {} THEN "stop" ELSE "crash")
    /\ Forget(h)
    /\ UNCHANGED <<remote, backup, lease, disk, history, reported, knows>>

\* The host is lost, and another takes its place with an empty directory.
LoseHost(h) ==
    /\ h \in plan.hosts
    /\ Happens("loss")
    /\ Forget(h)
    /\ disk' = [disk EXCEPT ![h] = Empty]
    /\ knows' = [knows EXCEPT ![h] = {}]
    /\ UNCHANGED <<remote, backup, lease, history, reported>>

----------------------------------------------------------------------------
(* The VTA's own operations.                                              *)

TakeBackup ==
    /\ count["restore"] < plan.mishaps["restore"]
    /\ backup # remote
    /\ backup' = remote
    /\ UNCHANGED <<remote, lease, disk, up, memory, history, reported, knows, plan, count>>

Rollback ==
    /\ Happens("restore")
    /\ remote' = backup
    /\ UNCHANGED <<backup, lease, disk, up, memory, history, reported, knows>>

\* Deletions past their retention are forgotten.
Reap ==
    /\ Happens("reaping")
    /\ remote' = [remote EXCEPT !.reaped = {k \in Keys : remote.rec[k].value \in gone}]
    /\ UNCHANGED <<backup, lease, disk, up, memory, history, reported, knows>>

----------------------------------------------------------------------------

Local(h) ==
    \/ \E k \in Keys, deletes \in BOOLEAN : Change(h, k, deletes)
    \/ \E r \in Keys \X Values : SendReport(h, r)

Pass(h) ==
    \/ StartPass(h)
    \/ \E k \in Keys : Write(h, k) \/ Skip(h, k) \/ Conflict(h, k)
    \/ Answered(h)

Next ==
    \/ \E h \in Hosts : \/ Local(h) \/ Pass(h)
                        \/ RequestFails(h) \/ AnswerLost(h)
                        \/ Start(h) \/ Stop(h) \/ LoseHost(h)
    \/ LeaseExpires
    \/ TakeBackup \/ Rollback \/ Reap

Spec == Init /\ [][Next]_vars

----------------------------------------------------------------------------
(* Properties.                                                            *)

Pairs == Keys \X Values
Remotes == [counter : Nat, rec : [Keys -> [version : Nat, value : 0..MaxValues]],
            reaped : SUBSET Keys]
Disks == [cache : [Keys -> 0..MaxValues], mirrored : [Keys -> Nat],
          outbox : SUBSET Pairs]

\* Type correctness of the VTA's copy, the data directories and the mirrors; a
\* write waited for is of the pass's batch, and a process that ended waits for
\* none.
TypeOK ==
    /\ remote \in Remotes /\ backup \in Remotes
    /\ lease \in Hosts \cup {NoHost}
    /\ disk \in [Hosts -> Disks]
    /\ up \subseteq plan.hosts
    /\ versions \in [Hosts -> [Keys -> Nat]]
    /\ dirty \in [Hosts -> SUBSET Keys]
    /\ batch \in [Hosts -> SUBSET Keys]
    /\ request \in [Hosts -> {NoRequest} \cup [key : Keys, version : Nat, live : BOOLEAN]]
    /\ \A h \in Hosts : request[h] # NoRequest => h \in up /\ request[h].key \in batch[h]
    /\ stopped \in [Hosts -> BOOLEAN]
    /\ made \in 0..MaxValues
    /\ past \in [Values -> SUBSET Values]
    /\ gone \subseteq Values
    /\ reported \subseteq Pairs
    /\ knows \in [Hosts -> SUBSET Pairs]
    /\ plan \in Plans /\ count \in [Mishaps -> Nat]

\* A change stands where `now` is: it is there or was built upon, or what was
\* built upon it was deleted and nothing from before that has come back.
Stands(v, now) ==
    \/ v \in Past(now)
    \/ \E d \in gone : v \in Past(d) /\ ~(Live(now) /\ now \in Past(d))

Alone == \A g, h \in plan.hosts : g = h

\* No reported change is ever undone in the VTA but by one made on top of it.
ReportsHeld ==
    \A r \in reported : r[1] \notin Big => Stands(r[2], remote.rec[r[1]].value)

\* What the VTC was told of is in the VTA: send_outbox flushes before it sends,
\* and conditional writes keep a host from undoing what it never saw.  Except
\* a record the VTA is too small for, a restore, a crash (ReportsAreTrue), and
\* deletions where another host writes: one of a record never seen in the VTA is
\* unconditional, and a create retried after one does not see it.
ReportedStands ==
    Never({"restore", "crash"}) /\ (Alone \/ Never({"deletion"})) => ReportsHeld

\* What send_outbox says of itself: what is reported is in the VTA before the
\* VTC hears of it.
ReportsAreTrue == Never({"restore"}) => ReportsHeld

\* A bridge never runs on a state that lacks a change it reported from the same
\* data directory, whatever the VTA was restored to (pull refuses a VTA gone
\* back in time).  Except a crash, and except when two of these meet: a second
\* host, a restore, a deletion.  The version of a deletion is not remembered,
\* and another host's writes hide that the counter went back.
NoAmnesia ==
    /\ Never({"crash"})
    /\ \/ Alone /\ (Never({"restore"}) \/ Never({"deletion"}))
       \/ Never({"restore", "deletion"})
    => \A h \in up : \A r \in knows[h] :
           r[1] \notin Big => Stands(r[2], Cache(h, r[1]))

\* What a bridge said is undone neither in the VTA nor in its own memory of it:
\* the flush before send_outbox, the versions kept, and pull's refusal.
NothingUndone == ReportedStands /\ NoAmnesia

\* The mirror stops only because another host wrote the context, or the VTA
\* was restored: alone on its context, it does not take itself for another, as
\* long as answers arrive.
StopsOnlyForOthers ==
    Alone /\ Never({"restore", "lostAnswer"}) => \A h \in plan.hosts : ~stopped[h]

\* What the operators' guide says: the bridge stops writing if another bridge,
\* or anyone holding the credential, writes the same context.
StopsForWriters == Alone /\ Never({"restore"}) => \A h \in plan.hosts : ~stopped[h]

\* Every queued report is sent in the end (always again, none is left), over requests that fail and
\* processes that end, unless the mirror stopped, the VTA was restored or the
\* directory was lost.
Delivered ==
    \A h \in Hosts : disk[h].outbox = {} \/ stopped[h] \/ ~Never({"restore"})
=============================================================================
