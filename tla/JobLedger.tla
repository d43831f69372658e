----------------------------- MODULE JobLedger -----------------------------
(***************************************************************************)
(* The bridge's job ledger: a `git-ns/bridge/job` from the VTC becomes one *)
(* durable record, is run by a task of its own (or, for a beginBind or     *)
(* beginAccountLink, waits for a person under a single-use pending flow)   *)
(* and ends in one `git-ns/bridge/result` that is sent until the VTC       *)
(* acknowledges it.                                                        *)
(*                                                                         *)
(* The tasks that touch a job are the inbound handler (documents are taken *)
(* one at a time), the job's own worker, the person's HTTP callback, the   *)
(* device poll and the background expiry loop.  Every action is one        *)
(* stretch of one task between two awaits or two database transactions;    *)
(* a crash may fall between any two of them.                               *)
(*                                                                         *)
(* The VTC and the mediator are modelled from how the bridge uses them:    *)
(* messages may be lost, delayed, reordered and repeated, and the VTC may  *)
(* lose a result it recorded and ask for it again.                         *)
(***************************************************************************)
EXTENDS Naturals, FiniteSets

CONSTANTS
    Jobs,           \* job ids
    Kind,           \* [Jobs -> Kinds]
    Namespace,      \* [Jobs -> namespace ids]: the lock a worker takes
    Contents,       \* payload digests; the VTC issues a job with TrueContent
    TrueContent,
    NoJob,
    VtaMode,        \* device codes are held in memory only
    MaxCrashes,     \* bounds: restarts of the bridge,
    MaxLosses,      \*   messages lost,
    MaxForgets,     \*   results the VTC loses,
    MaxStrays       \*   links followed late, or once the namespace or the
                    \*   adapter they need is gone

Kinds == {"work", "bind", "redirectLink", "deviceLink"}

ASSUME KindAssumption == Kind \in [Jobs -> Kinds]
ASSUME NoJobAssumption == NoJob \notin Jobs
ASSUME ContentAssumption == TrueContent \in Contents
ASSUME BoundsAssumption ==
    /\ MaxCrashes \in Nat /\ MaxLosses \in Nat /\ MaxForgets \in Nat
    /\ VtaMode \in BOOLEAN /\ MaxStrays \in Nat

Outcomes == {"ok", "failed", "expired", "notRunHere"}
NoOutcome == "none"
Results == Outcomes \cup {NoOutcome}

VARIABLES
    ledger,     \* durable: Table::Jobs
    flow,       \* durable: Table::Pending, the one flow of a begin* job
    outbox,     \* durable: the jobs with a `result:<id>` entry
    handler,    \* the inbound document being handled
    worker,     \* the job's own task
    callback,   \* the HTTP callback that took the job's flow
    poll,       \* the device poll
    expiring,   \* the job whose flow the expiry loop has just deleted
    linked,     \* the binds and links that took effect
    told,       \* the jobs answered `accepted: true`
    net,        \* messages under way
    vtc,        \* the result the VTC holds for each job
    counts      \* how often each bounded mishap has happened

durable == <<ledger, flow, outbox>>
tasks == <<handler, worker, callback, poll, expiring>>
vars == <<ledger, flow, outbox, handler, worker, callback, poll, expiring,
          linked, told, net, vtc, counts>>

NoRecord == [state |-> "none", result |-> NoOutcome, content |-> TrueContent,
             next |-> FALSE]
Idle == [at |-> "idle", job |-> NoJob]

Request(j, c) == [type |-> "job", job |-> j, content |-> c, result |-> NoOutcome]
Result(j, r) == [type |-> "result", job |-> j, content |-> TrueContent, result |-> r]
Ack(j) == [type |-> "ack", job |-> j, content |-> TrueContent, result |-> NoOutcome]

Messages == [type : {"job", "result", "ack"}, job : Jobs, content : Contents,
             result : Results]

Init ==
    /\ ledger = [j \in Jobs |-> NoRecord]
    /\ flow = [j \in Jobs |-> "none"]
    /\ outbox = {}
    /\ handler = Idle
    /\ worker = [j \in Jobs |-> "none"]
    /\ callback = [j \in Jobs |-> "none"]
    /\ poll = [j \in Jobs |-> "none"]
    /\ expiring = NoJob
    /\ linked = {}
    /\ told = {}
    /\ net = {}
    /\ vtc = [j \in Jobs |-> NoOutcome]
    /\ counts = [crashes |-> 0, losses |-> 0, forgets |-> 0, strays |-> 0]

----------------------------------------------------------------------------
(* The ledger's transactions.                                             *)

IsFlow(j) == Kind[j] # "work"
Known(j) == ledger[j].state # "none"
Finished(j) == ledger[j].state = "finished"

\* (Mistake: the result is recorded, and nothing sends it.)
CloseUnqueued(j, r) ==
    /\ ledger' = IF Known(j) /\ ~Finished(j)
                 THEN [ledger EXCEPT ![j].state = "finished", ![j].result = r]
                 ELSE ledger
    /\ UNCHANGED outbox

\* Store::finish_job: the result and its outbox entry in one transaction,
\* and nothing at all for a job unknown or already finished.
Close(j, r) ==
    IF Known(j) /\ ~Finished(j)
    THEN /\ ledger' = [ledger EXCEPT ![j].state = "finished", ![j].result = r]
         /\ outbox' = outbox \cup {j}
    ELSE UNCHANGED <<ledger, outbox>>

----------------------------------------------------------------------------
(* The inbound handler: Bridge::on_job.                                   *)

\* (Mistake: a repeat overwrites the record.)
RecordAgain(j) ==
    \E m \in net :
        /\ m.type = "job" /\ m.job = j
        /\ handler = Idle
        /\ net' = net \ {m}
        /\ ledger' = [ledger EXCEPT ![j] = [NoRecord EXCEPT !.state = "queued"]]
        /\ handler' = [at |-> "recorded", job |-> j]
        /\ UNCHANGED <<flow, outbox, worker, callback, poll, expiring, linked,
                       told, vtc, counts>>

\* The first sight of a job: recorded before anything is answered.
RecordJob(j) ==
    \E m \in net :
        /\ m.type = "job" /\ m.job = j
        /\ handler = Idle
        /\ ~Known(j)
        /\ net' = net \ {m}
        /\ ledger' = [ledger EXCEPT ![j] =
                        [state |-> "queued", result |-> NoOutcome,
                         content |-> m.content, next |-> FALSE]]
        /\ handler' = [at |-> "recorded", job |-> j]
        /\ UNCHANGED <<flow, outbox, worker, callback, poll, expiring, linked,
                       told, vtc, counts>>

\* A job the bridge refuses at request time leaves no record.
RefuseJob(j) ==
    \E m \in net :
        /\ m.type = "job" /\ m.job = j
        /\ handler = Idle
        /\ ~Known(j)
        /\ net' = net \ {m}
        /\ UNCHANGED <<durable, tasks, linked, told, vtc, counts>>

\* Answered, then run by a task of its own.
StartWork(j) ==
    /\ handler = [at |-> "recorded", job |-> j]
    /\ ~IsFlow(j)
    /\ told' = told \cup {j}
    /\ worker' = [worker EXCEPT ![j] = "spawned"]
    /\ handler' = Idle
    /\ UNCHANGED <<durable, callback, poll, expiring, linked, net, vtc, counts>>

\* flows::begin: the forge gave a link, and the flow is recorded under its
\* state; a device flow is polled from now on.
BeginFlow(j) ==
    /\ handler = [at |-> "recorded", job |-> j]
    /\ IsFlow(j)
    /\ flow' = [flow EXCEPT ![j] = "open"]
    /\ poll' = [poll EXCEPT ![j] = IF Kind[j] = "deviceLink" THEN "polling" ELSE @]
    /\ handler' = [at |-> "flowPut", job |-> j]
    /\ UNCHANGED <<ledger, outbox, worker, callback, expiring, linked, told,
                   net, vtc, counts>>

\* The forge gave no link: answered accepted, then failed.  A bind's link is
\* checked only after its flow was recorded, and the flow stays.
BeginFails(j) ==
    /\ \/ handler = [at |-> "recorded", job |-> j] /\ IsFlow(j)
       \/ handler = [at |-> "flowPut", job |-> j] /\ Kind[j] = "bind"
    /\ told' = told \cup {j}
    /\ Close(j, "failed")
    /\ handler' = Idle
    /\ UNCHANGED <<flow, worker, callback, poll, expiring, linked, net, vtc, counts>>

\* The record waits for the person; the link goes out with the answer, or
\* with the answer to a repeat.
AwaitPerson(j) ==
    /\ handler = [at |-> "flowPut", job |-> j]
    /\ ledger' = [ledger EXCEPT ![j].state = "waiting", ![j].next = TRUE]
    /\ told' = told \cup {j}
    /\ handler' = Idle
    /\ UNCHANGED <<flow, outbox, worker, callback, poll, expiring, linked, net,
                   vtc, counts>>

\* A job already held, with the same content, is answered from the ledger
\* and never run again; a finished one has its result queued for sending.
RepeatJob(j) ==
    \E m \in net :
        /\ m.type = "job" /\ m.job = j
        /\ handler = Idle
        /\ Known(j)
        /\ m.content = ledger[j].content
        /\ net' = net \ {m}
        /\ IF Finished(j) THEN outbox' = outbox \cup {j} /\ UNCHANGED told
                          ELSE told' = told \cup {j} /\ UNCHANGED outbox
        /\ UNCHANGED <<ledger, flow, tasks, linked, vtc, counts>>

\* (Mistake: the id's new content replaces the old.)
JobIdReplaces(j) ==
    \E m \in net :
        /\ m.type = "job" /\ m.job = j
        /\ handler = Idle
        /\ Known(j)
        /\ m.content # ledger[j].content
        /\ net' = net \ {m}
        /\ ledger' = [ledger EXCEPT ![j] = [NoRecord EXCEPT !.state = "queued",
                                                            !.content = m.content]]
        /\ UNCHANGED <<flow, outbox, tasks, linked, told, vtc, counts>>

\* The same id with other content: an error, and nothing changes.
JobIdReused(j) ==
    \E m \in net :
        /\ m.type = "job" /\ m.job = j
        /\ handler = Idle
        /\ Known(j)
        /\ m.content # ledger[j].content
        /\ net' = net \ {m}
        /\ UNCHANGED <<durable, tasks, linked, told, vtc, counts>>

----------------------------------------------------------------------------
(* The worker: Bridge::run_job.                                           *)

\* The namespace's lock is held by at most one worker.
LockFree(j) == \A k \in Jobs : Namespace[k] = Namespace[j] => worker[k] # "holding"

\* A job finished already is not run again.
ReadJob(j) ==
    /\ worker[j] = "spawned"
    /\ worker' = [worker EXCEPT ![j] = IF Finished(j) THEN "none" ELSE "awaiting"]
    /\ UNCHANGED <<durable, handler, callback, poll, expiring, linked, told,
                   net, vtc, counts>>

\* (Mistake: the record takes the task's word for its state.)
StartRunHolding(j) ==
    /\ worker[j] = "awaiting"
    /\ LockFree(j)
    /\ worker' = [worker EXCEPT ![j] = "holding"]
    /\ ledger' = [ledger EXCEPT ![j].state = "holding"]
    /\ UNCHANGED <<flow, outbox, handler, callback, poll, expiring, linked,
                   told, net, vtc, counts>>

\* Under the lock the job is marked running, without reading it again.
StartRun(j) ==
    /\ worker[j] = "awaiting"
    /\ LockFree(j)
    /\ worker' = [worker EXCEPT ![j] = "holding"]
    /\ ledger' = [ledger EXCEPT ![j].state = "running"]
    /\ UNCHANGED <<flow, outbox, handler, callback, poll, expiring, linked,
                   told, net, vtc, counts>>

\* jobs::run ended.  A begin* job has no runner.
EndRun(j, r) ==
    /\ worker[j] = "holding"
    /\ IF IsFlow(j) THEN r = "notRunHere" ELSE r \in {"ok", "failed"}
    /\ Close(j, r)
    /\ worker' = [worker EXCEPT ![j] = "none"]
    /\ UNCHANGED <<flow, handler, callback, poll, expiring, linked, told, net,
                   vtc, counts>>

----------------------------------------------------------------------------
(* The person: flows::bind_callback, flows::link_callback.                *)

\* A person can follow a link only once it went out, in the answer.
LinkGiven(j) == Kind[j] \in {"bind", "redirectLink"} /\ ledger[j].next

\* take(): the flow is deleted, found unexpired, and completed at the forge.
TakeFlow(j) ==
    /\ LinkGiven(j)
    /\ flow[j] = "open"
    /\ flow' = [flow EXCEPT ![j] = "none"]
    /\ callback' = [callback EXCEPT ![j] = "completing"]
    /\ UNCHANGED <<ledger, outbox, handler, worker, poll, expiring, linked,
                   told, net, vtc, counts>>

\* take() deletes an expired flow before it refuses it; a callback that
\* finds its namespace or adapter gone returns after the flow is deleted.
TakeFlowAndBail(j) ==
    /\ counts.strays < MaxStrays
    /\ LinkGiven(j)
    /\ flow[j] \in {"open", "lapsed"}
    /\ flow' = [flow EXCEPT ![j] = "none"]
    /\ counts' = [counts EXCEPT !.strays = @ + 1]
    /\ UNCHANGED <<ledger, outbox, tasks, linked, told, net, vtc>>

\* The binding is recorded and its event queued; or the account is.
CallbackBinds(j) ==
    /\ callback[j] = "completing"
    /\ callback' = [callback EXCEPT ![j] = "bound"]
    /\ linked' = linked \cup {j}
    /\ UNCHANGED <<durable, handler, worker, poll, expiring, told, net, vtc, counts>>

CallbackCloses(j) ==
    /\ callback[j] \in {"completing", "bound"}
    /\ Close(j, IF callback[j] = "bound" THEN "ok" ELSE "failed")
    /\ callback' = [callback EXCEPT ![j] = "none"]
    /\ UNCHANGED <<flow, handler, worker, poll, expiring, linked, told, net, vtc, counts>>

----------------------------------------------------------------------------
(* The device poll: flows::poll_device.                                   *)

\* (Mistake: the flow is left to the expiry loop.)
PollEndsFlowKept(j) ==
    /\ poll[j] = "polling"
    /\ handler # [at |-> "flowPut", job |-> j]
    /\ \E r \in {"linked", "denied", "timedOut"} :
        /\ r = "linked" => flow[j] = "open"
        /\ r = "timedOut" => flow[j] = "lapsed"
        /\ poll' = [poll EXCEPT ![j] = r]
        /\ linked' = IF r = "linked" THEN linked \cup {j} ELSE linked
    /\ UNCHANGED <<durable, handler, worker, callback, expiring, told, net, vtc, counts>>

\* complete_account_link sleeps an interval before its first request, so no
\* poll ends while the handler that started it is still at work.  The member
\* approved (only inside the window), or declined, or the window closed; the
\* flow is deleted whatever the outcome, before anything is reported.
PollEnds(j) ==
    /\ poll[j] = "polling"
    /\ handler # [at |-> "flowPut", job |-> j]
    /\ \E r \in {"linked", "denied", "timedOut"} :
        /\ r = "linked" => flow[j] = "open"
        /\ r = "timedOut" => flow[j] = "lapsed"
        /\ poll' = [poll EXCEPT ![j] = r]
        /\ linked' = IF r = "linked" THEN linked \cup {j} ELSE linked
    /\ flow' = [flow EXCEPT ![j] = "none"]
    /\ UNCHANGED <<ledger, outbox, handler, worker, callback, expiring, told,
                   net, vtc, counts>>

\* (Mistake: only a link is reported.)
PollClosesLinked(j) ==
    /\ poll[j] \in {"linked", "denied", "timedOut"}
    /\ IF poll[j] = "linked" THEN Close(j, "ok") ELSE UNCHANGED <<ledger, outbox>>
    /\ poll' = [poll EXCEPT ![j] = "none"]
    /\ UNCHANGED <<flow, handler, worker, callback, expiring, linked, told, net, vtc, counts>>

PollCloses(j) ==
    /\ poll[j] \in {"linked", "denied", "timedOut"}
    /\ Close(j, CASE poll[j] = "linked" -> "ok"
                  [] poll[j] = "denied" -> "failed"
                  [] OTHER -> "expired")
    /\ poll' = [poll EXCEPT ![j] = "none"]
    /\ UNCHANGED <<flow, handler, worker, callback, expiring, linked, told, net, vtc, counts>>

\* The namespace's record or adapter is gone: the poll ends, the flow stays.
PollDies(j) ==
    /\ poll[j] = "polling"
    /\ poll' = [poll EXCEPT ![j] = "none"]
    /\ UNCHANGED <<durable, handler, worker, callback, expiring, linked, told, net, vtc, counts>>

----------------------------------------------------------------------------
(* Time, and the expiry loop: flows::expire.                              *)

\* A flow passes its expiry: minutes after it was recorded, so never while
\* the handler that recorded it is between its two transactions.
Lapse(j) ==
    /\ flow[j] = "open"
    /\ handler # [at |-> "flowPut", job |-> j]
    /\ flow' = [flow EXCEPT ![j] = "lapsed"]
    /\ UNCHANGED <<ledger, outbox, tasks, linked, told, net, vtc, counts>>

\* A device flow has a grace minute, in which its poll ends by itself.
ExpireFlow(j) ==
    /\ expiring = NoJob
    /\ flow[j] = "lapsed"
    /\ poll[j] # "polling"
    /\ flow' = [flow EXCEPT ![j] = "none"]
    /\ expiring' = j
    /\ UNCHANGED <<ledger, outbox, handler, worker, callback, poll, linked,
                   told, net, vtc, counts>>

ExpireJob(j) ==
    /\ expiring = j
    /\ IF ledger[j].state = "waiting" THEN Close(j, "expired")
                                      ELSE UNCHANGED <<ledger, outbox>>
    /\ expiring' = NoJob
    /\ UNCHANGED <<flow, handler, worker, callback, poll, linked, told, net, vtc, counts>>

----------------------------------------------------------------------------
(* The outbox, and the ledger's upkeep.                                   *)

\* send_outbox: on finishing, on every resend interval and link-up.
SendResult(j) ==
    /\ j \in outbox
    /\ net' = net \cup {Result(j, ledger[j].result)}
    /\ UNCHANGED <<durable, tasks, linked, told, vtc, counts>>

\* on_result_ack: by job id, whichever copy of the result it answers.
ClearOutbox(j) ==
    /\ Ack(j) \in net
    /\ handler = Idle
    /\ net' = net \ {Ack(j)}
    /\ outbox' = outbox \ {j}
    /\ UNCHANGED <<ledger, flow, tasks, linked, told, vtc, counts>>

\* maintenance: an acknowledged job is dropped 30 days after it finished.
\* By then nothing about it is under way any more, and a VTC that lost its
\* result has asked again (assumed of the VTC).
PruneJob(j) ==
    /\ Finished(j)
    /\ j \notin outbox
    /\ \A m \in net : m.job # j
    /\ vtc[j] # NoOutcome
    /\ worker[j] = "none" /\ callback[j] = "none" /\ poll[j] = "none"
    /\ flow[j] = "none" /\ expiring # j /\ handler.job # j
    /\ ledger' = [ledger EXCEPT ![j] = NoRecord]
    /\ UNCHANGED <<flow, outbox, tasks, linked, told, net, vtc, counts>>

\* (Mistakes: a job that was running stays so; a waiting one is run.)
RunAgainQueued(j) == ledger[j].state = "queued"
RunAgainOpen(j) == Known(j) /\ ~Finished(j)

\* What restore() runs again, and what resume_device_polls polls again.
RunAgain(j) == ledger[j].state \in {"queued", "running"}
PollAgain(j) == Kind[j] = "deviceLink" /\ flow[j] = "open" /\ ~VtaMode

\* The process dies and comes back: every task is gone, and restore() runs
\* the jobs queued or running again and polls the device flows still open.
Restart ==
    /\ counts.crashes < MaxCrashes
    /\ counts' = [counts EXCEPT !.crashes = @ + 1]
    /\ handler' = Idle
    /\ worker' = [j \in Jobs |-> IF RunAgain(j) THEN "spawned" ELSE "none"]
    /\ callback' = [j \in Jobs |-> "none"]
    /\ poll' = [j \in Jobs |-> IF PollAgain(j) THEN "polling" ELSE "none"]
    /\ expiring' = NoJob
    /\ UNCHANGED <<durable, linked, told, net, vtc>>

----------------------------------------------------------------------------
(* The VTC and the mediator.                                              *)

\* A job is sent, and sent again, until the VTC holds its result.
VtcSends(j) ==
    /\ vtc[j] = NoOutcome
    /\ \E c \in Contents : net' = net \cup {Request(j, c)}
    /\ UNCHANGED <<durable, tasks, linked, told, vtc, counts>>

\* The first result wins, and every copy is acknowledged.
VtcRecords(j) ==
    \E m \in net :
        /\ m.type = "result" /\ m.job = j
        /\ vtc' = [vtc EXCEPT ![j] = IF @ = NoOutcome THEN m.result ELSE @]
        /\ net' = (net \ {m}) \cup {Ack(j)}
        /\ UNCHANGED <<durable, tasks, linked, told, counts>>

VtcForgets(j) ==
    /\ counts.forgets < MaxForgets
    /\ vtc[j] # NoOutcome
    /\ Known(j)
    /\ counts' = [counts EXCEPT !.forgets = @ + 1]
    /\ vtc' = [vtc EXCEPT ![j] = NoOutcome]
    /\ UNCHANGED <<durable, tasks, linked, told, net>>

LoseMessage ==
    /\ counts.losses < MaxLosses
    /\ counts' = [counts EXCEPT !.losses = @ + 1]
    /\ \E m \in net : net' = net \ {m}
    /\ UNCHANGED <<durable, tasks, linked, told, vtc>>

----------------------------------------------------------------------------

Handle(j) == \/ RecordJob(j) \/ RefuseJob(j) \/ StartWork(j) \/ BeginFlow(j)
             \/ BeginFails(j) \/ AwaitPerson(j) \/ RepeatJob(j) \/ JobIdReused(j)

Run(j) == ReadJob(j) \/ StartRun(j) \/ \E r \in Outcomes : EndRun(j, r)

Person(j) == TakeFlow(j) \/ TakeFlowAndBail(j)

Complete(j) == CallbackBinds(j) \/ CallbackCloses(j)

Poll(j) == PollEnds(j) \/ PollCloses(j) \/ PollDies(j)

Expire(j) == ExpireFlow(j) \/ ExpireJob(j)

Outbox(j) == SendResult(j) \/ ClearOutbox(j)

Vtc(j) == VtcSends(j) \/ VtcRecords(j) \/ VtcForgets(j)

Next == \/ \E j \in Jobs : \/ Handle(j) \/ Run(j) \/ Person(j) \/ Complete(j)
                           \/ Poll(j) \/ Lapse(j) \/ Expire(j) \/ Outbox(j)
                           \/ PruneJob(j) \/ Vtc(j)
        \/ Restart
        \/ LoseMessage

Spec == Init /\ [][Next]_vars

\* What the code's scheduling guarantees: every task tokio runs proceeds, the
\* resend and expiry loops tick, time passes; and, of the VTC, that it takes
\* what reaches it and repeats a job whose result it lacks.  Nobody is
\* obliged to follow a link, and nothing is fair about crashes and losses.
Fairness ==
    \A j \in Jobs :
        /\ WF_vars(StartWork(j)) /\ WF_vars(BeginFlow(j) \/ BeginFails(j))
        /\ WF_vars(AwaitPerson(j) \/ BeginFails(j)) /\ WF_vars(RepeatJob(j))
        /\ WF_vars(Run(j))
        /\ WF_vars(Complete(j)) /\ WF_vars(Poll(j))
        /\ WF_vars(Lapse(j)) /\ WF_vars(ExpireFlow(j)) /\ WF_vars(ExpireJob(j))
        /\ WF_vars(SendResult(j)) /\ WF_vars(ClearOutbox(j))
        /\ WF_vars(VtcSends(j)) /\ WF_vars(VtcRecords(j))

FairSpec == Spec /\ Fairness

----------------------------------------------------------------------------
(* Properties.                                                            *)

States == {"none", "queued", "running", "waiting", "finished"}
Records == [state : States, result : Results, content : Contents, next : BOOLEAN]
Counts == [crashes : 0..MaxCrashes, losses : 0..MaxLosses, forgets : 0..MaxForgets,
           strays : 0..MaxStrays]

\* Type correctness: the ledger, the tasks and the messages keep their shapes.
TypeOK ==
    /\ ledger \in [Jobs -> Records]
    /\ flow \in [Jobs -> {"none", "open", "lapsed"}]
    /\ outbox \subseteq Jobs
    /\ handler \in [at : {"idle", "recorded", "flowPut"}, job : Jobs \cup {NoJob}]
    /\ worker \in [Jobs -> {"none", "spawned", "awaiting", "holding"}]
    /\ callback \in [Jobs -> {"none", "completing", "bound"}]
    /\ poll \in [Jobs -> {"none", "polling", "linked", "denied", "timedOut"}]
    /\ expiring \in Jobs \cup {NoJob}
    /\ linked \subseteq Jobs
    /\ told \subseteq Jobs
    /\ net \subseteq Messages
    /\ vtc \in [Jobs -> Results]
    /\ counts \in Counts

\* Neither a crash nor a stray link yet.
Smooth == counts.crashes = 0 /\ counts.strays = 0

\* Exactly one result per job: whatever copies of a result are under way,
\* and whatever the VTC holds, is the result in the ledger (finish_job closes
\* a job once; repeats and resends rebuild the result from the ledger).
OneResult ==
    /\ \A m \in net : m.type = "result" =>
          Finished(m.job) /\ m.result = ledger[m.job].result
    /\ \A j \in Jobs : vtc[j] # NoOutcome /\ Known(j) =>
          Finished(j) /\ vtc[j] = ledger[j].result

\* A finished job's result stays in the outbox until the VTC holds it, over
\* any crash and loss: finished and queued are one transaction, and only an
\* acknowledgement takes the entry out.
ResultKept ==
    counts.forgets = 0 =>
        \A j \in Jobs : Finished(j) => j \in outbox \/ vtc[j] # NoOutcome

\* `accepted: true` is answered only for a job on disk, and the job stays
\* there until the VTC holds its result, whatever crashes in between.
AcceptedIsDurable == \A j \in told : Known(j) \/ vtc[j] # NoOutcome

\* Nothing the bridge owes the VTC is lost, neither a job it took on nor the
\* result of one, from begin_job to the acknowledgement that on_result_ack takes.
NothingLost == ResultKept /\ AcceptedIsDurable

\* A job at work on the forge is one the ledger holds open: a job whose
\* result was recorded never touches the forge again.
RunsOnlyOpenJobs ==
    \A j \in Jobs : worker[j] = "holding" => ledger[j].state = "running"

\* A bind or link that took effect is never reported as failed or expired:
\* the callback, the poll and the expiry loop take the flow exclusively.  (A
\* job cut off while it began is answered notRunHere instead.)
LinkedMeansOk == \A j \in linked : ledger[j].result \notin {"failed", "expired"}

\* A job waiting for a person has someone to end it: a flow that can still
\* be completed or expire, or a task that took it and has not closed it.
\* (Unless a crash cut that task off, or the link was followed late.)
WaitingIsOwned ==
    Smooth => \A j \in Jobs : ledger[j].state = "waiting" =>
        \/ flow[j] # "none" \/ callback[j] # "none"
        \/ poll[j] \in {"linked", "denied", "timedOut"} \/ expiring = j

\* The flow, the job that waits for it and the worker that began it agree,
\* whoever of the callback, the poll and the expiry loop comes first.
FlowsAgree == RunsOnlyOpenJobs /\ LinkedMeansOk /\ WaitingIsOwned

\* A finished job stays finished, with the same result, until the VTC holds
\* that result and the ledger drops it.
FinishedIsFinal ==
    [][\A j \in Jobs : Finished(j) =>
          \/ Finished(j)' /\ ledger'[j].result = ledger[j].result
          \/ ~Known(j)' /\ vtc[j] = ledger[j].result]_vars

\* Every job of the bridge's own work is answered, over lost messages, a VTC
\* that forgets, and crashes.
WorkIsAnswered ==
    \A j \in Jobs : ~IsFlow(j) => (Known(j) ~> vtc[j] # NoOutcome)

\* Every begin* job is answered, whether somebody follows its link or nobody
\* does, short of a crash and of a link followed late.
FlowIsAnswered ==
    \A j \in Jobs : IsFlow(j) => (Known(j) ~> vtc[j] # NoOutcome \/ ~Smooth)

\* The flows' doc: a flow nobody completes ends, at its expiry, in a result
\* for its job; one somebody completes ends in one too.
EveryFlowIsAnswered ==
    \A j \in Jobs : IsFlow(j) => (Known(j) ~> vtc[j] # NoOutcome)

\* No flow stays pending for good: it is taken, or it lapses and is deleted.
FlowsEnd == \A j \in Jobs : flow[j] # "none" ~> flow[j] = "none"

\* What a person was asked to do is settled either way: expire_flows and the
\* polls leave neither a flow nor the job behind it open.
FlowsAreSettled == FlowIsAnswered /\ FlowsEnd

----------------------------------------------------------------------------
(* What makes the properties inductive.                                   *)

\* Whatever waits to be sent, or was sent, says something; an acknowledgement
\* under way was preceded by the VTC's recording; a document being handled,
\* and a worker, has its job on disk.
DurabilityInv ==
    /\ \A j \in outbox : Known(j) /\ ledger[j].result \in Outcomes
    /\ \A m \in net : m.type = "result" => m.result \in Outcomes
    /\ \A j \in Jobs : Finished(j) => ledger[j].result \in Outcomes
    /\ \A j \in Jobs : ~Known(j) => ledger[j].result = NoOutcome
    /\ counts.forgets = 0 =>
          \A m \in net : m.type = "ack" => vtc[m.job] # NoOutcome
    /\ handler.at # "idle" => handler.job \in Jobs /\ Known(handler.job)
    /\ \A j \in Jobs : worker[j] # "none" => Known(j)
    /\ ResultKept
    /\ AcceptedIsDurable

\* No device poll is resumed after a restart, by which a begin* job cut off in
\* its handler would have a worker and a poll at once (see OneResult's
\* violation): there are no device links, or their codes die with the process.
NoResumedPolls == VtaMode \/ \A j \in Jobs : Kind[j] # "deviceLink"

\* At most one task may still write a job's record: the handler while it
\* begins, the worker while it is queued or running, the person's side once
\* its link went out.
Owned(j) ==
    /\ handler.at # "idle" /\ handler.job = j =>
          /\ ledger[j].state = "queued"
          /\ worker[j] = "none"
          /\ poll[j] \in {"none", "polling"}
          /\ handler.at = "recorded" => poll[j] = "none"
    /\ worker[j] # "none" =>
          /\ ledger[j].state \in {"queued", "running"}
          /\ poll[j] = "none"
    /\ worker[j] = "holding" => ledger[j].state = "running"
    /\ callback[j] # "none" => ledger[j].next
    /\ poll[j] # "none" => ledger[j].next \/ handler = [at |-> "flowPut", job |-> j]
    /\ poll[j] # "none" => Kind[j] = "deviceLink"
    /\ ledger[j].next => ledger[j].state \in {"waiting", "finished"}

OwnershipInv == \A j \in Jobs : Owned(j)

\* Whoever takes a flow takes it alone: it is pending, completed by the
\* callback, ended by the poll, or deleted by the expiry loop, and the job
\* waits meanwhile.  What took effect is beyond the reach of all that would
\* report a failure.
Taken(j) ==
    /\ ~Finished(j) => ledger[j].result = NoOutcome
    /\ ~Known(j) => flow[j] = "none" /\ expiring # j
    /\ handler = [at |-> "recorded", job |-> j] => flow[j] = "none" /\ expiring # j
    /\ handler = [at |-> "flowPut", job |-> j] => flow[j] = "open"
    /\ flow[j] # "none" =>
          /\ callback[j] = "none" /\ expiring # j
          /\ poll[j] \in {"none", "polling"}
          /\ ledger[j].next => ledger[j].state = "waiting"
    /\ callback[j] # "none" =>
          /\ Kind[j] \in {"bind", "redirectLink"}
          /\ ledger[j].state = "waiting" /\ expiring # j
    /\ j \in linked =>
          /\ IsFlow(j)
          /\ flow[j] = "none" /\ expiring # j
          /\ callback[j] # "completing" /\ poll[j] \in {"none", "linked"}
          /\ \/ ledger[j].state \in {"waiting", "finished"}
             \/ ~Known(j) /\ vtc[j] # NoOutcome

FlowInv == (\A j \in Jobs : Taken(j)) /\ LinkedMeansOk /\ WaitingIsOwned

\* One result everywhere; a job dropped from the ledger is not asked for.
AgreementInv ==
    /\ OneResult
    /\ \A j \in outbox : Finished(j)
    /\ \A m \in net : m.type = "job" /\ ~Known(m.job) => vtc[m.job] = NoOutcome

----------------------------------------------------------------------------
(* The contract.                                                          *)

\* The ledger keeps the job contract.
PhaseOf(j) == IF Finished(j) THEN "done" ELSE IF Known(j) THEN "accepted" ELSE "unknown"

Contract == INSTANCE JobContract WITH
    phase <- [j \in Jobs |-> PhaseOf(j)],
    outcome <- [j \in Jobs |-> ledger[j].result],
    heard <- vtc

KeepsContract == Contract!Spec
=============================================================================
