-------------------------- MODULE JobLedgerProofs --------------------------
(***************************************************************************)
(* Theorems about JobLedger, for every set of jobs, kinds, namespaces,     *)
(* contents and bounds.                                                    *)
(***************************************************************************)
EXTENDS JobLedger, TLAPS

\* Closing a job (Store::finish_job) yields well-formed records and entries.
LEMMA CloseType ==
    ASSUME TypeOK, NEW j \in Jobs, NEW r \in Outcomes, Close(j, r)
    PROVE  ledger' \in [Jobs -> Records] /\ outbox' \subseteq Jobs
<1> DEFINE closed == [ledger[j] EXCEPT !.state = "finished", !.result = r]
<1>1. CASE Known(j) /\ ~Finished(j)
  <2>1. ledger[j] \in Records
    BY DEF TypeOK
  <2>2. closed \in Records
    BY <2>1 DEF Records, States, Results
  <2>3. ledger' = [ledger EXCEPT ![j] = closed] /\ outbox' = outbox \cup {j}
    BY <1>1 DEF Close
  <2> QED BY <2>2, <2>3 DEF TypeOK
<1>2. CASE ~(Known(j) /\ ~Finished(j))
  BY <1>2 DEF Close, TypeOK
<1> QED BY <1>1, <1>2

\* Moving a job to another state leaves its record well-formed.
LEMMA StateType ==
    ASSUME TypeOK, NEW j \in Jobs, NEW s \in States, NEW b \in BOOLEAN
    PROVE  /\ [ledger EXCEPT ![j].state = s] \in [Jobs -> Records]
           /\ [ledger EXCEPT ![j].state = s, ![j].next = b] \in [Jobs -> Records]
<1>1. ledger[j] \in Records
  BY DEF TypeOK
<1>2. [ledger[j] EXCEPT !.state = s] \in Records
  BY <1>1 DEF Records
<1>3. [ledger[j] EXCEPT !.state = s, !.next = b] \in Records
  BY <1>1 DEF Records
<1> QED BY <1>2, <1>3 DEF TypeOK

\* The counters stay within their bounds.
LEMMA CountType ==
    ASSUME TypeOK
    PROVE  /\ counts.crashes < MaxCrashes =>
                 [counts EXCEPT !.crashes = @ + 1] \in Counts
           /\ counts.losses < MaxLosses => [counts EXCEPT !.losses = @ + 1] \in Counts
           /\ counts.forgets < MaxForgets =>
                 [counts EXCEPT !.forgets = @ + 1] \in Counts
           /\ counts.strays < MaxStrays =>
                 [counts EXCEPT !.strays = @ + 1] \in Counts
<1>1. counts \in Counts
  BY DEF TypeOK
<1>2. counts.crashes < MaxCrashes => counts.crashes + 1 \in 0..MaxCrashes
  BY <1>1, BoundsAssumption DEF Counts
<1>3. counts.losses < MaxLosses => counts.losses + 1 \in 0..MaxLosses
  BY <1>1, BoundsAssumption DEF Counts
<1>4. counts.forgets < MaxForgets => counts.forgets + 1 \in 0..MaxForgets
  BY <1>1, BoundsAssumption DEF Counts
<1>5. counts.strays < MaxStrays => counts.strays + 1 \in 0..MaxStrays
  BY <1>1, BoundsAssumption DEF Counts
<1> QED BY <1>1, <1>2, <1>3, <1>4, <1>5 DEF Counts

\* The ledger, the tasks and the messages keep their shapes over every step
\* of the handler, the worker, the person, the poll, the expiry loop, the
\* VTC, a restart and a loss.
THEOREM TypeCorrect == Spec => []TypeOK
<1> USE NoJobAssumption, ContentAssumption DEF NoOutcome
<1>1. Init => TypeOK
  BY BoundsAssumption DEF Init, TypeOK, NoRecord, Idle, Records, States, Results, Counts
<1>2. TypeOK /\ [Next]_vars => TypeOK'
  <2> SUFFICES ASSUME TypeOK, [Next]_vars PROVE TypeOK'
    OBVIOUS
  <2>1. ASSUME NEW j \in Jobs, Handle(j) PROVE TypeOK'
    <3>1. CASE RecordJob(j)
      <4>1. PICK m \in net : RecordJob(j)!(m)
        BY <3>1 DEF RecordJob
      <4>2. m.content \in Contents
        BY DEF TypeOK, Messages
      <4> QED BY <4>1, <4>2 DEF TypeOK, Records, States, Results
    <3>2. CASE RefuseJob(j)
      BY <3>2 DEF TypeOK, RefuseJob, durable, tasks
    <3>3. CASE StartWork(j)
      BY <3>3 DEF TypeOK, StartWork, durable, Idle
    <3>4. CASE BeginFlow(j)
      BY <3>4 DEF TypeOK, BeginFlow
    <3>5. CASE BeginFails(j)
      <4>1. Close(j, "failed")
        BY <3>5 DEF BeginFails
      <4> QED BY <3>5, <4>1, CloseType DEF TypeOK, BeginFails, Idle, Outcomes
    <3>6. CASE AwaitPerson(j)
      BY <3>6, StateType DEF TypeOK, AwaitPerson, Idle, States
    <3>7. CASE RepeatJob(j)
      BY <3>7 DEF TypeOK, RepeatJob, tasks
    <3>8. CASE JobIdReused(j)
      BY <3>8 DEF TypeOK, JobIdReused, durable, tasks
    <3> QED BY <2>1, <3>1, <3>2, <3>3, <3>4, <3>5, <3>6, <3>7, <3>8 DEF Handle
  <2>2. ASSUME NEW j \in Jobs, Run(j) PROVE TypeOK'
    <3>1. CASE ReadJob(j)
      BY <3>1 DEF TypeOK, ReadJob, durable
    <3>2. CASE StartRun(j)
      BY <3>2, StateType DEF TypeOK, StartRun, States
    <3>3. ASSUME NEW r \in Outcomes, EndRun(j, r) PROVE TypeOK'
      BY <3>3, CloseType DEF TypeOK, EndRun
    <3> QED BY <2>2, <3>1, <3>2, <3>3 DEF Run
  <2>3. ASSUME NEW j \in Jobs, Person(j) PROVE TypeOK'
    <3>1. CASE TakeFlow(j)
      BY <3>1 DEF TypeOK, TakeFlow
    <3>2. CASE TakeFlowAndBail(j)
      <4>1. counts' \in Counts
        BY <3>2, CountType DEF TakeFlowAndBail
      <4> QED BY <3>2, <4>1 DEF TypeOK, TakeFlowAndBail, tasks
    <3> QED BY <2>3, <3>1, <3>2 DEF Person
  <2>4. ASSUME NEW j \in Jobs, Complete(j) PROVE TypeOK'
    <3>1. CASE CallbackBinds(j)
      BY <3>1 DEF TypeOK, CallbackBinds, durable
    <3>2. CASE CallbackCloses(j)
      BY <3>2, CloseType DEF TypeOK, CallbackCloses, Outcomes
    <3> QED BY <2>4, <3>1, <3>2 DEF Complete
  <2>5. ASSUME NEW j \in Jobs, Poll(j) PROVE TypeOK'
    <3>1. CASE PollEnds(j)
      BY <3>1 DEF TypeOK, PollEnds
    <3>2. CASE PollCloses(j)
      BY <3>2, CloseType DEF TypeOK, PollCloses, Outcomes
    <3>3. CASE PollDies(j)
      BY <3>3 DEF TypeOK, PollDies, durable
    <3> QED BY <2>5, <3>1, <3>2, <3>3 DEF Poll
  <2>6. ASSUME NEW j \in Jobs, Lapse(j) \/ Expire(j) PROVE TypeOK'
    <3>1. CASE Lapse(j)
      BY <3>1 DEF TypeOK, Lapse, tasks
    <3>2. CASE ExpireFlow(j)
      BY <3>2 DEF TypeOK, ExpireFlow
    <3>3. CASE ExpireJob(j)
      BY <3>3, CloseType DEF TypeOK, ExpireJob, Outcomes
    <3> QED BY <2>6, <3>1, <3>2, <3>3 DEF Expire
  <2>7. ASSUME NEW j \in Jobs, Outbox(j) PROVE TypeOK'
    <3>1. CASE SendResult(j)
      <4>1. Result(j, ledger[j].result) \in Messages
        BY DEF TypeOK, Records, Result, Messages
      <4> QED BY <3>1, <4>1 DEF TypeOK, SendResult, durable, tasks
    <3>2. CASE ClearOutbox(j)
      BY <3>2 DEF TypeOK, ClearOutbox, tasks
    <3> QED BY <2>7, <3>1, <3>2 DEF Outbox
  <2>8. ASSUME NEW j \in Jobs, PruneJob(j) PROVE TypeOK'
    BY <2>8 DEF TypeOK, PruneJob, NoRecord, Records, States, Results, tasks
  <2>9. ASSUME NEW j \in Jobs, Vtc(j) PROVE TypeOK'
    <3>1. CASE VtcSends(j)
      BY <3>1 DEF TypeOK, VtcSends, Request, Messages, Results, durable, tasks
    <3>2. CASE VtcRecords(j)
      <4>1. Ack(j) \in Messages
        BY DEF Ack, Messages, Results
      <4>2. PICK m \in net : VtcRecords(j)!(m)
        BY <3>2 DEF VtcRecords
      <4>3. m.result \in Results
        BY DEF TypeOK, Messages
      <4> QED BY <4>1, <4>2, <4>3 DEF TypeOK, durable, tasks
    <3>3. CASE VtcForgets(j)
      BY <3>3, CountType DEF TypeOK, VtcForgets, Results, durable, tasks
    <3> QED BY <2>9, <3>1, <3>2, <3>3 DEF Vtc
  <2>10. CASE Restart
    BY <2>10, CountType DEF TypeOK, Restart, RunAgain, PollAgain, Idle, durable
  <2>11. CASE LoseMessage
    BY <2>11, CountType DEF TypeOK, LoseMessage, durable, tasks
  <2>12. CASE UNCHANGED vars
    BY <2>12 DEF TypeOK, vars
  <2> QED
    BY <2>1, <2>2, <2>3, <2>4, <2>5, <2>6, <2>7, <2>8, <2>9, <2>10, <2>11, <2>12 DEF Next
<1> QED BY <1>1, <1>2, PTL DEF Spec

----------------------------------------------------------------------------
(* Durability: what was accepted and what was finished survives.           *)

\* What closing a job does to every record, as facts about fields.
LEMMA CloseEffect ==
    ASSUME TypeOK, NEW j \in Jobs, NEW r \in Outcomes, Close(j, r)
    PROVE  /\ \A k \in Jobs : Known(k)' <=> Known(k)
           /\ \A k \in Jobs : ledger'[k].next = ledger[k].next
           /\ \A k \in Jobs : k # j => ledger'[k] = ledger[k]
           /\ Known(j) /\ ~Finished(j) =>
                 /\ ledger'[j].state = "finished" /\ ledger'[j].result = r
                 /\ outbox' = outbox \cup {j}
           /\ ~(Known(j) /\ ~Finished(j)) => UNCHANGED <<ledger, outbox>>
<1>1. CASE Known(j) /\ ~Finished(j)
  <2>1. ledger' = [ledger EXCEPT ![j] =
                     [ledger[j] EXCEPT !.state = "finished", !.result = r]]
        /\ outbox' = outbox \cup {j}
    BY <1>1 DEF Close
  <2>2. ledger[j] \in Records
    BY DEF TypeOK
  <2> QED BY <1>1, <2>1, <2>2 DEF TypeOK, Known, Records
<1>2. CASE ~(Known(j) /\ ~Finished(j))
  BY <1>2 DEF Close, Known
<1> QED BY <1>1, <1>2

\* Closing a job keeps the durability invariant.
LEMMA CloseKeepsDurability ==
    ASSUME TypeOK, DurabilityInv, NEW j \in Jobs, NEW r \in Outcomes, Close(j, r),
           UNCHANGED <<net, vtc, counts>>, told' \subseteq told \cup {k \in Jobs : Known(k)},
           handler' \in {handler, Idle},
           \A k \in Jobs : worker'[k] # "none" => worker[k] # "none"
    PROVE  DurabilityInv'
<1> USE CloseEffect DEF TypeOK
<1>1. (\A k \in outbox : Known(k) /\ ledger[k].result \in Outcomes)'
  BY DEF DurabilityInv, Known
<1>2. (\A k \in Jobs : Finished(k) => ledger[k].result \in Outcomes)'
  BY DEF DurabilityInv, Finished
<1>3. ResultKept'
  BY DEF DurabilityInv, ResultKept, Finished
<1>4. AcceptedIsDurable'
  BY DEF DurabilityInv, AcceptedIsDurable
<1>5. (handler.at # "idle" => handler.job \in Jobs /\ Known(handler.job))'
  BY DEF DurabilityInv, Idle
<1>6. (\A k \in Jobs : worker[k] # "none" => Known(k))'
  BY DEF DurabilityInv
<1>7. (\A k \in Jobs : ~Known(k) => ledger[k].result = NoOutcome)'
  BY DEF DurabilityInv
<1> QED BY <1>1, <1>2, <1>3, <1>4, <1>5, <1>6, <1>7 DEF DurabilityInv

\* A step that changes no record's presence or result, no entry and no
\* message keeps the durability invariant.
LEMMA QuietStep ==
    ASSUME TypeOK, DurabilityInv, TypeOK',
           \A k \in Jobs : (Known(k)' <=> Known(k)) /\ ledger'[k].result = ledger[k].result,
           \A k \in Jobs : Finished(k)' => Finished(k),
           UNCHANGED <<outbox, net, vtc>>, counts'.forgets = counts.forgets,
           told' \subseteq told \cup {k \in Jobs : Known(k)},
           handler' = Idle \/ (handler'.at # "idle" => handler'.job \in Jobs /\ Known(handler'.job)),
           \A k \in Jobs : worker'[k] # "none" => Known(k)
    PROVE  DurabilityInv'
<1>1. (\A k \in outbox : Known(k) /\ ledger[k].result \in Outcomes)'
  BY DEF DurabilityInv, TypeOK
<1>2. (\A k \in Jobs : Finished(k) => ledger[k].result \in Outcomes)'
  BY DEF DurabilityInv
<1>3. ResultKept'
  BY DEF DurabilityInv, ResultKept
<1>4. AcceptedIsDurable'
  BY DEF DurabilityInv, AcceptedIsDurable, TypeOK
<1>5. (handler.at # "idle" => handler.job \in Jobs /\ Known(handler.job))'
  BY DEF Idle
<1>6. (\A k \in Jobs : worker[k] # "none" => Known(k))'
  OBVIOUS
<1>7. (\A k \in Jobs : ~Known(k) => ledger[k].result = NoOutcome)'
  BY DEF DurabilityInv
<1> QED BY <1>1, <1>2, <1>3, <1>4, <1>5, <1>6, <1>7 DEF DurabilityInv

\* Every step keeps the durability invariant: records come before answers and
\* workers, results before messages, and a record is dropped only when the VTC
\* holds its result.
LEMMA DurabilityInductive ==
    ASSUME TypeOK, TypeOK', DurabilityInv, [Next]_vars
    PROVE  DurabilityInv'
<1>1. ASSUME NEW j \in Jobs, Handle(j) PROVE DurabilityInv'
  <2>1. CASE RecordJob(j)
    <3>1. PICK m \in net : RecordJob(j)!(m)
      BY <2>1 DEF RecordJob
    <3> USE <3>1 DEF TypeOK, DurabilityInv
    <3>2. \A k \in Jobs : k # j => ledger'[k] = ledger[k]
      OBVIOUS
    <3>3. ledger'[j].state = "queued" /\ j \notin outbox
      BY DEF Known
    <3>4. \A k \in Jobs : Known(k) => Known(k)'
      BY <3>2, <3>3 DEF Known
    <3>5. ResultKept' /\ AcceptedIsDurable'
      BY <3>2, <3>3, <3>4 DEF ResultKept, AcceptedIsDurable, Finished
    <3>6. (\A k \in outbox : Known(k) /\ ledger[k].result \in Outcomes)'
      BY <3>2, <3>3, <3>4
    <3>7. (\A k \in Jobs : Finished(k) => ledger[k].result \in Outcomes)'
      BY <3>2, <3>3 DEF Finished
    <3>8. Known(j)'
      BY <3>3 DEF Known
    <3>9. (handler.at # "idle" => handler.job \in Jobs /\ Known(handler.job))'
      BY <3>8
    <3>10. (\A k \in Jobs : worker[k] # "none" => Known(k))'
      BY <3>4
    <3>11. (\A n \in net : n.type = "result" => n.result \in Outcomes)'
      OBVIOUS
    <3>12. (counts.forgets = 0 => \A n \in net : n.type = "ack" => vtc[n.job] # NoOutcome)'
      OBVIOUS
    <3>13. (\A k \in Jobs : ~Known(k) => ledger[k].result = NoOutcome)'
      BY <3>2, <3>8 DEF Known
    <3> QED BY <3>5, <3>6, <3>7, <3>9, <3>10, <3>11, <3>12, <3>13
  <2>2. CASE RefuseJob(j)
    BY <2>2 DEF RefuseJob, durable, tasks, DurabilityInv, ResultKept, AcceptedIsDurable,
       Known, Finished
  <2>3. CASE StartWork(j)
    BY <2>3, QuietStep DEF StartWork, durable, Known, Finished, DurabilityInv
  <2>4. CASE BeginFlow(j)
    BY <2>4, QuietStep DEF BeginFlow, Known, Finished, DurabilityInv
  <2>5. CASE BeginFails(j)
    <3>1. Known(j)
      BY <2>5 DEF BeginFails, DurabilityInv
    <3> QED BY <2>5, <3>1, CloseKeepsDurability DEF BeginFails, Outcomes
  <2>6. CASE AwaitPerson(j)
    <3>1. Known(j)
      BY <2>6 DEF AwaitPerson, DurabilityInv
    <3>2. ledger' = [ledger EXCEPT ![j] = [ledger[j] EXCEPT !.state = "waiting", !.next = TRUE]]
      BY <2>6 DEF AwaitPerson
    <3>3. ledger[j] \in Records
      BY DEF TypeOK
    <3>4. ledger'[j].state = "waiting" /\ ledger'[j].result = ledger[j].result
      BY <3>2, <3>3 DEF TypeOK, Records
    <3>5. \A k \in Jobs : k # j => ledger'[k] = ledger[k]
      BY <3>2 DEF TypeOK
    <3>6. \A k \in Jobs : worker'[k] # "none" => Known(k)
      BY <2>6 DEF AwaitPerson, DurabilityInv
    <3>7. \A k \in Jobs : Finished(k)' => Finished(k)
      BY <3>4, <3>5 DEF Finished
    <3>8. \A k \in Jobs : (Known(k)' <=> Known(k)) /\ ledger'[k].result = ledger[k].result
      BY <3>1, <3>4, <3>5 DEF Known
    <3>9. told' \subseteq told \cup {k \in Jobs : Known(k)} /\ handler' = Idle
      BY <2>6, <3>1 DEF AwaitPerson
    <3> QED BY <2>6, <3>6, <3>7, <3>8, <3>9, QuietStep DEF AwaitPerson
  <2>7. CASE RepeatJob(j)
    BY <2>7 DEF RepeatJob, tasks, DurabilityInv, ResultKept, AcceptedIsDurable, Known,
       Finished, TypeOK
  <2>8. CASE JobIdReused(j)
    BY <2>8 DEF JobIdReused, durable, tasks, DurabilityInv, ResultKept, AcceptedIsDurable,
       Known, Finished
  <2> QED BY <1>1, <2>1, <2>2, <2>3, <2>4, <2>5, <2>6, <2>7, <2>8 DEF Handle
<1>2. ASSUME NEW j \in Jobs, Run(j) PROVE DurabilityInv'
  <2>1. CASE ReadJob(j)
    BY <2>1, QuietStep DEF ReadJob, durable, Known, Finished, DurabilityInv
  <2>2. CASE StartRun(j)
    <3>1. ledger' = [ledger EXCEPT ![j] = [ledger[j] EXCEPT !.state = "running"]]
      BY <2>2 DEF StartRun
    <3>2. ledger[j] \in Records
      BY DEF TypeOK
    <3>3. ledger'[j].state = "running" /\ ledger'[j].result = ledger[j].result
      BY <3>1, <3>2 DEF TypeOK, Records
    <3>4. \A k \in Jobs : k # j => ledger'[k] = ledger[k]
      BY <3>1 DEF TypeOK
    <3>5. Known(j)
      BY <2>2 DEF StartRun, DurabilityInv
    <3>6. \A k \in Jobs : worker'[k] # "none" => Known(k)
      BY <2>2, <3>5 DEF StartRun, DurabilityInv, TypeOK
    <3>7. \A k \in Jobs : Finished(k)' => Finished(k)
      BY <3>3, <3>4 DEF Finished
    <3>8. \A k \in Jobs : (Known(k)' <=> Known(k)) /\ ledger'[k].result = ledger[k].result
      BY <3>3, <3>4, <3>5 DEF Known
    <3>9. handler'.at # "idle" => handler'.job \in Jobs /\ Known(handler'.job)
      BY <2>2 DEF StartRun, DurabilityInv
    <3> QED BY <2>2, <3>6, <3>7, <3>8, <3>9, QuietStep DEF StartRun
  <2>3. ASSUME NEW r \in Outcomes, EndRun(j, r) PROVE DurabilityInv'
    BY <2>3, CloseKeepsDurability DEF EndRun, Outcomes
  <2> QED BY <1>2, <2>1, <2>2, <2>3 DEF Run
<1>3. ASSUME NEW j \in Jobs, Person(j) \/ Lapse(j) PROVE DurabilityInv'
  <2>1. UNCHANGED <<ledger, outbox, net, vtc, told, handler, worker>>
    BY <1>3 DEF Person, TakeFlow, TakeFlowAndBail, Lapse, tasks
  <2>2. counts'.forgets = counts.forgets
    BY <1>3 DEF Person, TakeFlow, TakeFlowAndBail, Lapse, TypeOK, Counts
  <2> QED BY <2>1, <2>2, QuietStep DEF Known, Finished, DurabilityInv
<1>4. ASSUME NEW j \in Jobs, Complete(j) PROVE DurabilityInv'
  <2>1. CASE CallbackBinds(j)
    BY <2>1, QuietStep DEF CallbackBinds, durable, Known, Finished, DurabilityInv
  <2>2. CASE CallbackCloses(j)
    BY <2>2, CloseKeepsDurability DEF CallbackCloses, Outcomes
  <2> QED BY <1>4, <2>1, <2>2 DEF Complete
<1>5. ASSUME NEW j \in Jobs, Poll(j) PROVE DurabilityInv'
  <2>1. CASE PollEnds(j)
    BY <2>1, QuietStep DEF PollEnds, Known, Finished, DurabilityInv
  <2>2. CASE PollCloses(j)
    BY <2>2, CloseKeepsDurability DEF PollCloses, Outcomes
  <2>3. CASE PollDies(j)
    BY <2>3, QuietStep DEF PollDies, durable, Known, Finished, DurabilityInv
  <2> QED BY <1>5, <2>1, <2>2, <2>3 DEF Poll
<1>6. ASSUME NEW j \in Jobs, Expire(j) PROVE DurabilityInv'
  <2>1. CASE ExpireFlow(j)
    BY <2>1, QuietStep DEF ExpireFlow, Known, Finished, DurabilityInv
  <2>2. CASE ExpireJob(j) /\ ledger[j].state = "waiting"
    BY <2>2, CloseKeepsDurability DEF ExpireJob, Outcomes
  <2>3. CASE ExpireJob(j) /\ ledger[j].state # "waiting"
    BY <2>3, QuietStep DEF ExpireJob, Known, Finished, DurabilityInv
  <2> QED BY <1>6, <2>1, <2>2, <2>3 DEF Expire
<1>7. ASSUME NEW j \in Jobs, Outbox(j) PROVE DurabilityInv'
  <2>1. CASE SendResult(j)
    <3>1. ledger[j].result \in Outcomes
      BY <2>1 DEF SendResult, DurabilityInv
    <3> QED
      BY <2>1, <3>1 DEF SendResult, Result, durable, tasks, DurabilityInv, ResultKept,
         AcceptedIsDurable, Known, Finished
  <2>2. CASE ClearOutbox(j)
    <3>1. counts.forgets = 0 => vtc[j] # NoOutcome
      BY <2>2 DEF ClearOutbox, Ack, DurabilityInv
    <3> QED
      BY <2>2, <3>1 DEF ClearOutbox, tasks, DurabilityInv, ResultKept, AcceptedIsDurable,
         Known, Finished
  <2> QED BY <1>7, <2>1, <2>2 DEF Outbox
<1>8. ASSUME NEW j \in Jobs, PruneJob(j) PROVE DurabilityInv'
  <2> USE <1>8 DEF PruneJob, tasks, DurabilityInv, TypeOK
  <2>1. ledger'[j] = NoRecord /\ \A k \in Jobs : k # j => ledger'[k] = ledger[k]
    OBVIOUS
  <2>2. \A k \in Jobs : k # j => (Known(k)' <=> Known(k)) /\ (Finished(k)' <=> Finished(k))
    BY <2>1 DEF Known, Finished
  <2>3. ~Finished(j)'
    BY <2>1 DEF Finished, NoRecord
  <2>4. ResultKept' /\ AcceptedIsDurable'
    BY <2>2, <2>3 DEF ResultKept, AcceptedIsDurable
  <2>5. (\A k \in outbox : Known(k) /\ ledger[k].result \in Outcomes)'
    BY <2>1, <2>2
  <2>6. (\A k \in Jobs : Finished(k) => ledger[k].result \in Outcomes)'
    BY <2>1, <2>2, <2>3
  <2>7. (handler.at # "idle" => handler.job \in Jobs /\ Known(handler.job))'
    BY <2>2
  <2>8. (\A k \in Jobs : worker[k] # "none" => Known(k))'
    BY <2>2
  <2>9. (\A k \in Jobs : ~Known(k) => ledger[k].result = NoOutcome)'
    BY <2>1, <2>2 DEF NoRecord
  <2> QED BY <2>4, <2>5, <2>6, <2>7, <2>8, <2>9
<1>9. ASSUME NEW j \in Jobs, Vtc(j) PROVE DurabilityInv'
  <2>1. CASE VtcSends(j)
    BY <2>1 DEF VtcSends, Request, durable, tasks, DurabilityInv, ResultKept,
       AcceptedIsDurable, Known, Finished
  <2>2. CASE VtcRecords(j)
    <3>1. PICK m \in net : VtcRecords(j)!(m)
      BY <2>2 DEF VtcRecords
    <3>2. m.result \in Outcomes /\ m.result # NoOutcome
      BY <3>1 DEF DurabilityInv, Outcomes, NoOutcome
    <3>3. vtc'[j] # NoOutcome /\ \A k \in Jobs : vtc[k] # NoOutcome => vtc'[k] # NoOutcome
      BY <3>1, <3>2 DEF TypeOK
    <3> QED
      BY <3>1, <3>3 DEF Ack, durable, tasks, DurabilityInv, ResultKept, AcceptedIsDurable,
         Known, Finished, TypeOK, Messages
  <2>3. CASE VtcForgets(j)
    <3>1. counts'.forgets # 0
      BY <2>3, BoundsAssumption DEF VtcForgets, TypeOK, Counts
    <3>2. AcceptedIsDurable'
      BY <2>3 DEF VtcForgets, durable, DurabilityInv, AcceptedIsDurable, Known, TypeOK
    <3> QED
      BY <2>3, <3>1, <3>2 DEF VtcForgets, durable, tasks, DurabilityInv, ResultKept, Known,
         Finished
  <2> QED BY <1>9, <2>1, <2>2, <2>3 DEF Vtc
<1>10. CASE Restart
  <2>1. \A k \in Jobs : worker'[k] # "none" => Known(k)
    BY <1>10 DEF Restart, RunAgain, Known
  <2>2. counts'.forgets = counts.forgets
    BY <1>10 DEF Restart, TypeOK, Counts
  <2> QED
    BY <1>10, <2>1, <2>2 DEF Restart, RunAgain, Idle, durable, DurabilityInv, ResultKept,
       AcceptedIsDurable, Known, Finished
<1>11. CASE LoseMessage
  <2>1. counts'.forgets = counts.forgets
    BY <1>11 DEF LoseMessage, TypeOK, Counts
  <2> QED
    BY <1>11, <2>1 DEF LoseMessage, durable, tasks, DurabilityInv, ResultKept,
       AcceptedIsDurable, Known, Finished
<1>12. CASE UNCHANGED vars
  BY <1>12 DEF vars, DurabilityInv, ResultKept, AcceptedIsDurable, Known, Finished
<1> QED
  BY <1>1, <1>2, <1>3, <1>4, <1>5, <1>6, <1>7, <1>8, <1>9, <1>10, <1>11, <1>12 DEF Next

\* The durability invariant holds of the ledger, whatever crashes and gets lost.
LEMMA DurabilityHolds == Spec => []DurabilityInv
<1>1. Init => DurabilityInv
  BY NoJobAssumption DEF Init, Idle, NoRecord, DurabilityInv, ResultKept, AcceptedIsDurable,
     Known, Finished
<1>2. TypeOK /\ TypeOK' /\ DurabilityInv /\ [Next]_vars => DurabilityInv'
  BY DurabilityInductive
<1> QED BY <1>1, <1>2, TypeCorrect, PTL DEF Spec

\* A finished job's result stays in the outbox until the VTC holds it
\* (Store::finish_job, on_result_ack), whatever crashes and gets lost.
THEOREM ResultsAreKept == Spec => []ResultKept
<1>1. DurabilityInv => ResultKept
  BY DEF DurabilityInv
<1> QED BY <1>1, DurabilityHolds, PTL

\* What was answered `accepted: true` is on disk until the VTC holds its
\* result (on_job records before it answers).
THEOREM AcceptedJobsAreDurable == Spec => []AcceptedIsDurable
<1>1. DurabilityInv => AcceptedIsDurable
  BY DEF DurabilityInv
<1> QED BY <1>1, DurabilityHolds, PTL

\* So nothing owed to the VTC is lost, from on_job to on_result_ack.
THEOREM NothingIsLost == Spec => []NothingLost
<1>1. ResultKept /\ AcceptedIsDurable => NothingLost
  BY DEF NothingLost
<1> QED BY <1>1, ResultsAreKept, AcceptedJobsAreDurable, PTL

----------------------------------------------------------------------------
(* One result per job, where no device poll is resumed after a restart.    *)

\* Closing a job whose record only the closer may write keeps ownership.
LEMMA CloseKeepsOwnership ==
    ASSUME TypeOK, OwnershipInv, NEW j \in Jobs, NEW r \in Outcomes, Close(j, r),
           handler' \in {handler, Idle},
           handler'.at # "idle" => handler'.job # j,
           worker' = [worker EXCEPT ![j] = "none"] \/ UNCHANGED worker,
           worker'[j] = "none",
           poll' = [poll EXCEPT ![j] = "none"] \/ UNCHANGED poll,
           callback' = [callback EXCEPT ![j] = "none"] \/ UNCHANGED callback,
           handler' # handler => handler.job = j /\ poll[j] = "none"
    PROVE  OwnershipInv'
<1> SUFFICES ASSUME NEW k \in Jobs PROVE Owned(k)'
  BY DEF OwnershipInv
<1>1. CASE k = j
  BY <1>1, CloseEffect DEF OwnershipInv, Owned, TypeOK, Idle
<1>2. CASE k # j
  <2>1. ledger'[k] = ledger[k] /\ worker'[k] = worker[k] /\ poll'[k] = poll[k]
        /\ callback'[k] = callback[k]
    BY <1>2, CloseEffect DEF TypeOK
  <2> QED BY <2>1 DEF OwnershipInv, Owned, Idle
<1> QED BY <1>1, <1>2

\* Where no poll is resumed, every step keeps each record to at most one task
\* that may still write it: on_job hands it to the worker or the flow, the flow
\* to whoever takes it, and a restart only to a worker.
LEMMA OwnershipInductive ==
    ASSUME NoResumedPolls, TypeOK, TypeOK', DurabilityInv, OwnershipInv, [Next]_vars
    PROVE  OwnershipInv'
<1>1. ASSUME NEW j \in Jobs, Handle(j) PROVE OwnershipInv'
  <2>1. CASE RecordJob(j)
    <3> SUFFICES ASSUME NEW k \in Jobs PROVE Owned(k)'
      BY DEF OwnershipInv
    <3>1. CASE k = j
      <4>1. ~Known(j) /\ handler = Idle
        BY <2>1 DEF RecordJob
      <4>2. ledger'[j].state = "queued" /\ ledger'[j].next = FALSE
        BY <2>1 DEF RecordJob, TypeOK
      <4>3. worker[j] = "none" /\ ~ledger[j].next /\ poll[j] = "none" /\ callback[j] = "none"
        BY <4>1 DEF OwnershipInv, Owned, Known, Idle
      <4> QED BY <2>1, <3>1, <4>2, <4>3 DEF RecordJob, Owned
    <3>2. CASE k # j
      BY <2>1, <3>2 DEF RecordJob, OwnershipInv, Owned, TypeOK, Idle
    <3> QED BY <3>1, <3>2
  <2>2. CASE RefuseJob(j) \/ RepeatJob(j) \/ JobIdReused(j)
    BY <2>2 DEF RefuseJob, RepeatJob, JobIdReused, durable, tasks, OwnershipInv, Owned
  <2>3. CASE StartWork(j)
    <3> SUFFICES ASSUME NEW k \in Jobs PROVE Owned(k)'
      BY DEF OwnershipInv
    <3>1. /\ handler = [at |-> "recorded", job |-> j] /\ handler'.at = "idle"
          /\ UNCHANGED <<ledger, poll, callback>>
      BY <2>3 DEF StartWork, durable, Idle
    <3>2. Owned(k) /\ Owned(j)
      BY DEF OwnershipInv
    <3>3. CASE k = j
      <4>1. worker'[k] = "spawned"
        BY <2>3, <3>3 DEF StartWork, TypeOK
      <4>2. ledger[k].state = "queued" /\ poll[k] = "none"
        BY <3>1, <3>2, <3>3 DEF Owned
      <4> QED BY <3>1, <3>2, <3>3, <4>1, <4>2 DEF Owned
    <3>4. CASE k # j
      <4>1. worker'[k] = worker[k]
        BY <2>3, <3>4 DEF StartWork, TypeOK
      <4> QED BY <3>1, <3>2, <3>4, <4>1 DEF Owned
    <3> QED BY <3>3, <3>4
  <2>4. CASE BeginFlow(j)
    <3> SUFFICES ASSUME NEW k \in Jobs PROVE Owned(k)'
      BY DEF OwnershipInv
    <3>1. handler = [at |-> "recorded", job |-> j]
          /\ handler' = [at |-> "flowPut", job |-> j]
          /\ UNCHANGED <<ledger, worker, callback>>
      BY <2>4 DEF BeginFlow
    <3>2. poll'[k] = poll[k] \/ (k = j /\ Kind[k] = "deviceLink" /\ poll'[k] = "polling")
      BY <2>4 DEF BeginFlow, TypeOK
    <3>3. poll'[k] # "none" => Kind[k] = "deviceLink"
      BY <3>2 DEF OwnershipInv, Owned
    <3>4. CASE k = j
      BY <3>1, <3>2, <3>3, <3>4 DEF OwnershipInv, Owned, TypeOK
    <3>5. CASE k # j
      BY <3>1, <3>2, <3>3, <3>5 DEF OwnershipInv, Owned
    <3> QED BY <3>4, <3>5
  <2>5. CASE BeginFails(j)
    <3>1. worker[j] = "none" /\ poll[j] = "none" /\ handler.job = j
      <4>1. CASE handler = [at |-> "recorded", job |-> j]
        BY <4>1 DEF OwnershipInv, Owned
      <4>2. CASE handler = [at |-> "flowPut", job |-> j] /\ Kind[j] = "bind"
        BY <4>2 DEF OwnershipInv, Owned
      <4> QED BY <2>5, <4>1, <4>2 DEF BeginFails
    <3>2. Close(j, "failed") /\ handler' = Idle
          /\ UNCHANGED <<worker, callback, poll, linked, net, vtc, counts>>
      BY <2>5 DEF BeginFails
    <3>3. handler'.at = "idle" /\ worker'[j] = "none" /\ "failed" \in Outcomes
      BY <3>1, <3>2 DEF Outcomes, Idle
    <3> QED BY <3>1, <3>2, <3>3, CloseKeepsOwnership
  <2>6. CASE AwaitPerson(j)
    <3>1. ledger' = [ledger EXCEPT ![j] = [ledger[j] EXCEPT !.state = "waiting", !.next = TRUE]]
      BY <2>6 DEF AwaitPerson
    <3>2. ledger[j] \in Records
      BY DEF TypeOK
    <3>3. ledger'[j].state = "waiting" /\ ledger'[j].next
      BY <3>1, <3>2 DEF TypeOK, Records
    <3>4. \A k \in Jobs : k # j => ledger'[k] = ledger[k]
      BY <3>1 DEF TypeOK
    <3>5. handler.job = j /\ handler.at = "flowPut" /\ handler'.at = "idle"
          /\ UNCHANGED <<worker, callback, poll>>
      BY <2>6 DEF AwaitPerson, Idle
    <3>6. ASSUME NEW k \in Jobs PROVE Owned(k)'
      <4>1. CASE k = j
        BY <3>3, <3>5, <4>1 DEF OwnershipInv, Owned
      <4>2. CASE k # j
        <5>1. handler # [at |-> "flowPut", job |-> k]
          BY <3>5, <4>2
        <5> QED BY <3>4, <3>5, <4>2, <5>1 DEF OwnershipInv, Owned
      <4> QED BY <4>1, <4>2
    <3> QED BY <3>6 DEF OwnershipInv
  <2> QED BY <1>1, <2>1, <2>2, <2>3, <2>4, <2>5, <2>6 DEF Handle
<1>2. ASSUME NEW j \in Jobs, Run(j) PROVE OwnershipInv'
  <2>1. CASE ReadJob(j)
    BY <2>1 DEF ReadJob, durable, OwnershipInv, Owned, TypeOK
  <2>2. CASE StartRun(j)
    <3>1. ledger' = [ledger EXCEPT ![j] = [ledger[j] EXCEPT !.state = "running"]]
      BY <2>2 DEF StartRun
    <3>2. ledger[j] \in Records
      BY DEF TypeOK
    <3>3. ledger'[j].state = "running" /\ ledger'[j].next = ledger[j].next
      BY <3>1, <3>2 DEF TypeOK, Records
    <3>4. \A k \in Jobs : k # j => ledger'[k] = ledger[k]
      BY <3>1 DEF TypeOK
    <3> QED BY <2>2, <3>3, <3>4 DEF StartRun, OwnershipInv, Owned, TypeOK
  <2>3. ASSUME NEW r \in Outcomes, EndRun(j, r) PROVE OwnershipInv'
    <3>1. handler.at # "idle" => handler.job # j
      BY <2>3 DEF EndRun, OwnershipInv, Owned
    <3>2. worker' = [worker EXCEPT ![j] = "none"] /\ worker'[j] = "none"
      BY <2>3 DEF EndRun, TypeOK
    <3> QED BY <2>3, <3>1, <3>2, CloseKeepsOwnership DEF EndRun
  <2> QED BY <1>2, <2>1, <2>2, <2>3 DEF Run
<1>3. ASSUME NEW j \in Jobs, Person(j) \/ Lapse(j) PROVE OwnershipInv'
  BY <1>3 DEF Person, TakeFlow, TakeFlowAndBail, Lapse, LinkGiven, tasks, OwnershipInv, Owned, TypeOK
<1>4. ASSUME NEW j \in Jobs, Complete(j) PROVE OwnershipInv'
  <2>1. CASE CallbackBinds(j)
    BY <2>1 DEF CallbackBinds, durable, OwnershipInv, Owned, TypeOK
  <2>2. CASE CallbackCloses(j)
    <3>1. ledger[j].state \in {"waiting", "finished"}
      BY <2>2 DEF CallbackCloses, OwnershipInv, Owned
    <3>2. worker[j] = "none" /\ (handler.at # "idle" => handler.job # j)
      BY <3>1 DEF OwnershipInv, Owned
    <3> QED BY <2>2, <3>2, CloseKeepsOwnership DEF CallbackCloses, Outcomes
  <2> QED BY <1>4, <2>1, <2>2 DEF Complete
<1>5. ASSUME NEW j \in Jobs, Poll(j) PROVE OwnershipInv'
  <2>1. CASE PollEnds(j)
    BY <2>1 DEF PollEnds, OwnershipInv, Owned, TypeOK, Idle
  <2>2. CASE PollCloses(j)
    <3>1. handler.at # "idle" => handler.job # j
      BY <2>2 DEF PollCloses, OwnershipInv, Owned
    <3>2. worker[j] = "none"
      BY <2>2 DEF PollCloses, OwnershipInv, Owned
    <3> QED BY <2>2, <3>1, <3>2, CloseKeepsOwnership DEF PollCloses, Outcomes
  <2>3. CASE PollDies(j)
    BY <2>3 DEF PollDies, durable, OwnershipInv, Owned, TypeOK
  <2> QED BY <1>5, <2>1, <2>2, <2>3 DEF Poll
<1>6. ASSUME NEW j \in Jobs, Expire(j) PROVE OwnershipInv'
  <2>1. CASE ExpireFlow(j) \/ (ExpireJob(j) /\ ledger[j].state # "waiting")
    BY <2>1 DEF ExpireFlow, ExpireJob, OwnershipInv, Owned
  <2>2. CASE ExpireJob(j) /\ ledger[j].state = "waiting"
    <3>1. worker[j] = "none" /\ (handler.at # "idle" => handler.job # j)
      BY <2>2 DEF OwnershipInv, Owned
    <3> QED BY <2>2, <3>1, CloseKeepsOwnership DEF ExpireJob, Outcomes, Idle
  <2> QED BY <1>6, <2>1, <2>2 DEF Expire
<1>7. ASSUME NEW j \in Jobs, Outbox(j) \/ Vtc(j) PROVE OwnershipInv'
  BY <1>7 DEF Outbox, SendResult, ClearOutbox, Vtc, VtcSends, VtcRecords, VtcForgets, durable,
     tasks, OwnershipInv, Owned
<1>8. ASSUME NEW j \in Jobs, PruneJob(j) PROVE OwnershipInv'
  <2>1. ledger'[j] = NoRecord /\ \A k \in Jobs : k # j => ledger'[k] = ledger[k]
    BY <1>8 DEF PruneJob, TypeOK
  <2> QED BY <1>8, <2>1 DEF PruneJob, NoRecord, tasks, OwnershipInv, Owned, Idle
<1>9. CASE Restart
  <2>1. \A k \in Jobs : poll'[k] = "none"
    BY <1>9 DEF Restart, PollAgain, NoResumedPolls
  <2> QED BY <1>9, <2>1 DEF Restart, RunAgain, durable, Idle, OwnershipInv, Owned
<1>10. CASE LoseMessage \/ UNCHANGED vars
  BY <1>10 DEF LoseMessage, durable, tasks, vars, OwnershipInv, Owned
<1> QED
  BY <1>1, <1>2, <1>3, <1>4, <1>5, <1>6, <1>7, <1>8, <1>9, <1>10 DEF Next

\* A finished job keeps its result over every step but its own pruning.
LEMMA FinishedStep ==
    ASSUME TypeOK, OwnershipInv, [Next]_vars,
           NEW k \in Jobs, Finished(k), ~PruneJob(k)
    PROVE  Finished(k)' /\ ledger'[k].result = ledger[k].result
<1> USE DEF Finished
<1>1. ASSUME NEW j \in Jobs, NEW r \in Outcomes, Close(j, r)
      PROVE  Finished(k)' /\ ledger'[k].result = ledger[k].result
  BY <1>1, CloseEffect
<1>2. ASSUME UNCHANGED ledger
      PROVE  Finished(k)' /\ ledger'[k].result = ledger[k].result
  BY <1>2
<1>3. ASSUME NEW j \in Jobs, Handle(j) PROVE Finished(k)' /\ ledger'[k].result = ledger[k].result
  <2>1. CASE RecordJob(j)
    BY <2>1 DEF RecordJob, Known, TypeOK
  <2>2. CASE AwaitPerson(j)
    <3>1. j # k
      BY <2>2 DEF AwaitPerson, OwnershipInv, Owned
    <3> QED BY <2>2, <3>1 DEF AwaitPerson, TypeOK
  <2>3. CASE BeginFails(j)
    BY <2>3, <1>1 DEF BeginFails, Outcomes
  <2>4. CASE RefuseJob(j) \/ StartWork(j) \/ BeginFlow(j) \/ RepeatJob(j) \/ JobIdReused(j)
    BY <2>4 DEF RefuseJob, StartWork, BeginFlow, RepeatJob, JobIdReused, durable
  <2> QED BY <1>3, <2>1, <2>2, <2>3, <2>4 DEF Handle
<1>4. ASSUME NEW j \in Jobs, Run(j) PROVE Finished(k)' /\ ledger'[k].result = ledger[k].result
  <2>1. CASE ReadJob(j)
    BY <2>1 DEF ReadJob, durable
  <2>2. CASE StartRun(j)
    <3>1. j # k
      BY <2>2 DEF StartRun, OwnershipInv, Owned
    <3> QED BY <2>2, <3>1 DEF StartRun, TypeOK
  <2>3. ASSUME NEW r \in Outcomes, EndRun(j, r)
        PROVE  Finished(k)' /\ ledger'[k].result = ledger[k].result
    BY <2>3, <1>1 DEF EndRun
  <2> QED BY <1>4, <2>1, <2>2, <2>3 DEF Run
<1>5. ASSUME NEW j \in Jobs, Complete(j) \/ Poll(j) \/ Expire(j)
      PROVE  Finished(k)' /\ ledger'[k].result = ledger[k].result
  <2>1. CASE CallbackCloses(j) \/ PollCloses(j) \/ ExpireJob(j)
    BY <2>1, <1>1 DEF CallbackCloses, PollCloses, ExpireJob, Outcomes
  <2>2. CASE CallbackBinds(j) \/ PollEnds(j) \/ PollDies(j) \/ ExpireFlow(j)
    BY <2>2 DEF CallbackBinds, PollEnds, PollDies, ExpireFlow, durable
  <2> QED BY <1>5, <2>1, <2>2 DEF Complete, Poll, Expire
<1>6. ASSUME NEW j \in Jobs, Person(j) \/ Lapse(j) \/ Outbox(j) \/ Vtc(j)
      PROVE  Finished(k)' /\ ledger'[k].result = ledger[k].result
  BY <1>6 DEF Person, TakeFlow, TakeFlowAndBail, Lapse, Outbox, SendResult, ClearOutbox, Vtc,
     VtcSends, VtcRecords, VtcForgets, durable
<1>7. ASSUME NEW j \in Jobs, PruneJob(j)
      PROVE  Finished(k)' /\ ledger'[k].result = ledger[k].result
  BY <1>7 DEF PruneJob, TypeOK
<1>8. CASE Restart \/ LoseMessage \/ UNCHANGED vars
  BY <1>8 DEF Restart, LoseMessage, durable, vars
<1> QED BY <1>3, <1>4, <1>5, <1>6, <1>7, <1>8 DEF Next

\* A step that finishes jobs but forgets none, sends nothing and tells the VTC
\* nothing keeps agreement.
LEMMA AgreementQuiet ==
    ASSUME TypeOK, AgreementInv,
           \A k \in Jobs : Finished(k) =>
               Finished(k)' /\ ledger'[k].result = ledger[k].result,
           \A k \in Jobs : Known(k)' <=> Known(k),
           \A k \in outbox' : k \in Jobs /\ Finished(k)',
           net' \subseteq net,
           \A k \in Jobs : vtc'[k] = vtc[k] \/ vtc'[k] = NoOutcome
    PROVE  AgreementInv'
<1>1. OneResult'
  BY DEF OneResult, AgreementInv, TypeOK, Messages
<1>2. (\A j \in outbox : Finished(j))'
  OBVIOUS
<1>3. (\A m \in net : m.type = "job" /\ ~Known(m.job) => vtc[m.job] = NoOutcome)'
  BY DEF AgreementInv, TypeOK, Messages
<1> QED BY <1>1, <1>2, <1>3 DEF AgreementInv

\* Closing a job (Store::finish_job) keeps agreement: it queues a finished job.
LEMMA CloseKeepsAgreement ==
    ASSUME TypeOK, AgreementInv, NEW j \in Jobs, NEW r \in Outcomes, Close(j, r),
           UNCHANGED <<net, vtc>>
    PROVE  AgreementInv'
<1>1. \A k \in Jobs : Finished(k) => Finished(k)' /\ ledger'[k].result = ledger[k].result
  BY CloseEffect DEF Finished
<1>2. \A k \in outbox' : k \in Jobs /\ Finished(k)'
  BY CloseEffect DEF AgreementInv, Finished, TypeOK
<1>3. \A k \in Jobs : Known(k)' <=> Known(k)
  BY CloseEffect
<1> QED BY <1>1, <1>2, <1>3, AgreementQuiet

\* Every step keeps agreement: what send_outbox sends is the ledger's result,
\* which no later step rewrites.
LEMMA AgreementInductive ==
    ASSUME TypeOK, OwnershipInv, DurabilityInv, AgreementInv, [Next]_vars
    PROVE  AgreementInv'
<1>1. ASSUME NEW j \in Jobs, Handle(j) PROVE AgreementInv'
  <2>1. CASE RecordJob(j)
    <3>1. PICK m \in net : RecordJob(j)!(m)
      BY <2>1 DEF RecordJob
    <3>2. vtc[j] = NoOutcome
      BY <3>1 DEF AgreementInv
    <3>3. \A k \in Jobs : k # j => ledger'[k] = ledger[k]
      BY <3>1 DEF TypeOK
    <3>4. ledger'[j].state = "queued"
      BY <3>1 DEF TypeOK
    <3>5. ~Finished(j) /\ ~Known(j)
      BY <3>1 DEF Known, Finished
    <3>6. OneResult'
      BY <3>1, <3>2, <3>3, <3>5 DEF OneResult, AgreementInv, Known, Finished, TypeOK, Messages
    <3>7. (\A k \in outbox : Finished(k))'
      BY <3>1, <3>3, <3>5 DEF AgreementInv, Finished, TypeOK
    <3>8. (\A n \in net : n.type = "job" /\ ~Known(n.job) => vtc[n.job] = NoOutcome)'
      BY <3>1, <3>3, <3>5 DEF AgreementInv, Known, TypeOK, Messages
    <3> QED BY <3>6, <3>7, <3>8 DEF AgreementInv
  <2>2. CASE BeginFails(j)
    BY <2>2, CloseKeepsAgreement DEF BeginFails, Outcomes
  <2>3. CASE AwaitPerson(j)
    <3>1. Known(j) /\ ~Finished(j)
      BY <2>3 DEF AwaitPerson, OwnershipInv, Owned, Known, Finished
    <3>2. ledger' = [ledger EXCEPT ![j] = [ledger[j] EXCEPT !.state = "waiting", !.next = TRUE]]
      BY <2>3 DEF AwaitPerson
    <3>3. ledger'[j].state = "waiting"
      BY <3>2 DEF TypeOK, Records
    <3>4. \A k \in Jobs : k # j => ledger'[k] = ledger[k]
      BY <3>2 DEF TypeOK
    <3>5. \A k \in Jobs : Finished(k) => Finished(k)' /\ ledger'[k].result = ledger[k].result
      BY <3>1, <3>4 DEF Finished
    <3>6. \A k \in Jobs : Known(k)' <=> Known(k)
      BY <3>1, <3>3, <3>4 DEF Known
    <3>7. \A k \in outbox' : k \in Jobs /\ Finished(k)'
      BY <2>3, <3>5 DEF AwaitPerson, AgreementInv, TypeOK
    <3>8. net' = net /\ vtc' = vtc
      BY <2>3 DEF AwaitPerson
    <3> QED BY <3>5, <3>6, <3>7, <3>8, AgreementQuiet
  <2>4. CASE RefuseJob(j) \/ StartWork(j) \/ BeginFlow(j) \/ RepeatJob(j) \/ JobIdReused(j)
    <3>1. UNCHANGED ledger /\ net' \subseteq net /\ UNCHANGED vtc
      BY <2>4 DEF RefuseJob, StartWork, BeginFlow, RepeatJob, JobIdReused, durable
    <3>2. \A k \in outbox' : k \in Jobs /\ Finished(k)
      BY <2>4 DEF RefuseJob, StartWork, BeginFlow, RepeatJob, JobIdReused, durable,
         AgreementInv, TypeOK
    <3> QED BY <3>1, <3>2, AgreementQuiet DEF Finished, Known
  <2> QED BY <1>1, <2>1, <2>2, <2>3, <2>4 DEF Handle
<1>2. ASSUME NEW j \in Jobs, Run(j) PROVE AgreementInv'
  <2>1. CASE ReadJob(j)
    BY <2>1, AgreementQuiet DEF ReadJob, durable, AgreementInv, Finished, Known, TypeOK
  <2>2. CASE StartRun(j)
    <3>1. Known(j) /\ ~Finished(j)
      BY <2>2 DEF StartRun, OwnershipInv, Owned, Known, Finished
    <3>2. ledger' = [ledger EXCEPT ![j] = [ledger[j] EXCEPT !.state = "running"]]
      BY <2>2 DEF StartRun
    <3>3. ledger'[j].state = "running"
      BY <3>2 DEF TypeOK, Records
    <3>4. \A k \in Jobs : k # j => ledger'[k] = ledger[k]
      BY <3>2 DEF TypeOK
    <3>5. \A k \in Jobs : Finished(k) => Finished(k)' /\ ledger'[k].result = ledger[k].result
      BY <3>1, <3>4 DEF Finished
    <3>6. \A k \in Jobs : Known(k)' <=> Known(k)
      BY <3>1, <3>3, <3>4 DEF Known
    <3>7. \A k \in outbox' : k \in Jobs /\ Finished(k)'
      BY <2>2, <3>5 DEF StartRun, AgreementInv, TypeOK
    <3>8. net' = net /\ vtc' = vtc
      BY <2>2 DEF StartRun
    <3> QED BY <3>5, <3>6, <3>7, <3>8, AgreementQuiet
  <2>3. ASSUME NEW r \in Outcomes, EndRun(j, r) PROVE AgreementInv'
    BY <2>3, CloseKeepsAgreement DEF EndRun
  <2> QED BY <1>2, <2>1, <2>2, <2>3 DEF Run
<1>3. ASSUME NEW j \in Jobs, Complete(j) \/ Poll(j) \/ Expire(j) PROVE AgreementInv'
  <2>1. CASE CallbackCloses(j) \/ PollCloses(j)
    BY <2>1, CloseKeepsAgreement DEF CallbackCloses, PollCloses, Outcomes
  <2>2. CASE ExpireJob(j) /\ ledger[j].state = "waiting"
    BY <2>2, CloseKeepsAgreement DEF ExpireJob, Outcomes
  <2>3. CASE CallbackBinds(j) \/ PollEnds(j) \/ PollDies(j) \/ ExpireFlow(j)
             \/ (ExpireJob(j) /\ ledger[j].state # "waiting")
    <3>1. UNCHANGED <<ledger, outbox, net, vtc>>
      BY <2>3 DEF CallbackBinds, PollEnds, PollDies, ExpireFlow, ExpireJob, durable
    <3> QED BY <3>1, AgreementQuiet DEF AgreementInv, Finished, Known, TypeOK
  <2> QED BY <1>3, <2>1, <2>2, <2>3 DEF Complete, Poll, Expire
<1>4. ASSUME NEW j \in Jobs, Person(j) \/ Lapse(j) \/ ClearOutbox(j) \/ VtcForgets(j)
      PROVE  AgreementInv'
  <2>1. UNCHANGED ledger /\ outbox' \subseteq outbox /\ net' \subseteq net
    BY <1>4 DEF Person, TakeFlow, TakeFlowAndBail, Lapse, ClearOutbox, VtcForgets, durable
  <2>2. \A k \in Jobs : vtc'[k] = vtc[k] \/ vtc'[k] = NoOutcome
    BY <1>4 DEF Person, TakeFlow, TakeFlowAndBail, Lapse, ClearOutbox, VtcForgets, TypeOK
  <2> QED BY <2>1, <2>2, AgreementQuiet DEF AgreementInv, Finished, Known, TypeOK
<1>5. ASSUME NEW j \in Jobs, SendResult(j) PROVE AgreementInv'
  <2>1. Finished(j)
    BY <1>5 DEF SendResult, AgreementInv
  <2> QED
    BY <1>5, <2>1 DEF SendResult, Result, durable, AgreementInv, OneResult, Finished, Known
<1>6. ASSUME NEW j \in Jobs, PruneJob(j) PROVE AgreementInv'
  <2>1. ledger'[j] = NoRecord /\ \A k \in Jobs : k # j => ledger'[k] = ledger[k]
    BY <1>6 DEF PruneJob, TypeOK
  <2>2. ~Known(j)'
    BY <2>1 DEF Known, NoRecord
  <2>3. OneResult'
    BY <1>6, <2>1, <2>2 DEF PruneJob, AgreementInv, OneResult, Finished, Known, TypeOK, Messages
  <2>4. (\A k \in outbox : Finished(k))'
    BY <1>6, <2>1 DEF PruneJob, AgreementInv, Finished, TypeOK
  <2>5. (\A n \in net : n.type = "job" /\ ~Known(n.job) => vtc[n.job] = NoOutcome)'
    BY <1>6, <2>1 DEF PruneJob, AgreementInv, Known, TypeOK, Messages
  <2> QED BY <2>3, <2>4, <2>5 DEF AgreementInv
<1>7. ASSUME NEW j \in Jobs, VtcSends(j) PROVE AgreementInv'
  BY <1>7 DEF VtcSends, Request, durable, AgreementInv, OneResult, Finished, Known
<1>8. ASSUME NEW j \in Jobs, VtcRecords(j) PROVE AgreementInv'
  <2>1. PICK m \in net : VtcRecords(j)!(m)
    BY <1>8 DEF VtcRecords
  <2>2. Finished(j) /\ m.result = ledger[j].result
    BY <2>1 DEF AgreementInv, OneResult
  <2>3. vtc'[j] \in {vtc[j], ledger[j].result} /\ \A k \in Jobs : k # j => vtc'[k] = vtc[k]
    BY <2>1, <2>2 DEF TypeOK
  <2>4. OneResult'
    BY <2>1, <2>2, <2>3 DEF Ack, durable, AgreementInv, OneResult, Finished, Known
  <2>5. (\A n \in net : n.type = "job" /\ ~Known(n.job) => vtc[n.job] = NoOutcome)'
    BY <2>1, <2>2, <2>3 DEF Ack, durable, AgreementInv, Finished, Known, TypeOK, Messages
  <2> QED BY <2>1, <2>4, <2>5 DEF durable, AgreementInv, Finished
<1>9. CASE Restart \/ LoseMessage \/ UNCHANGED vars
  <2>1. UNCHANGED <<ledger, outbox, vtc>> /\ net' \subseteq net
    BY <1>9 DEF Restart, LoseMessage, durable, vars
  <2> QED BY <2>1, AgreementQuiet DEF AgreementInv, Finished, Known, TypeOK
<1> QED
  BY <1>1, <1>2, <1>3, <1>4, <1>5, <1>6, <1>7, <1>8, <1>9 DEF Next, Outbox, Vtc

\* Ownership and agreement hold together, where no device poll is resumed.
LEMMA OwnershipAndAgreement ==
    ASSUME NoResumedPolls
    PROVE  Spec => [](TypeOK /\ DurabilityInv /\ OwnershipInv /\ AgreementInv)
<1>1. Init => OwnershipInv /\ AgreementInv
  BY DEF Init, Idle, NoRecord, OwnershipInv, Owned, AgreementInv, OneResult, Known, Finished
<1>2. TypeOK /\ TypeOK' /\ DurabilityInv /\ OwnershipInv /\ AgreementInv /\ [Next]_vars
        => OwnershipInv' /\ AgreementInv'
  BY OwnershipInductive, AgreementInductive
<1> QED BY <1>1, <1>2, TypeCorrect, DurabilityHolds, PTL DEF Spec

\* Exactly one result per job: every copy sent, and what the VTC holds, is the
\* ledger's, where no device poll is resumed after a restart.
THEOREM OneResultPerJob ==
    ASSUME NoResumedPolls
    PROVE  Spec => []OneResult
<1>1. AgreementInv => OneResult
  BY DEF AgreementInv
<1> QED BY <1>1, OwnershipAndAgreement, PTL

\* A job at work on the forge is one the ledger holds open, under the same
\* assumption.
THEOREM OnlyOpenJobsRun ==
    ASSUME NoResumedPolls
    PROVE  Spec => []RunsOnlyOpenJobs
<1>1. OwnershipInv => RunsOnlyOpenJobs
  BY DEF OwnershipInv, Owned, RunsOnlyOpenJobs
<1> QED BY <1>1, OwnershipAndAgreement, PTL

\* A finished job stays finished with its result until the VTC holds it
\* (finish_job closes a job once), under the same assumption.
THEOREM FinishedJobsAreFinal ==
    ASSUME NoResumedPolls
    PROVE  Spec => FinishedIsFinal
<1> DEFINE Final == \A j \in Jobs : Finished(j) =>
          \/ Finished(j)' /\ ledger'[j].result = ledger[j].result
          \/ ~Known(j)' /\ vtc[j] = ledger[j].result
<1>1. TypeOK /\ DurabilityInv /\ OwnershipInv /\ AgreementInv /\ [Next]_vars => [Final]_vars
  <2> SUFFICES ASSUME TypeOK, OwnershipInv, AgreementInv, [Next]_vars,
                      NEW j \in Jobs, Finished(j)
               PROVE  \/ Finished(j)' /\ ledger'[j].result = ledger[j].result
                      \/ ~Known(j)' /\ vtc[j] = ledger[j].result
    OBVIOUS
  <2>1. CASE PruneJob(j)
    BY <2>1 DEF PruneJob, NoRecord, Known, Finished, AgreementInv, OneResult, TypeOK
  <2>2. CASE ~PruneJob(j)
    BY <2>2, FinishedStep
  <2> QED BY <2>1, <2>2
<1> QED BY <1>1, OwnershipAndAgreement, PTL DEF Spec, FinishedIsFinal

----------------------------------------------------------------------------
(* The flows: whoever takes one takes it alone.                            *)

\* What FlowInv says of one job.
Settled(k) ==
    /\ Taken(k)
    /\ k \in linked => ledger[k].result \notin {"failed", "expired"}
    /\ Smooth /\ ledger[k].state = "waiting" =>
          \/ flow[k] # "none" \/ callback[k] # "none"
          \/ poll[k] \in {"linked", "denied", "timedOut"} \/ expiring = k

LEMMA FlowInvIsEachJobs ==
    ASSUME TypeOK
    PROVE  FlowInv <=> \A k \in Jobs : Settled(k)
<1>1. linked \subseteq Jobs
  BY DEF TypeOK
<1>2. FlowInv => \A k \in Jobs : Settled(k)
  BY DEF FlowInv, Settled, LinkedMeansOk, WaitingIsOwned
<1>3. (\A k \in Jobs : Settled(k)) => FlowInv
  BY <1>1 DEF FlowInv, Settled, LinkedMeansOk, WaitingIsOwned
<1> QED BY <1>2, <1>3

\* A step of another job's.
LEMMA FlowElsewhere ==
    ASSUME NEW k \in Jobs, Settled(k), UNCHANGED <<ledger[k], flow[k], callback[k], poll[k]>>,
           vtc[k] # NoOutcome => vtc'[k] # NoOutcome \/ Known(k),
           expiring' = k <=> expiring = k, k \in linked' <=> k \in linked,
           Smooth' => Smooth,
           \A at \in {"recorded", "flowPut"} :
              handler' = [at |-> at, job |-> k] => handler = [at |-> at, job |-> k]
    PROVE  Settled(k)'
<1>1. /\ handler' = [at |-> "recorded", job |-> k] => handler = [at |-> "recorded", job |-> k]
      /\ handler' = [at |-> "flowPut", job |-> k] => handler = [at |-> "flowPut", job |-> k]
  OBVIOUS
<1>2. Taken(k)'
  BY <1>1 DEF Settled, Taken, Known, Finished, IsFlow
<1> QED BY <1>2 DEF Settled

\* finish_job of a job whose flow is taken: whoever closes it says what became
\* of the link.
LEMMA CloseSettles ==
    ASSUME TypeOK, NEW j \in Jobs, Settled(j), NEW r \in Outcomes, Close(j, r),
           flow'[j] = flow[j], callback'[j] = "none", poll'[j] \in {"none", poll[j]},
           vtc'[j] = vtc[j], expiring' \in {expiring, NoJob}, linked' = linked,
           counts' = counts, handler' \in {handler, Idle},
           r \in {"failed", "expired"} => j \notin linked \/ Finished(j),
           flow[j] # "none" => ~ledger[j].next,
           handler' = [at |-> "recorded", job |-> j] => handler = [at |-> "recorded", job |-> j]
    PROVE  Settled(j)'
<1>1. CASE Known(j) /\ ~Finished(j)
  <2>1. ledger'[j].state = "finished" /\ ledger'[j].result = r /\ ledger'[j].next = ledger[j].next
    BY <1>1, CloseEffect
  <2>2. expiring' = j => expiring = j
    BY NoJobAssumption
  <2>3. handler' = [at |-> "flowPut", job |-> j] => handler = [at |-> "flowPut", job |-> j]
    BY DEF Idle
  <2>4. Taken(j)'
    BY <1>1, <2>1, <2>2, <2>3 DEF Settled, Taken, Known, Finished
  <2>5. j \in linked' => r \notin {"failed", "expired"}
    BY <1>1
  <2> QED BY <2>1, <2>4, <2>5 DEF Settled
<1>2. CASE ~(Known(j) /\ ~Finished(j))
  <2>1. UNCHANGED ledger
    BY <1>2, CloseEffect
  <2>2. ledger[j].state \in {"none", "finished"}
    BY <1>2 DEF Known, Finished
  <2>3. expiring' = j => expiring = j
    BY NoJobAssumption
  <2>4. handler' = [at |-> "flowPut", job |-> j] => handler = [at |-> "flowPut", job |-> j]
    BY DEF Idle
  <2>5. Taken(j)'
    BY <2>1, <2>2, <2>3, <2>4 DEF Settled, Taken, Known, Finished
  <2> QED BY <2>1, <2>2, <2>5 DEF Settled
<1> QED BY <1>1, <1>2

\* Every step of the handler keeps the flows to one taker.
LEMMA HandleSettles ==
    ASSUME TypeOK, TypeOK', DurabilityInv, OwnershipInv, AgreementInv, FlowInv,
           NEW j \in Jobs, Handle(j), NEW k \in Jobs
    PROVE  Settled(k)'
<1>1. Settled(k) /\ Settled(j) /\ Owned(k) /\ Owned(j)
  BY FlowInvIsEachJobs DEF OwnershipInv
<1>2. CASE RecordJob(j)
  <2>1. PICK m \in net : RecordJob(j)!(m)
    BY <1>2 DEF RecordJob
  <2>2. CASE k = j
    <3>1. ~Known(k) /\ vtc[k] = NoOutcome
      BY <2>1, <2>2 DEF AgreementInv
    <3>2. ledger'[k].state = "queued" /\ ledger'[k].result = NoOutcome /\ ~ledger'[k].next
      BY <2>1, <2>2 DEF TypeOK
    <3>3. flow[k] = "none" /\ expiring # k /\ callback[k] = "none" /\ k \notin linked
      BY <1>1, <3>1 DEF Settled, Taken, Known
    <3>4. handler' = [at |-> "recorded", job |-> k]
      BY <2>1, <2>2
    <3> QED
      BY <2>1, <3>2, <3>3, <3>4 DEF Settled, Taken, Known, Finished
  <2>3. CASE k # j
    BY <1>1, <2>1, <2>3, FlowElsewhere DEF TypeOK, Smooth
  <2> QED BY <2>2, <2>3
<1>3. CASE RefuseJob(j) \/ RepeatJob(j) \/ JobIdReused(j) \/ StartWork(j)
  <2>1. UNCHANGED <<ledger, flow, callback, poll, expiring, linked, vtc, counts>>
        /\ handler' \in {handler, Idle}
    BY <1>3 DEF RefuseJob, RepeatJob, JobIdReused, StartWork, durable, tasks
  <2> QED BY <1>1, <2>1, FlowElsewhere DEF Smooth, Idle
<1>4. CASE BeginFlow(j)
  <2>1. handler = [at |-> "recorded", job |-> j] /\ handler' = [at |-> "flowPut", job |-> j]
        /\ UNCHANGED <<ledger, callback, expiring, linked, vtc, counts>>
    BY <1>4 DEF BeginFlow
  <2>2. CASE k = j
    <3>1. flow'[k] = "open" /\ poll'[k] \in {"none", "polling"}
      BY <1>1, <1>4, <2>1, <2>2 DEF BeginFlow, TypeOK, Owned
    <3>2. ledger[k].state = "queued" /\ ~ledger[k].next
      BY <1>1, <2>1, <2>2 DEF Owned
    <3>3. expiring # k /\ callback[k] = "none" /\ k \notin linked
      BY <1>1, <2>1, <2>2, <3>2 DEF Settled, Taken, Known
    <3> QED
      BY <1>1, <2>1, <2>2, <3>1, <3>2, <3>3 DEF Settled, Taken, Known, Finished
  <2>3. CASE k # j
    <3>1. UNCHANGED <<ledger[k], flow[k], callback[k], poll[k]>>
      BY <1>4, <2>1, <2>3 DEF BeginFlow, TypeOK
    <3>2. handler'.job # k
      BY <2>1, <2>3
    <3> QED BY <1>1, <2>1, <3>1, <3>2, FlowElsewhere DEF Smooth
  <2> QED BY <2>2, <2>3
<1>5. CASE BeginFails(j)
  <2>1. handler.job = j /\ handler.at # "idle" /\ Close(j, "failed") /\ handler' = Idle
        /\ UNCHANGED <<flow, callback, poll, expiring, linked, vtc, counts>>
    BY <1>5 DEF BeginFails
  <2>2. CASE k = j
    <3>1. ledger[k].state = "queued" /\ ~ledger[k].next
      BY <1>1, <2>1, <2>2 DEF Owned
    <3>2. callback[k] = "none" /\ k \notin linked
      BY <1>1, <3>1 DEF Settled, Taken, Known
    <3> QED
      BY <1>1, <2>1, <2>2, <3>1, <3>2, CloseSettles DEF Outcomes, Idle
  <2>3. CASE k # j
    BY <1>1, <2>1, <2>3, CloseEffect, FlowElsewhere DEF Outcomes, Smooth, Idle
  <2> QED BY <2>2, <2>3
<1>6. CASE AwaitPerson(j)
  <2>1. ledger' = [ledger EXCEPT ![j] = [ledger[j] EXCEPT !.state = "waiting", !.next = TRUE]]
    BY <1>6 DEF AwaitPerson
  <2>2. handler = [at |-> "flowPut", job |-> j] /\ handler' = Idle
        /\ UNCHANGED <<flow, callback, poll, expiring, linked, vtc, counts>>
    BY <1>6 DEF AwaitPerson
  <2>3. CASE k = j
    <3>1. ledger[k] \in Records
      BY DEF TypeOK
    <3>2. ledger'[k].state = "waiting" /\ ledger'[k].next /\ ledger'[k].result = ledger[k].result
      BY <2>1, <2>3, <3>1 DEF TypeOK, Records
    <3>3. ledger[k].state = "queued" /\ flow[k] = "open"
      BY <1>1, <2>2, <2>3 DEF Owned, Settled, Taken
    <3>4. k \notin linked /\ ledger[k].result = NoOutcome
      BY <1>1, <3>3 DEF Settled, Taken, Finished, Known
    <3> QED
      BY <1>1, <2>2, <3>2, <3>3, <3>4 DEF Settled, Taken, Known, Finished, Idle
  <2>4. CASE k # j
    BY <1>1, <2>1, <2>2, <2>4, FlowElsewhere DEF TypeOK, Smooth, Idle
  <2> QED BY <2>3, <2>4
<1> QED BY <1>2, <1>3, <1>4, <1>5, <1>6 DEF Handle

\* So does every step of the worker, whose job waits for nobody.
LEMMA RunSettles ==
    ASSUME TypeOK, OwnershipInv, FlowInv, NEW j \in Jobs, Run(j), NEW k \in Jobs
    PROVE  Settled(k)'
<1>1. Settled(k) /\ Settled(j) /\ Owned(k) /\ Owned(j)
  BY FlowInvIsEachJobs DEF OwnershipInv
<1>2. UNCHANGED <<flow, handler, callback, poll, expiring, linked, vtc, counts>>
  BY DEF Run, ReadJob, StartRun, EndRun, durable
<1>3. CASE ReadJob(j)
  BY <1>1, <1>2, <1>3, FlowElsewhere DEF ReadJob, durable, Smooth
<1>4. CASE StartRun(j)
  <2>1. ledger' = [ledger EXCEPT ![j] = [ledger[j] EXCEPT !.state = "running"]]
    BY <1>4 DEF StartRun
  <2>2. ledger[j].state \in {"queued", "running"} /\ ~ledger[j].next
    BY <1>1, <1>4 DEF StartRun, Owned
  <2>3. CASE k = j
    <3>1. ledger[k] \in Records
      BY DEF TypeOK
    <3>2. ledger'[k].state = "running" /\ ledger'[k].result = ledger[k].result
          /\ ledger'[k].next = ledger[k].next
      BY <2>1, <2>3, <3>1 DEF TypeOK, Records
    <3> QED
      BY <1>1, <1>2, <2>2, <2>3, <3>2 DEF Settled, Taken, Known, Finished
  <2>4. CASE k # j
    BY <1>1, <1>2, <2>1, <2>4, FlowElsewhere DEF TypeOK, Smooth
  <2> QED BY <2>3, <2>4
<1>5. ASSUME NEW r \in Outcomes, EndRun(j, r) PROVE Settled(k)'
  <2>1. Close(j, r) /\ ledger[j].state \in {"queued", "running"} /\ ~ledger[j].next
    BY <1>1, <1>5 DEF EndRun, Owned
  <2>2. callback[j] = "none" /\ j \notin linked
    BY <1>1, <2>1 DEF Settled, Taken, Known
  <2>3. CASE k = j
    BY <1>1, <1>2, <2>1, <2>2, <2>3, CloseSettles
  <2>4. CASE k # j
    BY <1>1, <1>2, <2>1, <2>4, CloseEffect, FlowElsewhere DEF Smooth
  <2> QED BY <2>3, <2>4
<1> QED BY <1>3, <1>4, <1>5 DEF Run

\* So does every step of the person, the callback, the poll and the expiry
\* loop: each begins by deleting the flow.
LEMMA TakerSettles ==
    ASSUME TypeOK, TypeOK', OwnershipInv, FlowInv, NEW j \in Jobs, NEW k \in Jobs,
           Person(j) \/ Complete(j) \/ Poll(j) \/ Lapse(j) \/ Expire(j)
    PROVE  Settled(k)'
<1>1. Settled(k) /\ Settled(j) /\ Owned(k) /\ Owned(j)
  BY FlowInvIsEachJobs DEF OwnershipInv
<1>2. CASE TakeFlow(j)
  <2>1. UNCHANGED <<ledger, handler, poll, expiring, linked, vtc, counts>>
        /\ LinkGiven(j) /\ flow[j] = "open"
    BY <1>2 DEF TakeFlow
  <2>2. CASE k = j
    <3>1. flow'[k] = "none" /\ callback'[k] = "completing"
      BY <1>2, <2>2 DEF TakeFlow, TypeOK
    <3>2. ledger[k].state = "waiting" /\ expiring # k /\ k \notin linked
      BY <1>1, <2>1, <2>2 DEF LinkGiven, Settled, Taken
    <3>3. handler.at # "idle" => handler.job # k
      BY <1>1, <2>2, <3>2 DEF Owned
    <3> QED
      BY <1>1, <2>1, <2>2, <3>1, <3>2, <3>3 DEF LinkGiven, Settled, Taken, Known, Finished
  <2>3. CASE k # j
    BY <1>1, <1>2, <2>1, <2>3, FlowElsewhere DEF TakeFlow, TypeOK, Smooth
  <2> QED BY <2>2, <2>3
<1>3. CASE TakeFlowAndBail(j)
  <2>1. UNCHANGED <<ledger, handler, callback, poll, expiring, linked, vtc>>
        /\ LinkGiven(j) /\ flow' = [flow EXCEPT ![j] = "none"] /\ ~Smooth'
    BY <1>3 DEF TakeFlowAndBail, tasks, Smooth, TypeOK, Counts
  <2>2. CASE k = j
    <3>1. flow'[k] = "none"
      BY <2>1, <2>2 DEF TypeOK
    <3>2. handler.at # "idle" => handler.job # k
      BY <1>1, <2>1, <2>2 DEF Owned, LinkGiven
    <3> QED
      BY <1>1, <2>1, <2>2, <3>1, <3>2 DEF Settled, Taken, Known, Finished
  <2>3. CASE k # j
    BY <1>1, <2>1, <2>3, FlowElsewhere DEF TypeOK
  <2> QED BY <2>2, <2>3
<1>4. CASE CallbackBinds(j)
  <2>1. UNCHANGED <<ledger, flow, handler, poll, expiring, vtc, counts>>
        /\ callback[j] = "completing" /\ linked' = linked \cup {j}
    BY <1>4 DEF CallbackBinds, durable
  <2>2. CASE k = j
    <3>1. callback'[k] = "bound"
      BY <1>4, <2>2 DEF CallbackBinds, TypeOK
    <3>2. ledger[k].state = "waiting" /\ expiring # k /\ flow[k] = "none" /\ poll[k] = "none"
          /\ IsFlow(k) /\ ledger[k].result = NoOutcome
      BY <1>1, <2>1, <2>2 DEF Settled, Taken, Owned, IsFlow, Finished
    <3> QED
      BY <1>1, <2>1, <2>2, <3>1, <3>2 DEF Settled, Taken, Known, Finished, NoOutcome, IsFlow
  <2>3. CASE k # j
    BY <1>1, <1>4, <2>1, <2>3, FlowElsewhere DEF CallbackBinds, TypeOK, Smooth
  <2> QED BY <2>2, <2>3
<1>5. CASE CallbackCloses(j)
  <2>1. UNCHANGED <<flow, handler, poll, expiring, linked, vtc, counts>>
        /\ callback[j] \in {"completing", "bound"} /\ callback' = [callback EXCEPT ![j] = "none"]
    BY <1>5 DEF CallbackCloses
  <2>2. PICK r \in {"ok", "failed"} : Close(j, r) /\ (r = "failed" => callback[j] = "completing")
    BY <1>5, <2>1 DEF CallbackCloses
  <2>3. CASE k = j
    <3>1. flow[k] = "none" /\ (r = "failed" => k \notin linked) /\ callback'[k] = "none"
      BY <1>1, <2>1, <2>2, <2>3 DEF Settled, Taken, TypeOK
    <3> QED BY <1>1, <2>1, <2>2, <2>3, <3>1, CloseSettles DEF Outcomes
  <2>4. CASE k # j
    BY <1>1, <2>1, <2>2, <2>4, CloseEffect, FlowElsewhere DEF Outcomes, TypeOK, Smooth
  <2> QED BY <2>3, <2>4
<1>6. CASE PollEnds(j)
  <2>1. PICK r \in {"linked", "denied", "timedOut"} :
           /\ r = "linked" => flow[j] = "open"
           /\ poll' = [poll EXCEPT ![j] = r]
           /\ linked' = IF r = "linked" THEN linked \cup {j} ELSE linked
    BY <1>6 DEF PollEnds
  <2>2. UNCHANGED <<ledger, handler, callback, expiring, vtc, counts>>
        /\ poll[j] = "polling" /\ handler # [at |-> "flowPut", job |-> j]
        /\ flow' = [flow EXCEPT ![j] = "none"]
    BY <1>6 DEF PollEnds
  <2>3. CASE k = j
    <3>1. flow'[k] = "none" /\ poll'[k] = r
      BY <2>1, <2>2, <2>3 DEF TypeOK
    <3>2. ledger[k].next /\ k \notin linked /\ Kind[k] = "deviceLink"
      BY <1>1, <2>2, <2>3 DEF Settled, Taken, Owned
    <3>3. ledger[k].state \in {"waiting", "finished"} /\ callback[k] = "none"
      BY <1>1, <2>3, <3>2 DEF Settled, Taken, Owned
    <3>4. r = "linked" => ledger[k].state = "waiting" /\ ledger[k].result = NoOutcome
                          /\ expiring # k
      BY <1>1, <2>1, <2>3, <3>2 DEF Settled, Taken, Finished
    <3>5. k \in linked' => r = "linked"
      BY <2>1, <3>2
    <3>6. UNCHANGED <<ledger[k], callback[k], handler, expiring>>
          /\ handler # [at |-> "flowPut", job |-> k]
      BY <2>2, <2>3
    <3>7. Taken(k)'
      BY <1>1, <3>1, <3>2, <3>3, <3>4, <3>5, <3>6 DEF Settled, Taken, Known, Finished, IsFlow
    <3> QED
      BY <3>1, <3>4, <3>5, <3>6, <3>7 DEF Settled, NoOutcome
  <2>4. CASE k # j
    BY <1>1, <2>1, <2>2, <2>4, FlowElsewhere DEF TypeOK, Smooth
  <2> QED BY <2>3, <2>4
<1>7. CASE PollCloses(j)
  <2>1. UNCHANGED <<flow, handler, callback, expiring, linked, vtc, counts>>
        /\ poll[j] \in {"linked", "denied", "timedOut"} /\ poll' = [poll EXCEPT ![j] = "none"]
    BY <1>7 DEF PollCloses
  <2>2. PICK r \in {"ok", "failed", "expired"} : Close(j, r) /\ (r # "ok" => poll[j] # "linked")
    BY <1>7, <2>1 DEF PollCloses
  <2>3. CASE k = j
    <3>1. flow[k] = "none" /\ (r # "ok" => k \notin linked) /\ poll'[k] = "none"
          /\ callback[k] = "none"
      BY <1>1, <2>1, <2>2, <2>3 DEF Settled, Taken, Owned, TypeOK
    <3> QED BY <1>1, <2>1, <2>2, <2>3, <3>1, CloseSettles DEF Outcomes
  <2>4. CASE k # j
    BY <1>1, <2>1, <2>2, <2>4, CloseEffect, FlowElsewhere DEF Outcomes, TypeOK, Smooth
  <2> QED BY <2>3, <2>4
<1>8. CASE PollDies(j) \/ Lapse(j)
  <2>1. UNCHANGED <<ledger, handler, callback, expiring, linked, vtc, counts>>
    BY <1>8 DEF PollDies, Lapse, durable, tasks
  <2>2. CASE k = j
    <3>1. poll'[k] = poll[k] \/ (poll[k] = "polling" /\ poll'[k] = "none")
      BY <1>8, <2>2 DEF PollDies, Lapse, tasks, TypeOK
    <3>2. flow'[k] = flow[k]
          \/ (flow[k] = "open" /\ flow'[k] = "lapsed" /\ handler # [at |-> "flowPut", job |-> k])
      BY <1>8, <2>2 DEF PollDies, Lapse, durable, TypeOK
    <3> QED
      BY <1>1, <2>1, <3>1, <3>2 DEF Settled, Taken, Known, Finished, Smooth
  <2>3. CASE k # j
    BY <1>1, <1>8, <2>1, <2>3, FlowElsewhere DEF PollDies, Lapse, durable, tasks, TypeOK, Smooth
  <2> QED BY <2>2, <2>3
<1>9. CASE ExpireFlow(j)
  <2>1. UNCHANGED <<ledger, handler, callback, poll, linked, vtc, counts>> /\ flow[j] = "lapsed"
        /\ expiring = NoJob /\ expiring' = j /\ flow' = [flow EXCEPT ![j] = "none"]
    BY <1>9 DEF ExpireFlow
  <2>2. CASE k = j
    <3>1. flow'[k] = "none" /\ k \notin linked /\ callback[k] = "none" /\ Known(k)
      BY <1>1, <2>1, <2>2 DEF Settled, Taken, TypeOK
    <3>2. handler # [at |-> "flowPut", job |-> k] /\ handler # [at |-> "recorded", job |-> k]
      BY <1>1, <2>1, <2>2 DEF Settled, Taken
    <3> QED
      BY <1>1, <2>1, <2>2, <3>1, <3>2 DEF Settled, Taken, Known, Finished
  <2>3. CASE k # j
    BY <1>1, <2>1, <2>3, NoJobAssumption, FlowElsewhere DEF TypeOK, Smooth
  <2> QED BY <2>2, <2>3
<1>10. CASE ExpireJob(j)
  <2>1. UNCHANGED <<flow, handler, callback, poll, linked, vtc, counts>> /\ expiring = j
        /\ expiring' = NoJob
    BY <1>10 DEF ExpireJob
  <2>2. CASE ledger[j].state = "waiting"
    <3>1. Close(j, "expired")
      BY <1>10, <2>2 DEF ExpireJob
    <3>2. CASE k = j
      <4>1. flow[k] = "none" /\ k \notin linked /\ callback[k] = "none"
        BY <1>1, <2>1, <3>2 DEF Settled, Taken
      <4> QED BY <1>1, <2>1, <3>1, <3>2, <4>1, CloseSettles DEF Outcomes
    <3>3. CASE k # j
      BY <1>1, <2>1, <3>1, <3>3, NoJobAssumption, CloseEffect, FlowElsewhere DEF Outcomes, Smooth
    <3> QED BY <3>2, <3>3
  <2>3. CASE ledger[j].state # "waiting"
    <3>1. UNCHANGED ledger
      BY <1>10, <2>3 DEF ExpireJob
    <3> QED
      BY <1>1, <2>1, <2>3, <3>1, NoJobAssumption DEF Settled, Taken, Known, Finished, Smooth
  <2> QED BY <2>2, <2>3
<1> QED
  BY <1>2, <1>3, <1>4, <1>5, <1>6, <1>7, <1>8, <1>9, <1>10 DEF Person, Complete, Poll, Expire

\* So does every step, where no poll is resumed.
LEMMA FlowInductive ==
    ASSUME NoResumedPolls, TypeOK, TypeOK', DurabilityInv, OwnershipInv, AgreementInv,
           FlowInv, [Next]_vars
    PROVE  FlowInv'
<1> SUFFICES ASSUME NEW k \in Jobs PROVE Settled(k)'
  BY DEF FlowInv, Settled, LinkedMeansOk, WaitingIsOwned, TypeOK
<1>1. Settled(k) /\ Owned(k)
  BY FlowInvIsEachJobs DEF OwnershipInv
<1>2. ASSUME NEW j \in Jobs, Outbox(j) \/ VtcSends(j) \/ VtcRecords(j) \/ VtcForgets(j)
      PROVE  Settled(k)'
  <2>1. UNCHANGED <<ledger, flow, tasks, linked>> /\ (Smooth' => Smooth)
    BY <1>2 DEF Outbox, SendResult, ClearOutbox, VtcSends, VtcRecords, VtcForgets, durable,
       Smooth, TypeOK, Counts
  <2>2. vtc[k] # NoOutcome => vtc'[k] # NoOutcome \/ Known(k)
    BY <1>2 DEF Outbox, SendResult, ClearOutbox, VtcSends, VtcRecords, VtcForgets, TypeOK
  <2> QED BY <1>1, <2>1, <2>2, FlowElsewhere DEF tasks
<1>3. ASSUME NEW j \in Jobs, PruneJob(j) PROVE Settled(k)'
  <2>1. UNCHANGED <<flow, handler, callback, poll, expiring, linked, vtc, counts>>
    BY <1>3 DEF PruneJob, tasks
  <2>2. CASE k = j
    <3>1. ledger'[k].state = "none" /\ ledger'[k].result = NoOutcome /\ ~ledger'[k].next
      BY <1>3, <2>2 DEF PruneJob, NoRecord, TypeOK
    <3>2. flow[k] = "none" /\ callback[k] = "none" /\ poll[k] = "none" /\ expiring # k
          /\ vtc[k] # NoOutcome /\ handler.job # k
      BY <1>3, <2>2 DEF PruneJob
    <3> QED
      BY <1>1, <2>1, <3>1, <3>2 DEF Settled, Taken, Known, Finished, NoOutcome
  <2>3. CASE k # j
    BY <1>1, <1>3, <2>1, <2>3, FlowElsewhere DEF PruneJob, TypeOK, Smooth
  <2> QED BY <2>2, <2>3
<1>4. CASE Restart
  <2>1. UNCHANGED <<ledger, flow, linked, vtc>> /\ ~Smooth' /\ handler' = Idle
        /\ expiring' = NoJob /\ callback'[k] = "none"
    BY <1>4 DEF Restart, durable, Smooth, TypeOK, Counts
  <2>2. poll'[k] = "none"
    BY <1>4 DEF Restart, PollAgain, NoResumedPolls
  <2> QED
    BY <1>1, <2>1, <2>2, NoJobAssumption DEF Settled, Taken, Known, Finished, Idle
<1>5. CASE LoseMessage \/ UNCHANGED vars
  <2>1. UNCHANGED <<ledger, flow, tasks, linked, vtc>> /\ (Smooth' => Smooth)
    BY <1>5 DEF LoseMessage, vars, durable, tasks, Smooth, TypeOK, Counts
  <2> QED BY <1>1, <2>1, FlowElsewhere DEF tasks
<1> QED
  BY <1>2, <1>3, <1>4, <1>5, HandleSettles, RunSettles, TakerSettles DEF Next, Vtc

\* The flow, the job that waits for it and the worker that began it agree: a
\* link that took effect is not reported as failed, and a job that waits has
\* someone to end it, under the same assumption (flows.rs: take, poll_device,
\* expire).
THEOREM FlowsStayAgreed ==
    ASSUME NoResumedPolls
    PROVE  Spec => []FlowsAgree
<1>1. Init => FlowInv
  BY NoJobAssumption DEF Init, FlowInv, Taken, LinkedMeansOk, WaitingIsOwned, Idle, NoRecord,
     Known, Finished
<1>2. TypeOK /\ TypeOK' /\ DurabilityInv /\ OwnershipInv /\ AgreementInv /\ FlowInv
        /\ [Next]_vars => FlowInv'
  BY FlowInductive
<1>3. OwnershipInv /\ FlowInv => FlowsAgree
  BY DEF OwnershipInv, Owned, FlowInv, FlowsAgree, RunsOnlyOpenJobs
<1> QED BY <1>1, <1>2, <1>3, OwnershipAndAgreement, PTL DEF Spec

----------------------------------------------------------------------------
(* The ledger implements the job contract.                                 *)

\* A step that moves no job between the contract's phases, rewrites no result
\* and tells the VTC nothing is no step of the contract.
LEMMA ContractStutter ==
    ASSUME \A k \in Jobs : PhaseOf(k)' = PhaseOf(k) /\ ledger'[k].result = ledger[k].result,
           UNCHANGED vtc
    PROVE  UNCHANGED Contract!vars
BY DEF Contract!vars

\* Closing a job is the contract's Finish, or nothing.
LEMMA CloseFinishes ==
    ASSUME TypeOK, NEW j \in Jobs, NEW r \in Outcomes, Close(j, r), UNCHANGED vtc
    PROVE  [Contract!Next]_(Contract!vars)
<1>1. CASE Known(j) /\ ~Finished(j)
  <2>1. PhaseOf(j) = "accepted" /\ PhaseOf(j)' = "done" /\ ledger'[j].result = r
    BY <1>1, CloseEffect DEF PhaseOf, Finished
  <2>2. \A k \in Jobs : k # j => PhaseOf(k)' = PhaseOf(k) /\ ledger'[k] = ledger[k]
    BY CloseEffect DEF PhaseOf, Finished, Known
  <2>3. Contract!Finish(j, r)
    BY <2>1, <2>2 DEF Contract!Finish
  <2> QED BY <2>3 DEF Contract!Next
<1>2. CASE ~(Known(j) /\ ~Finished(j))
  BY <1>2, CloseEffect, ContractStutter DEF PhaseOf, Known, Finished
<1> QED BY <1>1, <1>2

\* Every step of the ledger is a step of the contract or leaves it alone.
LEMMA ContractStep ==
    ASSUME TypeOK, DurabilityInv, OwnershipInv, AgreementInv, [Next]_vars
    PROVE  [Contract!Next]_(Contract!vars)
<1>1. ASSUME NEW j \in Jobs, Handle(j) PROVE [Contract!Next]_(Contract!vars)
  <2>1. CASE RecordJob(j)
    <3>1. ~Known(j) /\ UNCHANGED vtc
      BY <2>1 DEF RecordJob
    <3>2. ledger'[j].state = "queued" /\ ledger'[j].result = NoOutcome
      BY <2>1 DEF RecordJob, TypeOK
    <3>3. \A k \in Jobs : k # j => ledger'[k] = ledger[k]
      BY <2>1 DEF RecordJob, TypeOK
    <3>4. ledger[j].result = NoOutcome
      BY <3>1 DEF DurabilityInv
    <3>5. PhaseOf(j) = "unknown" /\ PhaseOf(j)' = "accepted"
      BY <3>1, <3>2 DEF PhaseOf, Known, Finished
    <3>6. \A k \in Jobs : k # j => PhaseOf(k)' = PhaseOf(k)
      BY <3>3 DEF PhaseOf, Known, Finished
    <3>7. \A k \in Jobs : ledger'[k].result = ledger[k].result
      BY <3>2, <3>3, <3>4
    <3>8. Contract!Accept(j)
      BY <3>1, <3>5, <3>6, <3>7 DEF Contract!Accept
    <3> QED BY <3>8 DEF Contract!Next
  <2>2. CASE BeginFails(j)
    BY <2>2, CloseFinishes DEF BeginFails, Outcomes
  <2>3. CASE AwaitPerson(j)
    <3>1. ledger[j].state = "queued"
      BY <2>3 DEF AwaitPerson, OwnershipInv, Owned
    <3>2. ledger' = [ledger EXCEPT ![j] = [ledger[j] EXCEPT !.state = "waiting", !.next = TRUE]]
      BY <2>3 DEF AwaitPerson
    <3>3. ledger'[j].state = "waiting" /\ ledger'[j].result = ledger[j].result
      BY <3>2 DEF TypeOK, Records
    <3>4. \A k \in Jobs : k # j => ledger'[k] = ledger[k]
      BY <3>2 DEF TypeOK
    <3> QED BY <2>3, <3>1, <3>3, <3>4, ContractStutter DEF AwaitPerson, PhaseOf, Known, Finished
  <2>4. CASE RefuseJob(j) \/ StartWork(j) \/ BeginFlow(j) \/ RepeatJob(j) \/ JobIdReused(j)
    <3>1. UNCHANGED <<ledger, vtc>>
      BY <2>4 DEF RefuseJob, StartWork, BeginFlow, RepeatJob, JobIdReused, durable
    <3> QED BY <3>1, ContractStutter DEF PhaseOf, Known, Finished
  <2> QED BY <1>1, <2>1, <2>2, <2>3, <2>4 DEF Handle
<1>2. ASSUME NEW j \in Jobs, Run(j) PROVE [Contract!Next]_(Contract!vars)
  <2>1. CASE ReadJob(j)
    BY <2>1, ContractStutter DEF ReadJob, durable, PhaseOf, Known, Finished
  <2>2. CASE StartRun(j)
    <3>1. ledger[j].state \in {"queued", "running"}
      BY <2>2 DEF StartRun, OwnershipInv, Owned
    <3>2. ledger' = [ledger EXCEPT ![j] = [ledger[j] EXCEPT !.state = "running"]]
      BY <2>2 DEF StartRun
    <3>3. ledger'[j].state = "running" /\ ledger'[j].result = ledger[j].result
      BY <3>2 DEF TypeOK, Records
    <3>4. \A k \in Jobs : k # j => ledger'[k] = ledger[k]
      BY <3>2 DEF TypeOK
    <3> QED BY <2>2, <3>1, <3>3, <3>4, ContractStutter DEF StartRun, PhaseOf, Known, Finished
  <2>3. ASSUME NEW r \in Outcomes, EndRun(j, r) PROVE [Contract!Next]_(Contract!vars)
    BY <2>3, CloseFinishes DEF EndRun
  <2> QED BY <1>2, <2>1, <2>2, <2>3 DEF Run
<1>3. ASSUME NEW j \in Jobs, Complete(j) \/ Poll(j) \/ Expire(j)
      PROVE  [Contract!Next]_(Contract!vars)
  <2>1. CASE CallbackCloses(j) \/ PollCloses(j)
    BY <2>1, CloseFinishes DEF CallbackCloses, PollCloses, Outcomes
  <2>2. CASE ExpireJob(j) /\ ledger[j].state = "waiting"
    BY <2>2, CloseFinishes DEF ExpireJob, Outcomes
  <2>3. CASE CallbackBinds(j) \/ PollEnds(j) \/ PollDies(j) \/ ExpireFlow(j)
             \/ (ExpireJob(j) /\ ledger[j].state # "waiting")
    <3>1. UNCHANGED <<ledger, vtc>>
      BY <2>3 DEF CallbackBinds, PollEnds, PollDies, ExpireFlow, ExpireJob, durable
    <3> QED BY <3>1, ContractStutter DEF PhaseOf, Known, Finished
  <2> QED BY <1>3, <2>1, <2>2, <2>3 DEF Complete, Poll, Expire
<1>4. ASSUME NEW j \in Jobs, Person(j) \/ Lapse(j) \/ Outbox(j) \/ VtcSends(j)
      PROVE  [Contract!Next]_(Contract!vars)
  <2>1. UNCHANGED <<ledger, vtc>>
    BY <1>4 DEF Person, TakeFlow, TakeFlowAndBail, Lapse, Outbox, SendResult, ClearOutbox,
       VtcSends, durable
  <2> QED BY <2>1, ContractStutter DEF PhaseOf, Known, Finished
<1>5. ASSUME NEW j \in Jobs, PruneJob(j) PROVE [Contract!Next]_(Contract!vars)
  <2>1. ledger'[j] = NoRecord /\ \A k \in Jobs : k # j => ledger'[k] = ledger[k]
    BY <1>5 DEF PruneJob, TypeOK
  <2>2. PhaseOf(j) = "done" /\ PhaseOf(j)' = "unknown" /\ ledger'[j].result = NoOutcome
    BY <1>5, <2>1 DEF PruneJob, PhaseOf, Finished, Known, NoRecord
  <2>3. vtc[j] = ledger[j].result
    BY <1>5 DEF PruneJob, Known, Finished, AgreementInv, OneResult
  <2>4. \A k \in Jobs : k # j => PhaseOf(k)' = PhaseOf(k)
    BY <2>1 DEF PhaseOf, Finished, Known
  <2>5. [k \in Jobs |-> PhaseOf(k)]' = [[k \in Jobs |-> PhaseOf(k)] EXCEPT ![j] = "unknown"]
    BY <2>2, <2>4
  <2>6. [k \in Jobs |-> ledger[k].result]'
          = [[k \in Jobs |-> ledger[k].result] EXCEPT ![j] = NoOutcome]
    BY <2>1, <2>2
  <2>7. UNCHANGED vtc
    BY <1>5 DEF PruneJob
  <2>8. Contract!Forget(j)
    BY <2>2, <2>3, <2>5, <2>6, <2>7 DEF Contract!Forget
  <2> QED BY <2>8 DEF Contract!Next
<1>6. ASSUME NEW j \in Jobs, VtcRecords(j) PROVE [Contract!Next]_(Contract!vars)
  <2>1. PICK m \in net : VtcRecords(j)!(m)
    BY <1>6 DEF VtcRecords
  <2>2. Finished(j) /\ m.result = ledger[j].result /\ Known(j)
    BY <2>1 DEF AgreementInv, OneResult, Finished, Known
  <2>3. vtc' = [vtc EXCEPT ![j] = ledger[j].result]
    BY <2>1, <2>2 DEF AgreementInv, OneResult, TypeOK
  <2>4. UNCHANGED ledger
    BY <2>1 DEF durable
  <2>5. Contract!Hear(j)
    BY <2>2, <2>3, <2>4 DEF Contract!Hear, PhaseOf, Finished, Known
  <2> QED BY <2>5 DEF Contract!Next
<1>7. ASSUME NEW j \in Jobs, VtcForgets(j) PROVE [Contract!Next]_(Contract!vars)
  <2>1. Contract!Mislay(j)
    BY <1>7 DEF VtcForgets, durable, Contract!Mislay, PhaseOf, Finished, Known
  <2> QED BY <2>1 DEF Contract!Next
<1>8. CASE Restart \/ LoseMessage \/ UNCHANGED vars
  <2>1. UNCHANGED <<ledger, vtc>>
    BY <1>8 DEF Restart, LoseMessage, durable, vars
  <2> QED BY <2>1, ContractStutter DEF PhaseOf, Known, Finished
<1> QED
  BY <1>1, <1>2, <1>3, <1>4, <1>5, <1>6, <1>7, <1>8 DEF Next, Vtc

\* The ledger implements the job contract, under the same assumption.
THEOREM LedgerKeepsContract ==
    ASSUME NoResumedPolls
    PROVE  Spec => KeepsContract
<1>1. Init => Contract!Init
  BY DEF Init, Contract!Init, PhaseOf, Known, Finished, NoRecord
<1>2. TypeOK /\ DurabilityInv /\ OwnershipInv /\ AgreementInv /\ [Next]_vars
        => [Contract!Next]_(Contract!vars)
  BY ContractStep
<1> QED
  BY <1>1, <1>2, OwnershipAndAgreement, PTL DEF Spec, KeepsContract, Contract!Spec
=============================================================================
