------------------------- MODULE NamespaceLifeProofs -------------------------
(* What is proved of NamespaceLife, for every set of ids and repositories.  *)
EXTENDS NamespaceLife, FiniteSetTheorems, TLAPS

\* The bridge starts with an empty store and resting tasks: the initial values
\* are well typed.
LEMMA InitTypes == Init => TypeOK
<1> SUFFICES ASSUME Init PROVE TypeOK
  OBVIOUS
<1>1. NoSpace \in Spaces /\ Resting \in Binders /\ NoWork \in Works
      /\ Idle \in Loops /\ Swept \in Sweeps
  BY DEF NoSpace, Spaces, States, Resting, Binders, NoWork, Works, Idle, Loops, Swept,
         Sweeps
<1>2. plan \in [Moves -> Nat] /\ count \in [Moves -> Nat]
  BY PlanAssumption DEF Init
<1>3. binder \in [Names -> Binders] /\ \A n \in Names : binder[n].at # "taking"
  BY <1>1 DEF Init, Resting
<1>4. loop.at = "idle" /\ sweep.at = "idle" /\ loop \in Loops /\ sweep \in Sweeps
  BY <1>1 DEF Init, Idle, Swept
<1>5. space \in [Names -> Spaces] /\ work \in [Names -> Works]
  BY <1>1 DEF Init
<1> QED
  BY <1>2, <1>3, <1>4, <1>5 DEF Init, TypeOK, WorldOK, StoreOK, TasksOK, HistoryOK

\* What leaves the outbox, or is put anew, leaves the messages well typed.
LEMMA UnholdType ==
    ASSUME TypeOK, NEW gone, Unhold(gone)
    PROVE  docs' \subseteq Documents /\ answers' \subseteq answers
<1>1. ASSUME NEW d \in docs PROVE [d EXCEPT !.held = FALSE] \in Documents
  BY DEF TypeOK, WorldOK, StoreOK, TasksOK, HistoryOK, Documents
<1>2. docs \subseteq Documents
  BY DEF TypeOK, WorldOK, StoreOK, TasksOK, HistoryOK, Documents
<1> QED
  BY <1>1, <1>2 DEF Unhold, Matter

\* An entry queued is one of the bridge's entries.
LEMMA EntryType ==
    ASSUME TypeOK, NEW n \in Names
    PROVE  /\ RoleMap(n) \in Entries /\ Completed(n) \in Entries
           /\ Serves(n) \subseteq {RoleMap(n)}
<1>1. binder[n] \in Binders
  BY DEF TypeOK, WorldOK, StoreOK, TasksOK, HistoryOK
<1>2. binder[n].done \subseteq Names
  BY <1>1 DEF Binders
<1> QED
  BY <1>2 DEF RoleMap, Completed, Entries, Serves

LEMMA QueueType ==
    ASSUME TypeOK, NEW new \in SUBSET Entries, Queue(new)
    PROVE  outbox' \subseteq Entries /\ docs' \subseteq Documents /\ answers' \subseteq Answers
<1>1. docs' \subseteq Documents /\ answers' \subseteq answers
  BY UnholdType DEF Queue
<1> QED
  BY <1>1 DEF Queue, TypeOK, WorldOK, StoreOK, TasksOK, HistoryOK, Answers

LEMMA DropType ==
    ASSUME TypeOK, NEW gone, Drop(gone)
    PROVE  outbox' \subseteq Entries /\ docs' \subseteq Documents /\ answers' \subseteq Answers
<1>1. docs' \subseteq Documents /\ answers' \subseteq answers
  BY UnholdType DEF Drop
<1> QED
  BY <1>1 DEF Drop, TypeOK, WorldOK, StoreOK, TasksOK, HistoryOK, Answers

\* A move is counted, and the plan stays.
LEMMA HappensType ==
    ASSUME TypeOK, NEW m \in Moves, Happens(m)
    PROVE  plan' \in [Moves -> Nat] /\ count' \in [Moves -> Nat]
  BY DEF Happens, TypeOK, WorldOK, StoreOK, TasksOK, HistoryOK

\* Messages made stale are messages.
LEMMA StaleType ==
    ASSUME TypeOK, NEW n \in Names
    PROVE  Stale(docs, n) \subseteq Documents /\ Stale(answers, n) \subseteq Answers
<1>1. ASSUME NEW d \in docs PROVE [d EXCEPT !.fresh = FALSE] \in Documents
  BY DEF TypeOK, WorldOK, StoreOK, TasksOK, HistoryOK, Documents
<1>2. ASSUME NEW a \in answers PROVE [a EXCEPT !.fresh = FALSE] \in Answers
  BY DEF TypeOK, WorldOK, StoreOK, TasksOK, HistoryOK, Answers
<1>3. docs \subseteq Documents /\ answers \subseteq Answers
  BY DEF TypeOK, WorldOK, StoreOK, TasksOK, HistoryOK, Documents, Answers
<1> QED
  BY <1>1, <1>2, <1>3 DEF Stale

\* One bind's callback moves, and the other tasks stay.
LEMMA BinderPut ==
    ASSUME TypeOK, NEW n \in Names, NEW b \in Binders, b.at = "taking" => b.old \in Names,
           binder' = [binder EXCEPT ![n] = b],
           UNCHANGED <<loop, work, lock, sweep, reporter, sending>>
    PROVE  TasksOK'
  BY DEF TypeOK, TasksOK

\* One namespace's job and lock move.
LEMMA WorkPut ==
    ASSUME TypeOK, NEW n \in Names, NEW w \in Works, NEW l \in {"free", "job", "sweep"},
           work' = [work EXCEPT ![n] = w], lock' = [lock EXCEPT ![n] = l],
           UNCHANGED <<loop, binder, sweep, reporter, sending>>
    PROVE  TasksOK'
  BY DEF TypeOK, TasksOK

\* The document loop moves.
LEMMA LoopPut ==
    ASSUME TypeOK, loop' \in Loops, loop'.at # "idle" => loop'.ns \in Names,
           UNCHANGED <<binder, work, lock, sweep, reporter, sending>>
    PROVE  TasksOK'
  BY DEF TypeOK, TasksOK

\* The sweep and the locks move.
LEMMA SweepPut ==
    ASSUME TypeOK, sweep' \in Sweeps, sweep'.at = "deleting" => sweep'.ns \in Names,
           lock' \in [Names -> {"free", "job", "sweep"}],
           UNCHANGED <<loop, binder, work, reporter, sending>>
    PROVE  TasksOK'
  BY DEF TypeOK, TasksOK

\* One namespace's record is put.
LEMMA SpaceDue == ASSUME NEW s \in Spaces PROVE [s EXCEPT !.due = TRUE] \in Spaces
<1> DEFINE M == SUBSET Repos
<1>1. Spaces = [state : States, due : BOOLEAN, managed : M]
  BY DEF Spaces
<1> HIDE DEF M
<1> QED
  BY <1>1

LEMMA SpacePut ==
    ASSUME TypeOK, NEW n \in Names, NEW s \in Spaces, space' = [space EXCEPT ![n] = s]
    PROVE  space' \in [Names -> Spaces]
  BY DEF TypeOK, StoreOK

\* The document loop's resting state, and the sweep's, are states of theirs.
LEMMA RestingTypes ==
    /\ NoSpace \in Spaces /\ Resting \in Binders /\ NoWork \in Works
    /\ Idle \in Loops /\ Swept \in Sweeps
    /\ Resting.at = "resting" /\ Idle.at = "idle" /\ Swept.at = "idle"
  BY DEF NoSpace, Spaces, States, Resting, Binders, NoWork, Works, Idle, Loops, Swept,
         Sweeps

\* Every record, task and message is one of its kind.
LEMMA Parts ==
    ASSUME TypeOK, NEW n \in Names
    PROVE  /\ space[n] \in Spaces /\ binder[n] \in Binders /\ work[n] \in Works
           /\ lock[n] \in {"free", "job", "sweep"}
           /\ binder[n].at = "taking" => binder[n].old \in Names
  BY DEF TypeOK, StoreOK, TasksOK

\* Once a job is answered, the loop is idle or about to report the role map.
LEMMA AnswerType ==
    ASSUME TypeOK, loop.at # "idle", Answer
    PROVE  loop' \in Loops /\ (loop'.at # "idle" => loop'.ns \in Names)
<1>1. [loop EXCEPT !.at = "serve"] \in Loops /\ [loop EXCEPT !.at = "serve"].ns = loop.ns
  BY DEF TypeOK, TasksOK, Loops
<1> QED
  BY <1>1, RestingTypes DEF Answer, TypeOK, TasksOK

\* The sweep goes on to the next of its list.
LEMMA NextSweptType ==
    ASSUME TypeOK, NEW n
    PROVE  NextSwept(n) \in Sweeps /\ NextSwept(n).at # "deleting"
<1>1. [at |-> "next", ns |-> Nobody, left |-> sweep.left \ {n}] \in Sweeps
  BY DEF TypeOK, TasksOK, Sweeps
<1> QED
  BY <1>1, RestingTypes DEF NextSwept

\* Every move and every task keeps the types.
LEMMA TypeStep == TypeOK /\ [Next]_vars => TypeOK'
<1> SUFFICES ASSUME TypeOK, [Next]_vars PROVE TypeOK'
  OBVIOUS
<1> USE DEF TypeOK
<1>1. ASSUME NEW n \in Names, VtcBinds(n) PROVE TypeOK'
  BY <1>1, HappensType DEF VtcBinds, world, store, tasks, history, Calm, Moves,
       WorldOK, StoreOK, TasksOK, HistoryOK
<1>2. ASSUME NEW n \in Names, VtcWorks(n) PROVE TypeOK'
  BY <1>2, HappensType DEF VtcWorks, world, store, tasks, history, Calm, Moves,
       WorldOK, StoreOK, TasksOK, HistoryOK
<1>3. ASSUME NEW n \in Names, VtcLoses(n) PROVE TypeOK'
  BY <1>3, HappensType DEF VtcLoses, world, store, tasks, history, Calm, Moves,
       WorldOK, StoreOK, TasksOK, HistoryOK
<1>4. ASSUME NEW n \in Names, VtcRegains(n) PROVE TypeOK'
  BY <1>4, HappensType DEF VtcRegains, world, store, tasks, history, Calm, Moves,
       WorldOK, StoreOK, TasksOK, HistoryOK
<1>5. ASSUME NEW n \in Names, Expire(n) PROVE TypeOK'
  BY <1>5, HappensType DEF Expire, world, store, tasks, history, Calm, Moves, WorldOK,
       StoreOK, TasksOK, HistoryOK
<1>6. ASSUME NEW n \in Names, ReadRoleMap(n) PROVE TypeOK'
  BY <1>6, HappensType DEF ReadRoleMap, world, store, tasks, history, Calm, Moves,
       WorldOK, StoreOK, TasksOK, HistoryOK
<1>7. ASSUME NEW n \in Names, Callback(n) PROVE TypeOK'
  <2>1. WorldOK'
    BY <1>7, DropType DEF Callback, world, WorldOK
  <2>2. StoreOK'
    BY <1>7, DropType DEF Callback, store, StoreOK
  <2>3. TasksOK'
    <3>1. [Resting EXCEPT !.at = "proving"] \in Binders
      BY RestingTypes DEF Resting, Binders
    <3> QED BY <1>7, <3>1, BinderPut DEF Callback, Resting, world, store, tasks, history
  <2>4. HistoryOK'
    BY <1>7, HappensType DEF Callback, history, Calm, Moves, HistoryOK
  <2> QED BY <2>1, <2>2, <2>3, <2>4
<1>8. ASSUME NEW n \in Names, ProofFails(n) PROVE TypeOK'
  <2>1. WorldOK'
    BY <1>8, DropType DEF ProofFails, world, WorldOK
  <2>2. StoreOK'
    BY <1>8, DropType DEF ProofFails, store, StoreOK
  <2>3. TasksOK'
    BY <1>8, RestingTypes, BinderPut DEF ProofFails, world, store, tasks, history
  <2>4. HistoryOK'
    BY <1>8, HappensType DEF ProofFails, history, Calm, Moves, HistoryOK
  <2> QED BY <2>1, <2>2, <2>3, <2>4
<1>9. ASSUME NEW n \in Names, Proven(n) PROVE TypeOK'
  <2>1. WorldOK'
    BY <1>9, DropType DEF Proven, world, WorldOK
  <2>2. StoreOK'
    BY <1>9, DropType DEF Proven, store, StoreOK
  <2>3. TasksOK'
    <3>1. Earlier(n) \in SUBSET Names
      BY DEF Earlier, Serving
    <3>2. Pooled(n) \in SUBSET Repos
      BY Parts DEF Pooled, Earlier, Serving, Spaces
    <3>3. [Resting EXCEPT !.at = "moving", !.left = Earlier(n),
         !.managed = Pooled(n)] \in Binders
      BY <3>1, <3>2, RestingTypes DEF Resting, Binders
    <3> QED BY <1>9, <3>3, BinderPut DEF Proven, Resting, world, store, tasks, history
  <2>4. HistoryOK'
    <3>1. Earlier(n) \in SUBSET Names
      BY DEF Earlier, Serving
    <3> QED BY <1>9, <3>1 DEF Proven, history, Calm, HistoryOK, world, store, tasks,
         history
  <2> QED BY <2>1, <2>2, <2>3, <2>4
<1>10. ASSUME NEW n \in Names, NEW o \in Names, Retire(n, o) PROVE TypeOK'
  <2>1. WorldOK'
    BY <1>10, DropType DEF Retire, world, WorldOK
  <2>2. StoreOK'
    BY <1>10, DropType DEF Retire, store, StoreOK
  <2>3. TasksOK'
    <3>1. [binder[n] EXCEPT !.at = "taking", !.old = o] \in Binders
      <4>1. binder[n] \in Binders
        BY Parts
      <4> QED BY <4>1 DEF Binders
    <3>2. binder' = [binder EXCEPT ![n] = [binder[n] EXCEPT !.at = "taking", !.old = o]]
      BY <1>10 DEF Retire, TasksOK, world, store, tasks
    <3>3. [binder[n] EXCEPT !.at = "taking", !.old = o].old = o
      BY Parts DEF Binders
    <3> QED BY <1>10, <3>1, <3>2, <3>3, BinderPut DEF Retire, world, store, tasks,
         history
  <2>4. HistoryOK'
    BY <1>10, HappensType DEF Retire, history, Calm, Moves, HistoryOK
  <2> QED BY <2>1, <2>2, <2>3, <2>4
<1>11. ASSUME NEW n \in Names, TakeOver(n) PROVE TypeOK'
  <2>1. WorldOK'
    BY <1>11, DropType DEF TakeOver, world, WorldOK
  <2>2. StoreOK'
    <3>1. binder[n].old \in Names
      BY <1>11, Parts DEF TakeOver, world, store, tasks
    <3>2. space' \in [Names -> Spaces]
      BY <1>11, <3>1, RestingTypes, SpacePut DEF TakeOver, world, store, tasks
    <3>3. outbox' \subseteq Entries
      BY <1>11, DropType DEF TakeOver, world, store, tasks
    <3> QED BY <1>11, <3>2, <3>3 DEF TakeOver, StoreOK, world, store, tasks, history
  <2>3. TasksOK'
    <3>1. binder[n].old \in Names
      BY <1>11, Parts DEF TakeOver, world, store, tasks
    <3>2. [binder[n] EXCEPT !.at = "moving", !.left = @ \ {binder[n].old},
         !.old = Nobody, !.done = @ \cup {binder[n].old}] \in Binders
      <4>1. binder[n] \in Binders /\ binder[n].old \in Names
        BY <3>1, Parts
      <4> QED BY <4>1 DEF Binders
    <3>3. binder' = [binder EXCEPT ![n] = [binder[n] EXCEPT !.at = "moving",
         !.left = @ \ {binder[n].old}, !.old = Nobody, !.done = @ \cup {binder[n].old}]]
      BY <1>11 DEF TakeOver, TasksOK, world, store, tasks
    <3>4. [binder[n] EXCEPT !.at = "moving", !.left = @ \ {binder[n].old},
         !.old = Nobody, !.done = @ \cup {binder[n].old}].at = "moving"
      BY Parts DEF Binders
    <3> QED BY <1>11, <3>2, <3>3, <3>4, BinderPut DEF TakeOver, world, store, tasks,
         history
  <2>4. HistoryOK'
    <3>1. binder[n].old \in Names
      BY <1>11, Parts DEF TakeOver, world, store, tasks
    <3> QED BY <1>11, <3>1 DEF TakeOver, Calm, HistoryOK, world, store, tasks, history
  <2> QED BY <2>1, <2>2, <2>3, <2>4
<1>12. ASSUME NEW n \in Names, PutBound(n) PROVE TypeOK'
  <2>1. WorldOK'
    BY <1>12, DropType DEF PutBound, world, WorldOK
  <2>2. StoreOK'
    <3>1. [state |-> "bound", due |-> FALSE, managed |-> binder[n].managed] \in Spaces
      BY Parts DEF Binders, Spaces, States
    <3>2. space' \in [Names -> Spaces]
      BY <1>12, <3>1, SpacePut DEF PutBound, world, store, tasks
    <3> QED BY <1>12, <3>2 DEF PutBound, StoreOK, world, store, tasks, history
  <2>3. TasksOK'
    <3>1. [binder[n] EXCEPT !.at = "telling", !.managed = {}] \in Binders
         /\ [binder[n] EXCEPT !.at = "telling", !.managed = {}].at = "telling"
      <4>1. binder[n] \in Binders
        BY Parts
      <4> QED BY <4>1 DEF Binders
    <3>2. binder' = [binder EXCEPT ![n] = [binder[n] EXCEPT !.at = "telling",
         !.managed = {}]]
      BY <1>12 DEF PutBound, TasksOK, world, store, tasks
    <3> QED BY <1>12, <3>1, <3>2, BinderPut DEF PutBound, world, store, tasks, history
  <2>4. HistoryOK'
    BY <1>12, HappensType DEF PutBound, history, Calm, Moves, HistoryOK
  <2> QED BY <2>1, <2>2, <2>3, <2>4
<1>13. ASSUME NEW n \in Names, Tell(n) PROVE TypeOK'
  <2>1. WorldOK'
    <3>1. ((IF Orphaned(n) THEN {} ELSE {Completed(n)}) \cup Serves(n)) \in SUBSET Entries
      BY EntryType
    <3> QED BY <1>13, <3>1, QueueType DEF Tell, WorldOK, world, store, tasks, history
  <2>2. StoreOK'
    <3>1. ((IF Orphaned(n) THEN {} ELSE {Completed(n)}) \cup Serves(n)) \in SUBSET Entries
      BY EntryType
    <3> QED BY <1>13, <3>1, QueueType DEF Tell, StoreOK, world, store, tasks, history
  <2>3. TasksOK'
    BY <1>13, RestingTypes, BinderPut DEF Tell, world, store, tasks, history
  <2>4. HistoryOK'
    BY <1>13, HappensType DEF Tell, history, Calm, Moves, HistoryOK
  <2> QED BY <2>1, <2>2, <2>3, <2>4
<1>14. ASSUME NEW n \in Names, StartWork(n) PROVE TypeOK'
  <2>1. WorldOK'
    BY <1>14, DropType DEF StartWork, world, WorldOK
  <2>2. StoreOK'
    BY <1>14, DropType DEF StartWork, store, StoreOK
  <2>3. TasksOK'
    <3>1. CASE Bound(n)
      <4>1. [work[n] EXCEPT !.at = "acting"] \in Works
        BY Parts DEF Works
      <4>2. work' = [work EXCEPT ![n] = [work[n] EXCEPT !.at = "acting"]]
        BY <1>14, <3>1 DEF StartWork, TasksOK
      <4> QED BY <1>14, <3>1, <4>1, <4>2, WorkPut DEF StartWork
    <3>2. CASE ~Bound(n)
      <4>1. work' = [work EXCEPT ![n] = NoWork] /\ lock' = lock
        BY <1>14, <3>2 DEF StartWork, TasksOK
      <4>2. lock' = [lock EXCEPT ![n] = lock[n]]
        BY <4>1 DEF TasksOK
      <4> QED BY <1>14, <4>1, <4>2, RestingTypes, Parts, WorkPut DEF StartWork
    <3> QED BY <3>1, <3>2
  <2>4. HistoryOK'
    BY <1>14, HappensType DEF StartWork, history, Calm, Moves, HistoryOK
  <2> QED BY <2>1, <2>2, <2>3, <2>4
<1>15. ASSUME NEW n \in Names, Record(n) PROVE TypeOK'
  <2>1. WorldOK'
    BY <1>15, DropType DEF Record, world, WorldOK
  <2>2. StoreOK'
    BY <1>15, DropType DEF Record, store, StoreOK
  <2>3. TasksOK'
    <3>1. [work[n] EXCEPT !.at = "noting"] \in Works
      BY Parts DEF Works
    <3>2. work' = [work EXCEPT ![n] = [work[n] EXCEPT !.at = "noting"]]
      BY <1>15 DEF Record, TasksOK, world, store, tasks
    <3>3. lock' = [lock EXCEPT ![n] = lock[n]]
      BY <1>15 DEF Record, TasksOK, world, store, tasks
    <3> QED BY <1>15, <3>1, <3>2, <3>3, Parts, WorkPut DEF Record, world, store, tasks,
         history
  <2>4. HistoryOK'
    BY <1>15, HappensType DEF Record, history, Calm, Moves, HistoryOK
  <2> QED BY <2>1, <2>2, <2>3, <2>4
<1>16. ASSUME NEW n \in Names, Manage(n) PROVE TypeOK'
  <2>1. WorldOK'
    BY <1>16, DropType DEF Manage, world, WorldOK
  <2>2. StoreOK'
    <3>1. [space[n] EXCEPT !.managed = @ \cup work[n].repos] \in Spaces
      BY Parts DEF Spaces, Works
    <3>2. space' = space
         \/ space' = [space EXCEPT ![n] = [space[n] EXCEPT !.managed = @ \cup work[n].repos]]
      BY <1>16 DEF Manage, StoreOK, world, store, tasks
    <3>3. space' \in [Names -> Spaces]
      BY <3>1, <3>2, SpacePut DEF StoreOK
    <3> QED BY <1>16, <3>3 DEF Manage, StoreOK, world, store, tasks, history
  <2>3. TasksOK'
    <3>1. [work[n] EXCEPT !.at = "dead"] \in Works
      BY Parts DEF Works
    <3>2. work' = [work EXCEPT ![n] = [work[n] EXCEPT !.at = "dead"]]
         \/ work' = [work EXCEPT ![n] = NoWork]
      BY <1>16 DEF Manage, TasksOK, world, store, tasks
    <3> QED BY <1>16, <3>1, <3>2, RestingTypes, WorkPut DEF Manage, world, store,
         tasks, history
  <2>4. HistoryOK'
    BY <1>16, HappensType DEF Manage, history, Calm, Moves, HistoryOK
  <2> QED BY <2>1, <2>2, <2>3, <2>4
<1>17. ASSUME NEW n \in Names, RetentionPasses(n) PROVE TypeOK'
  <2>1. WorldOK'
    BY <1>17, DropType DEF RetentionPasses, world, WorldOK
  <2>2. StoreOK'
    <3>1. [space[n] EXCEPT !.due = TRUE] \in Spaces
      BY Parts, SpaceDue
    <3>2. space' = [space EXCEPT ![n] = [space[n] EXCEPT !.due = TRUE]]
      BY <1>17 DEF RetentionPasses, StoreOK, world, store, tasks
    <3>3. space' \in [Names -> Spaces]
      BY <3>1, <3>2, SpacePut
    <3> QED BY <1>17, <3>3 DEF RetentionPasses, StoreOK, world, store, tasks, history
  <2>3. TasksOK'
    BY <1>17 DEF RetentionPasses, tasks, TasksOK
  <2>4. HistoryOK'
    BY <1>17, HappensType DEF RetentionPasses, history, Calm, Moves, HistoryOK
  <2> QED BY <2>1, <2>2, <2>3, <2>4
<1>18. ASSUME NEW d \in docs, VtcHears(d) PROVE TypeOK'
  <2>1. WorldOK'
    <3>1. d.entry \in Entries /\ d.fresh \in BOOLEAN
      BY DEF WorldOK, Documents
    <3>2. d.entry.names \subseteq Names
      BY <3>1 DEF Entries
    <3>3. ASSUME NEW c \in {"ok", "unknownNamespace", "refused"} PROVE Reply(d,
         c) \subseteq Answers
      BY <3>1 DEF Reply, WorldOK, Answers
    <3>4. answers' \subseteq Answers
      BY <1>18, <3>3 DEF VtcHears, world, store, tasks
    <3> QED BY <1>18, <3>2, <3>4 DEF VtcHears, WorldOK, world, store, tasks, history
  <2>2. StoreOK'
    BY <1>18, DropType DEF VtcHears, store, StoreOK
  <2>3. TasksOK'
    BY <1>18 DEF VtcHears, tasks, TasksOK
  <2>4. HistoryOK'
    BY <1>18, HappensType DEF VtcHears, history, Calm, Moves, HistoryOK
  <2> QED BY <2>1, <2>2, <2>3, <2>4
<1>19. ASSUME NEW j \in asked, TakeJob(j) PROVE TypeOK'
  <2>1. WorldOK'
    <3>1. j.ns \in Names
      BY DEF WorldOK
    <3>2. docs' \subseteq Documents /\ answers' \subseteq Answers
      BY <1>19, <3>1, StaleType DEF TakeJob, WorldOK, world, store, tasks
    <3> QED BY <1>19, <3>2 DEF TakeJob, WorldOK, world, store, tasks, history
  <2>2. StoreOK'
    <3>1. j.ns \in Names
      BY DEF WorldOK
    <3>2. [space[j.ns] EXCEPT !.state = "bound", !.due = FALSE] \in Spaces
      <4>1. space[j.ns] \in Spaces
        BY <3>1, Parts
      <4> QED BY <4>1 DEF Spaces, States
    <3>3. space' = space
         \/ space' = [space EXCEPT ![j.ns] = [space[j.ns] EXCEPT !.state = "bound",
         !.due = FALSE]]
      BY <1>19, <3>1 DEF TakeJob, StoreOK, world, store, tasks
    <3>4. space' \in [Names -> Spaces]
      BY <3>1, <3>2, <3>3, SpacePut DEF StoreOK
    <3> QED BY <1>19, <3>4 DEF TakeJob, StoreOK, world, store, tasks, history
  <2>3. TasksOK'
    <3>1. j.ns \in Names /\ j.kind \in {"bind", "work"}
      BY DEF WorldOK
    <3>2. loop' \in Loops /\ loop'.ns \in Names
      BY <1>19, <3>1 DEF TakeJob, Loops, Orphaned, world, store, tasks
    <3> QED BY <1>19, <3>2, LoopPut DEF TakeJob, world, store, tasks, history
  <2>4. HistoryOK'
    BY <1>19, HappensType DEF TakeJob, history, Calm, Moves, HistoryOK
  <2> QED BY <2>1, <2>2, <2>3, <2>4
<1>20. ASSUME NEW a \in answers, TakeAnswer(a) PROVE TypeOK'
  <2>1. WorldOK'
    <3>1. docs' \subseteq Documents /\ answers' \subseteq Answers
      BY <1>20, DropType DEF TakeAnswer, WorldOK, world, store, tasks
    <3> QED BY <1>20, <3>1 DEF TakeAnswer, WorldOK, world, store, tasks, history
  <2>2. StoreOK'
    <3>1. a.entry.ns \in Names
      BY DEF WorldOK, Answers, Entries
    <3>2. [space[a.entry.ns] EXCEPT !.state = "orphaned", !.due = FALSE] \in Spaces
      <4>1. space[a.entry.ns] \in Spaces
        BY <3>1, Parts
      <4> QED BY <4>1 DEF Spaces, States
    <3>3. space' = space
         \/ space' = [space EXCEPT ![a.entry.ns] = [space[a.entry.ns] EXCEPT !.state = "orphaned", !.due = FALSE]]
      BY <1>20, <3>1 DEF TakeAnswer, StoreOK, world, store, tasks
    <3>4. space' \in [Names -> Spaces]
      BY <3>1, <3>2, <3>3, SpacePut DEF StoreOK
    <3>5. outbox' \subseteq Entries
      BY <1>20, DropType DEF TakeAnswer, StoreOK, world, store, tasks
    <3> QED BY <1>20, <3>4, <3>5 DEF TakeAnswer, StoreOK, world, store, tasks, history
  <2>3. TasksOK'
    <3>1. a.entry.ns \in Names
      BY DEF WorldOK, Answers, Entries
    <3>2. [Idle EXCEPT !.at = "drop", !.ns = a.entry.ns] \in Loops
         /\ [Idle EXCEPT !.at = "drop", !.ns = a.entry.ns].ns = a.entry.ns
      BY <3>1 DEF Idle, Loops
    <3>3. loop' \in Loops /\ (loop'.at # "idle" => loop'.ns \in Names)
      BY <1>20, <3>1, <3>2 DEF TakeAnswer, TasksOK, world, store, tasks
    <3> QED BY <1>20, <3>3, LoopPut DEF TakeAnswer, world, store, tasks, history
  <2>4. HistoryOK'
    BY <1>20, HappensType DEF TakeAnswer, history, Calm, Moves, HistoryOK
  <2> QED BY <2>1, <2>2, <2>3, <2>4
<1>21. ASSUME BeginBind PROVE TypeOK'
  <2>1. WorldOK'
    BY <1>21, DropType DEF BeginBind, world, WorldOK
  <2>2. StoreOK'
    <3>1. loop.ns \in Names
      BY <1>21 DEF BeginBind, TasksOK, world, store, tasks
    <3>2. [space[loop.ns] EXCEPT !.state = "pending"] \in Spaces
      BY <3>1, Parts DEF Spaces, States
    <3>3. space' = space
         \/ space' = [space EXCEPT ![loop.ns] = [space[loop.ns] EXCEPT !.state = "pending"]]
      BY <1>21, <3>1 DEF BeginBind, StoreOK, world, store, tasks
    <3>4. space' \in [Names -> Spaces]
      BY <3>1, <3>2, <3>3, SpacePut DEF StoreOK
    <3> QED BY <1>21, <3>1, <3>4 DEF BeginBind, StoreOK, world, store, tasks, history
  <2>3. TasksOK'
    BY <1>21, AnswerType, LoopPut DEF BeginBind, world, store, tasks, history
  <2>4. HistoryOK'
    BY <1>21, HappensType DEF BeginBind, history, Calm, Moves, HistoryOK
  <2> QED BY <2>1, <2>2, <2>3, <2>4
<1>22. ASSUME AdmitWork PROVE TypeOK'
  <2>1. WorldOK'
    BY <1>22, DropType DEF AdmitWork, world, WorldOK
  <2>2. StoreOK'
    BY <1>22, DropType DEF AdmitWork, store, StoreOK
  <2>3. TasksOK'
    <3>1. loop.ns \in Names
      BY <1>22 DEF AdmitWork, TasksOK, world, store, tasks
    <3>2. work' \in [Names -> Works]
      BY <1>22, <3>1 DEF AdmitWork, Works, TasksOK, world, store, tasks
    <3>3. loop' \in Loops /\ (loop'.at # "idle" => loop'.ns \in Names)
      BY <1>22, AnswerType DEF AdmitWork, world, store, tasks
    <3> QED BY <1>22, <3>2, <3>3 DEF AdmitWork, TasksOK, world, store, tasks, history
  <2>4. HistoryOK'
    BY <1>22, HappensType DEF AdmitWork, history, Calm, Moves, HistoryOK
  <2> QED BY <2>1, <2>2, <2>3, <2>4
<1>23. ASSUME ServeAgain PROVE TypeOK'
  <2>1. WorldOK'
    <3>1. Serves(loop.ns) \in SUBSET Entries
      BY <1>23, EntryType DEF ServeAgain, TasksOK, world, store, tasks
    <3> QED BY <1>23, <3>1, QueueType DEF ServeAgain, WorldOK, world, store, tasks,
         history
  <2>2. StoreOK'
    <3>1. Serves(loop.ns) \in SUBSET Entries
      BY <1>23, EntryType DEF ServeAgain, TasksOK, world, store, tasks
    <3> QED BY <1>23, <3>1, QueueType DEF ServeAgain, StoreOK, world, store, tasks,
         history
  <2>3. TasksOK'
    BY <1>23, RestingTypes, LoopPut DEF ServeAgain, world, store, tasks, history
  <2>4. HistoryOK'
    BY <1>23, HappensType DEF ServeAgain, history, Calm, Moves, HistoryOK
  <2> QED BY <2>1, <2>2, <2>3, <2>4
<1>24. ASSUME DropWaiting PROVE TypeOK'
  <2>1. WorldOK'
    BY <1>24, DropType DEF DropWaiting, world, WorldOK
  <2>2. StoreOK'
    BY <1>24, DropType DEF DropWaiting, store, StoreOK
  <2>3. TasksOK'
    BY <1>24, RestingTypes, LoopPut DEF DropWaiting, world, store, tasks, history
  <2>4. HistoryOK'
    BY <1>24, HappensType DEF DropWaiting, history, Calm, Moves, HistoryOK
  <2> QED BY <2>1, <2>2, <2>3, <2>4
<1>25. ASSUME NEW e \in outbox, PickEntry(e) PROVE TypeOK'
  <2>1. WorldOK'
    BY <1>25, DropType DEF PickEntry, WorldOK, world, store, tasks, history
  <2>2. StoreOK'
    BY <1>25, DropType DEF PickEntry, StoreOK, world, store, tasks, history
  <2>3. TasksOK'
    <3>1. sending' \subseteq Entries
      BY <1>25 DEF PickEntry, StoreOK, TasksOK, world, store, tasks
    <3> QED BY <1>25, <3>1 DEF PickEntry, TasksOK, world, store, tasks, history
  <2>4. HistoryOK'
    BY <1>25, HappensType DEF PickEntry, history, Calm, Moves, HistoryOK
  <2> QED BY <2>1, <2>2, <2>3, <2>4
<1>26. ASSUME NEW e \in sending, SendEntry(e) PROVE TypeOK'
  <2>1. WorldOK'
    <3>1. [entry |-> e, held |-> e \in outbox, fresh |-> TRUE] \in Documents
      BY DEF TasksOK, Documents
    <3>2. docs' \subseteq Documents
      BY <1>26, <3>1 DEF SendEntry, Matter, WorldOK, world, store, tasks
    <3> QED BY <1>26, <3>2 DEF SendEntry, WorldOK, world, store, tasks, history
  <2>2. StoreOK'
    BY <1>26, DropType DEF SendEntry, store, StoreOK
  <2>3. TasksOK'
    BY <1>26 DEF SendEntry, tasks, TasksOK
  <2>4. HistoryOK'
    BY <1>26, HappensType DEF SendEntry, history, Calm, Moves, HistoryOK
  <2> QED BY <2>1, <2>2, <2>3, <2>4
<1>27. ASSUME StartSweep PROVE TypeOK'
  <2>1. WorldOK'
    BY <1>27, DropType DEF StartSweep, world, WorldOK
  <2>2. StoreOK'
    BY <1>27, DropType DEF StartSweep, store, StoreOK
  <2>3. TasksOK'
    <3>1. Overdue \in SUBSET Names
      BY DEF Overdue
    <3>2. sweep' \in Sweeps /\ sweep'.at = "next"
      BY <1>27, <3>1 DEF StartSweep, Sweeps, world, store, tasks
    <3>3. lock' = lock
      BY <1>27 DEF StartSweep, world, store, tasks
    <3> QED BY <1>27, <3>2, <3>3, SweepPut DEF StartSweep, TasksOK, world, store,
         tasks, history
  <2>4. HistoryOK'
    BY <1>27, HappensType DEF StartSweep, history, Calm, Moves, HistoryOK
  <2> QED BY <2>1, <2>2, <2>3, <2>4
<1>28. ASSUME NEW n \in Names, CheckForgotten(n) PROVE TypeOK'
  <2>1. WorldOK'
    BY <1>28, DropType DEF CheckForgotten, world, WorldOK
  <2>2. StoreOK'
    BY <1>28, DropType DEF CheckForgotten, store, StoreOK
  <2>3. TasksOK'
    <3>1. [sweep EXCEPT !.at = "deleting", !.ns = n] \in Sweeps
         /\ [sweep EXCEPT !.at = "deleting", !.ns = n].ns = n
      BY DEF TasksOK, Sweeps
    <3>2. sweep' \in Sweeps /\ (sweep'.at = "deleting" => sweep'.ns \in Names)
      BY <1>28, <3>1, NextSweptType DEF CheckForgotten, world, store, tasks
    <3>3. lock' \in [Names -> {"free", "job", "sweep"}]
      BY <1>28 DEF CheckForgotten, TasksOK, world, store, tasks
    <3> QED BY <1>28, <3>2, <3>3, SweepPut DEF CheckForgotten, world, store, tasks,
         history
  <2>4. HistoryOK'
    BY <1>28, HappensType DEF CheckForgotten, history, Calm, Moves, HistoryOK
  <2> QED BY <2>1, <2>2, <2>3, <2>4
<1>29. ASSUME Forget PROVE TypeOK'
  <2>1. WorldOK'
    BY <1>29, DropType DEF Forget, world, WorldOK
  <2>2. StoreOK'
    <3>1. sweep.ns \in Names
      BY <1>29 DEF Forget, TasksOK, world, store, tasks
    <3>2. space' \in [Names -> Spaces]
      BY <1>29, <3>1, RestingTypes, SpacePut DEF Forget, world, store, tasks
    <3>3. outbox' \subseteq Entries
      BY <1>29, DropType DEF Forget, world, store, tasks
    <3>4. repoOf' \in [Repos -> Names \cup {Nobody}]
      BY <1>29 DEF Forget, StoreOK, world, store, tasks
    <3> QED BY <1>29, <3>2, <3>3, <3>4 DEF Forget, StoreOK, world, store, tasks, history
  <2>3. TasksOK'
    <3>1. sweep.ns \in Names
      BY <1>29 DEF Forget, TasksOK, world, store, tasks
    <3>2. sweep' \in Sweeps /\ (sweep'.at = "deleting" => sweep'.ns \in Names)
      BY <1>29, <3>1, NextSweptType DEF Forget, world, store, tasks
    <3>3. lock' \in [Names -> {"free", "job", "sweep"}]
      BY <1>29, <3>1 DEF Forget, TasksOK, world, store, tasks
    <3> QED BY <1>29, <3>2, <3>3, SweepPut DEF Forget, world, store, tasks, history
  <2>4. HistoryOK'
    BY <1>29, HappensType DEF Forget, history, Calm, Moves, HistoryOK
  <2> QED BY <2>1, <2>2, <2>3, <2>4
<1>30. ASSUME QueueRoleMap PROVE TypeOK'
  <2>1. WorldOK'
    <3>1. {RoleMap(reporter)} \in SUBSET Entries
      BY <1>30, EntryType DEF QueueRoleMap, TasksOK, world, store, tasks
    <3> QED BY <1>30, <3>1, QueueType DEF QueueRoleMap, WorldOK, world, store, tasks,
         history
  <2>2. StoreOK'
    <3>1. {RoleMap(reporter)} \in SUBSET Entries
      BY <1>30, EntryType DEF QueueRoleMap, TasksOK, world, store, tasks
    <3> QED BY <1>30, <3>1, QueueType DEF QueueRoleMap, StoreOK, world, store, tasks,
         history
  <2>3. TasksOK'
    BY <1>30 DEF QueueRoleMap, tasks, TasksOK
  <2>4. HistoryOK'
    BY <1>30, HappensType DEF QueueRoleMap, history, Calm, Moves, HistoryOK
  <2> QED BY <2>1, <2>2, <2>3, <2>4
<1>31. ASSUME Crash PROVE TypeOK'
  <2>1. WorldOK'
    <3>1. UNION {Serves(n) : n \in Names} \in SUBSET Entries
      BY EntryType
    <3>2. docs' \subseteq Documents /\ answers' \subseteq Answers
      BY <1>31, <3>1, QueueType DEF Crash, world, store, tasks
    <3>3. asked' \subseteq [kind : {"bind", "work"}, ns : Names]
      BY <1>31 DEF Crash, WorldOK, TasksOK, world, store, tasks
    <3> QED BY <1>31, <3>2, <3>3 DEF Crash, WorldOK, world, store, tasks, history
  <2>2. StoreOK'
    <3>1. UNION {Serves(n) : n \in Names} \in SUBSET Entries
      BY EntryType
    <3> QED BY <1>31, <3>1, QueueType DEF Crash, StoreOK, world, store, tasks, history
  <2>3. TasksOK'
    <3>1. work' \in [Names -> Works]
      <4>1. ASSUME NEW n \in Names PROVE [work[n] EXCEPT !.at = "queued"] \in Works
        BY Parts DEF Works
      <4> QED BY <1>31, <4>1, RestingTypes DEF Crash
    <3>2. binder' \in [Names -> Binders] /\ \A n \in Names : binder'[n].at = "resting"
      BY <1>31, RestingTypes DEF Crash, world, store, tasks
    <3>3. loop' \in Loops /\ loop'.at = "idle" /\ sweep' \in Sweeps
         /\ sweep'.at = "idle"
      BY <1>31, RestingTypes DEF Crash, world, store, tasks
    <3> QED BY <1>31, <3>1, <3>2, <3>3 DEF Crash, TasksOK, world, store, tasks, history
  <2>4. HistoryOK'
    BY <1>31, HappensType DEF Crash, history, Calm, Moves, HistoryOK
  <2> QED BY <2>1, <2>2, <2>3, <2>4
<1>32. CASE UNCHANGED vars
  BY <1>32 DEF WorldOK, StoreOK, TasksOK, HistoryOK, vars
<1> QED
  BY <1>1, <1>2, <1>3, <1>4, <1>5, <1>6, <1>7, <1>8, <1>9, <1>10, <1>11, <1>12, <1>13,
       <1>14, <1>15, <1>16, <1>17, <1>18, <1>19, <1>20, <1>21, <1>22, <1>23, <1>24,
       <1>25, <1>26, <1>27, <1>28, <1>29, <1>30, <1>31, <1>32 DEF Next, Vtc, Bind,
       Work, Loop, Receiving, Sending, Sweeping

\* Every state of every behaviour is well typed.
THEOREM TypeCorrect == Spec => []TypeOK
<1>1. Init => TypeOK
  BY InitTypes
<1>2. TypeOK /\ [Next]_vars => TypeOK'
  BY TypeStep
<1> QED
  BY <1>1, <1>2, PTL DEF Spec

----------------------------------------------------------------------------
(* One record per owner.  By itself this is not inductive: the bind that is *)
(* at it must have every other record of the owner on its list.             *)

Taking(n) == binder[n].at \in {"moving", "taking"}

OwnerInv ==
    ~hasty =>
        /\ \A m, n \in Names : m \in Serving /\ n \in Serving => m = n
        /\ \A m, n \in Names : Taking(m) /\ Taking(n) => m = n
        /\ \A n \in Names :
            Taking(n) => Serving \subseteq {n, binder[n].old} \cup binder[n].left
        /\ \A n \in Names : binder[n].at = "moving" => binder[n].old = Nobody

\* A step that lets no record be served anew, and no bind start or go on.
LEMMA OwnerKeeps ==
    ASSUME OwnerInv, hasty' = hasty, Serving' \subseteq Serving,
           \A n \in Names : binder'[n] = binder[n]
                            \/ binder'[n].at \notin {"moving", "taking"}
    PROVE  OwnerInv'
  BY DEF OwnerInv, Taking

LEMMA ServingSame == ASSUME space' = space PROVE Serving' = Serving
  BY DEF Serving, Bound, Orphaned

\* Taking a job, an answer, recording and retention change no namespace that was
\* not served into one that is.
LEMMA ServingShrinks ==
    ASSUME TypeOK, NEW n \in Names,
           \/ Manage(n) \/ RetentionPasses(n) \/ BeginBind \/ Forget
           \/ \E j \in asked : TakeJob(j)
           \/ \E a \in answers : TakeAnswer(a)
    PROVE  Serving' \subseteq Serving /\ hasty' = hasty /\ binder' = binder
<1>1. CASE Manage(n)
  <2>1. \A m \in Names : space'[m].state = space[m].state
    BY <1>1, Parts DEF Manage, Spaces, TypeOK, StoreOK
  <2> QED
    BY <1>1, <2>1 DEF Manage, history, Serving, Bound, Orphaned
<1>2. CASE RetentionPasses(n)
  <2>1. \A m \in Names : space'[m].state = space[m].state
    BY <1>2, Parts DEF RetentionPasses, Spaces, TypeOK, StoreOK
  <2> QED
    BY <1>2, <2>1 DEF RetentionPasses, tasks, history, Serving, Bound, Orphaned
<1>3. CASE BeginBind
  <2>1. \A m \in Names : space'[m].state \in {space[m].state, "pending"}
    BY <1>3, Parts DEF BeginBind, Spaces, TypeOK, StoreOK
  <2> QED
    BY <1>3, <2>1 DEF BeginBind, history, Serving, Bound, Orphaned
<1>4. CASE Forget
  <2>1. \A m \in Names : space'[m] = space[m] \/ space'[m] = NoSpace
    BY <1>4 DEF Forget, TypeOK, StoreOK
  <2>2. Serving' \subseteq Serving
    BY <2>1 DEF Serving, Bound, Orphaned, NoSpace
  <2>3. hasty' = hasty /\ binder' = binder
    BY <1>4 DEF Forget, history
  <2> QED
    BY <2>2, <2>3
<1>5. ASSUME NEW j \in asked, TakeJob(j) PROVE Serving' \subseteq Serving
                                            /\ hasty' = hasty /\ binder' = binder
  <2>1. \A m \in Names : space'[m].state = space[m].state \/ Orphaned(m)
    <3>1. space' = space \/ (Orphaned(j.ns) /\ space' = [space EXCEPT ![j.ns] =
                                [[@ EXCEPT !.state = "bound"] EXCEPT !.due = FALSE]])
      BY <1>5 DEF TakeJob
    <3>2. \A m \in Names : space'[m] = space[m] \/ Orphaned(m)
      BY <3>1 DEF TypeOK, StoreOK
    <3> QED
      BY <3>2
  <2>2. Serving' \subseteq Serving
    BY <2>1 DEF Serving, Bound, Orphaned
  <2>3. hasty' = hasty /\ binder' = binder
    BY <1>5 DEF TakeJob, history
  <2> QED
    BY <2>2, <2>3
<1>6. ASSUME NEW a \in answers, TakeAnswer(a) PROVE Serving' \subseteq Serving
                                                 /\ hasty' = hasty /\ binder' = binder
  <2>1. \A m \in Names : space'[m].state = space[m].state \/ Bound(m)
    <3>1. space' = space \/ (Bound(a.entry.ns) /\ space' = [space EXCEPT ![a.entry.ns] =
                                [[@ EXCEPT !.state = "orphaned"] EXCEPT !.due = FALSE]])
      <4>1. CASE a.code = "unknownNamespace" /\ Bound(a.entry.ns)
        BY <1>6, <4>1 DEF TakeAnswer
      <4>2. CASE ~(a.code = "unknownNamespace" /\ Bound(a.entry.ns))
        <5>1. space' = space
          BY <1>6, <4>2 DEF TakeAnswer
        <5> QED BY <5>1
      <4> QED
        BY <4>1, <4>2
    <3>2. \A m \in Names : m # a.entry.ns \/ space' = space => space'[m] = space[m]
      BY <3>1 DEF TypeOK, StoreOK
    <3> QED
      BY <3>1, <3>2
  <2>2. Serving' \subseteq Serving
    BY <2>1 DEF Serving, Bound, Orphaned
  <2>3. hasty' = hasty /\ binder' = binder
    BY <1>6 DEF TakeAnswer, history
  <2> QED
    BY <2>2, <2>3
<1> QED
  BY <1>1, <1>2, <1>3, <1>4, <1>5, <1>6

\* Every step keeps it: a proof lists every served record, each is taken over in
\* turn, and only then is the new one put.
LEMMA OwnerStep == TypeOK /\ OwnerInv /\ [Next]_vars => OwnerInv'
<1> SUFFICES ASSUME TypeOK, OwnerInv, [Next]_vars PROVE OwnerInv'
  OBVIOUS
<1>1. ASSUME NEW n \in Names,
             \/ Vtc(n) \/ Callback(n) \/ Expire(n) \/ ProofFails(n) \/ Tell(n)
             \/ StartWork(n) \/ Record(n) \/ ReadRoleMap(n) \/ CheckForgotten(n)
      PROVE  OwnerInv'
  <2>1. space' = space /\ hasty' = hasty
    BY <1>1 DEF Vtc, VtcBinds, VtcWorks, VtcLoses, VtcRegains, Callback, Expire, ProofFails,
            Tell, StartWork, Record, ReadRoleMap, CheckForgotten, store, history
  <2>2. \A m \in Names : binder'[m] = binder[m] \/ binder'[m].at \notin {"moving", "taking"}
    BY <1>1, Parts, RestingTypes
       DEF Vtc, VtcBinds, VtcWorks, VtcLoses, VtcRegains, Callback, Expire, ProofFails,
           Tell, StartWork, Record, ReadRoleMap, CheckForgotten, tasks, TypeOK, TasksOK,
           Resting
  <2> QED
    BY <2>1, <2>2, OwnerKeeps, ServingSame
<1>2. ASSUME NEW n \in Names, Proven(n) PROVE OwnerInv'
  <2> SUFFICES ASSUME ~hasty' PROVE OwnerInv'
    BY DEF OwnerInv
  <2>1. ~hasty /\ \A m \in Names \ {n} : ~Taking(m)
    BY <1>2 DEF Proven, Taking
  <2>2. Serving' = Serving
    BY <1>2, ServingSame DEF Proven, store
  <2>3. \A m \in Names \ {n} : binder'[m] = binder[m]
    BY <1>2 DEF Proven, TypeOK, TasksOK
  <2>4. binder'[n].left = Earlier(n) /\ binder'[n].old = Nobody
    BY <1>2 DEF Proven, Resting, TypeOK, TasksOK
  <2>5. Serving \subseteq {n} \cup Earlier(n)
    BY DEF Earlier, Serving
  <2> QED
    BY <2>1, <2>2, <2>3, <2>4, <2>5 DEF OwnerInv, Taking
<1>3. ASSUME NEW n \in Names, NEW o \in Names, Retire(n, o) PROVE OwnerInv'
  <2>1. Serving' = Serving /\ hasty' = hasty
    BY <1>3, ServingSame DEF Retire, history
  <2>2. \A m \in Names \ {n} : binder'[m] = binder[m]
    BY <1>3 DEF Retire, TypeOK, TasksOK
  <2>3. binder[n] \in Binders
    BY Parts
  <2>4. binder[n].at = "moving" /\ binder'[n].at = "taking"
        /\ binder'[n].left = binder[n].left
    BY <1>3, <2>3 DEF Retire, TypeOK, TasksOK, Binders
  <2>5. Nobody \notin Serving
    BY NameAssumption DEF Serving
  <2> QED
    BY <2>1, <2>2, <2>4, <2>5 DEF OwnerInv, Taking
<1>4. ASSUME NEW n \in Names, TakeOver(n) PROVE OwnerInv'
  <2> DEFINE o == binder[n].old
  <2>1. binder[n] \in Binders /\ binder[n].at = "taking" /\ o \in Names
    BY <1>4, Parts DEF TakeOver
  <2>2. Serving' = Serving \ {o} /\ hasty' = hasty
    BY <1>4, <2>1 DEF TakeOver, Serving, Bound, Orphaned, NoSpace, TypeOK, StoreOK
  <2>3. \A m \in Names \ {n} : binder'[m] = binder[m]
    BY <1>4 DEF TakeOver, TypeOK, TasksOK
  <2>4. binder'[n].at = "moving" /\ binder'[n].left = binder[n].left \ {o}
        /\ binder'[n].old = Nobody
    BY <1>4, <2>1 DEF TakeOver, TypeOK, TasksOK, Binders
  <2> QED
    BY <2>1, <2>2, <2>3, <2>4 DEF OwnerInv, Taking
<1>5. ASSUME NEW n \in Names, PutBound(n) PROVE OwnerInv'
  <2>1. binder[n] \in Binders /\ binder[n].at = "moving" /\ binder[n].left = {}
    BY <1>5, Parts DEF PutBound
  <2>2. Serving' = Serving \cup {n} /\ hasty' = hasty
    BY <1>5 DEF PutBound, Serving, Bound, Orphaned, TypeOK, StoreOK, history
  <2>3. \A m \in Names \ {n} : binder'[m] = binder[m]
    BY <1>5 DEF PutBound, TypeOK, TasksOK
  <2>4. binder'[n].at = "telling"
    BY <1>5, <2>1 DEF PutBound, TypeOK, TasksOK, Binders
  <2>5. Nobody \notin Serving
    BY NameAssumption DEF Serving
  <2>6. ~hasty => Serving \subseteq {n}
    BY <2>1, <2>5 DEF OwnerInv, Taking
  <2> QED
    BY <2>1, <2>2, <2>3, <2>4, <2>6 DEF OwnerInv, Taking
<1>6. ASSUME NEW n \in Names,
             \/ Manage(n) \/ RetentionPasses(n) \/ BeginBind \/ Forget
             \/ \E j \in asked : TakeJob(j)
             \/ \E a \in answers : TakeAnswer(a)
      PROVE  OwnerInv'
  BY <1>6, ServingShrinks, OwnerKeeps
<1>7. CASE \/ AdmitWork \/ ServeAgain \/ DropWaiting \/ Sending \/ StartSweep \/ QueueRoleMap
           \/ \E d \in docs : VtcHears(d)
  <2>1. space' = space /\ hasty' = hasty /\ binder' = binder
    BY <1>7 DEF AdmitWork, ServeAgain, DropWaiting, Sending, PickEntry, SendEntry, StartSweep,
            QueueRoleMap, VtcHears, store, tasks, history
  <2> QED
    BY <2>1, OwnerKeeps, ServingSame
<1>8. CASE Crash
  <2>1. Serving' = Serving /\ hasty' = hasty
    BY <1>8, ServingSame DEF Crash, history
  <2>2. \A n \in Names : binder'[n].at = "resting"
    BY <1>8 DEF Crash, Resting
  <2> QED
    BY <2>1, <2>2, OwnerKeeps
<1>9. CASE UNCHANGED vars
  <2>1. space' = space /\ hasty' = hasty /\ binder' = binder
    BY <1>9 DEF vars
  <2> QED
    BY <2>1, OwnerKeeps, ServingSame
<1>10. CASE Names = {} /\ (BeginBind \/ Forget \/ (\E j \in asked : TakeJob(j))
                           \/ \E a \in answers : TakeAnswer(a))
  BY <1>10 DEF OwnerInv
<1> QED
  BY <1>1, <1>2, <1>3, <1>4, <1>5, <1>6, <1>7, <1>8, <1>9, <1>10
     DEF Next, Bind, Work, Loop, Receiving, Sweeping

\* One record serves one owner at a time, unless two of its binds are completed
\* over each other.
THEOREM OneRecord == Spec => []OneRecordPerOwner
<1>1. Init => OwnerInv
  BY DEF Init, OwnerInv, Taking, Resting, Serving, Bound, Orphaned, NoSpace
<1>2. TypeOK /\ OwnerInv => OneRecordPerOwner
  <2> SUFFICES ASSUME OwnerInv, ~hasty PROVE Cardinality(Serving) <= 1
    BY DEF OneRecordPerOwner
  <2>1. CASE Serving = {}
    <3>1. Cardinality(Serving) = 0
      BY <2>1, FS_EmptySet
    <3> QED
      BY <3>1
  <2>2. ASSUME NEW m \in Serving PROVE Cardinality(Serving) <= 1
    <3>1. Serving = {m}
      BY <2>2 DEF OwnerInv, Serving
    <3>2. Cardinality({m}) = 1
      BY FS_Singleton
    <3> QED
      BY <3>1, <3>2
  <2> QED
    BY <2>1, <2>2
<1> QED
  BY <1>1, <1>2, OwnerStep, TypeCorrect, PTL DEF Spec

----------------------------------------------------------------------------
(* Orphaned on fresh word.  What is on its way for a namespace that waits   *)
(* orphaned can only be about its role map, which the bridge puts anew when *)
(* it answers the job that brings the namespace back; until then the loop   *)
(* takes no answer.                                                         *)

\* What was sent of it is to be put anew, once the loop has answered its job.
Outdated(e) ==
    /\ loop.at \in {"bind", "work", "serve"} /\ loop.revived
    /\ e = RoleMap(loop.ns) /\ Bound(loop.ns)

\* What is held is in the outbox: a document, and the entry an answer threads to.
Threaded ==
    /\ \A d \in docs : d.held => d.entry \in outbox
    /\ \A a \in answers : a.entry \in outbox

\* Of an orphaned namespace, at most the role map is there to be sent.
Quiet ==
    \A n \in Names :
        Orphaned(n) /\ ~(loop.at = "drop" /\ loop.ns = n) => EventsOf(n) \subseteq {RoleMap(n)}

\* What is stale is to be put anew.
StaleKnown ==
    /\ \A d \in docs : d.held /\ ~d.fresh => Outdated(d.entry)
    /\ \A a \in answers : ~a.fresh => Outdated(a.entry)

FreshInv == Never({"crash"}) => Threaded /\ Quiet /\ StaleKnown

\* What happened is not forgotten, and a crash is counted.
LEMMA NeverBefore ==
    ASSUME TypeOK, [Next]_vars, NEW ms \in SUBSET Moves, Never(ms)' PROVE Never(ms)
<1>1. \A m \in Moves : count[m] \in Nat
  BY DEF TypeOK, HistoryOK
<1>2. ASSUME NEW m \in Moves, Happens(m), NEW x \in ms PROVE count'[x] >= count[x]
  BY <1>1, <1>2 DEF Happens, TypeOK, HistoryOK
<1>3. count' = count \/ \E m \in Moves : Happens(m)
  <2>1. ASSUME NEW n \in Names, Vtc(n) \/ Callback(n) \/ Expire(n) \/ ProofFails(n)
        PROVE  count' = count \/ \E m \in Moves : Happens(m)
    BY <2>1 DEF Vtc, VtcBinds, VtcWorks, VtcLoses, VtcRegains, Callback, Expire,
                ProofFails, Calm, Moves
  <2>2. ASSUME NEW n \in Names, Bind(n) \/ Work(n) \/ ReadRoleMap(n) \/ RetentionPasses(n)
        PROVE  count' = count \/ \E m \in Moves : Happens(m)
    BY <2>2 DEF Bind, Work, Proven, Retire, TakeOver, PutBound, Tell, StartWork, Record,
                Manage, ReadRoleMap, RetentionPasses, Calm, Moves
  <2>3. ASSUME Receiving PROVE count' = count \/ \E m \in Moves : Happens(m)
    BY <2>3 DEF Receiving, Loop, TakeJob, TakeAnswer, BeginBind, AdmitWork, ServeAgain,
                DropWaiting, Calm, Moves
  <2>4. ASSUME (\E d \in docs : VtcHears(d)) \/ Sending \/ Sweeping \/ QueueRoleMap
        PROVE  count' = count \/ \E m \in Moves : Happens(m)
    BY <2>4 DEF VtcHears, Sending, Sweeping, PickEntry, SendEntry, StartSweep,
                CheckForgotten, Forget, QueueRoleMap, Calm, Moves
  <2>5. ASSUME Crash PROVE Happens("crash")
    BY <2>5 DEF Crash
  <2> QED
    BY <2>1, <2>2, <2>3, <2>4, <2>5 DEF Next, vars, Moves
<1>4. \A x \in ms : count'[x] >= count[x]
  BY <1>1, <1>2, <1>3
<1> QED
  BY <1>1, <1>4 DEF Never

LEMMA NoCrashBefore ==
    ASSUME TypeOK, [Next]_vars, Never({"crash"})' PROVE Never({"crash"}) /\ ~Crash
<1>1. {"crash"} \in SUBSET Moves
  BY DEF Moves
<1>2. ~Crash
  BY DEF Crash, Happens, TypeOK, HistoryOK, Moves, Never
<1> QED
  BY <1>1, <1>2, NeverBefore

\* What is still held of the messages was held, and is not of what is gone.
LEMMA UnholdKeeps ==
    ASSUME TypeOK, NEW gone, Unhold(gone)
    PROVE  /\ \A d \in docs' : d.held => d \in docs /\ d.entry \notin gone
           /\ \A a \in answers' : a \in answers /\ a.entry \notin gone
<1>1. ASSUME NEW d \in docs PROVE ~[d EXCEPT !.held = FALSE].held
  BY DEF TypeOK, WorldOK, Documents
<1> QED
  BY <1>1 DEF Unhold, Matter

LEMMA RoleMapOf == ASSUME NEW n PROVE RoleMap(n).ns = n
  BY DEF RoleMap

\* No message, and no namespace orphaned or taken away.
LEMMA FreshSame ==
    ASSUME TypeOK, Threaded, Quiet, StaleKnown,
           UNCHANGED <<docs, answers, outbox, loop>>,
           \A n \in Names : /\ Orphaned(n)' => Orphaned(n)
                            /\ Bound(n) => Bound(n)'
    PROVE  Threaded' /\ Quiet' /\ StaleKnown'
<1>1. Threaded'
  BY DEF Threaded
<1>2. Quiet'
  BY DEF Quiet, EventsOf
<1>3. ASSUME NEW e, Outdated(e) PROVE Outdated(e)'
  BY <1>3 DEF Outdated, TypeOK, TasksOK
<1>4. StaleKnown'
  BY <1>3 DEF StaleKnown
<1> QED
  BY <1>1, <1>2, <1>4

\* Entries leave the outbox; a namespace that is not bound any more, all of its.
LEMMA FreshDrop ==
    ASSUME TypeOK, Threaded, Quiet, StaleKnown, NEW gone, Drop(gone), loop' = loop,
           \A n \in Names : /\ Orphaned(n)' => Orphaned(n)
                            /\ Bound(n) => Bound(n)' \/ EventsOf(n) \subseteq gone
    PROVE  Threaded' /\ Quiet' /\ StaleKnown'
<1>1. /\ \A d \in docs' : d.held => d \in docs /\ d.entry \notin gone
      /\ \A a \in answers' : a \in answers /\ a.entry \notin gone
  BY UnholdKeeps DEF Drop
<1>2. outbox' = outbox \ gone
  BY DEF Drop
<1>3. Threaded'
  BY <1>1, <1>2 DEF Threaded
<1>4. Quiet'
  BY <1>2 DEF Quiet, EventsOf
<1>5. ASSUME NEW e \in outbox \ gone, Outdated(e) PROVE Outdated(e)'
  <2>1. loop.ns \in Names
    BY <1>5 DEF Outdated, TypeOK, TasksOK
  <2>2. e \in EventsOf(loop.ns)
    BY <1>5, RoleMapOf DEF Outdated, EventsOf
  <2> QED
    BY <1>5, <2>1, <2>2 DEF Outdated
<1>6. StaleKnown'
  BY <1>1, <1>5 DEF StaleKnown, Threaded
<1> QED
  BY <1>3, <1>4, <1>6

\* Entries are put in it, of an orphaned namespace at most the role map.
LEMMA FreshQueue ==
    ASSUME TypeOK, Threaded, Quiet, StaleKnown, NEW new, Queue(new), loop' = loop,
           space' = space, \A e \in new : e = RoleMap(e.ns) \/ ~Orphaned(e.ns)
    PROVE  Threaded' /\ Quiet' /\ StaleKnown'
<1>1. /\ \A d \in docs' : d.held => d \in docs
      /\ \A a \in answers' : a \in answers
  BY UnholdKeeps DEF Queue
<1>2. outbox' = outbox \cup new
  BY DEF Queue
<1>3. Threaded'
  BY <1>1, <1>2 DEF Threaded
<1>4. Quiet'
  BY <1>2 DEF Quiet, EventsOf, Orphaned
<1>5. ASSUME NEW e, Outdated(e) PROVE Outdated(e)'
  BY <1>5 DEF Outdated, Bound
<1>6. StaleKnown'
  BY <1>1, <1>5 DEF StaleKnown
<1> QED
  BY <1>3, <1>4, <1>6

\* Between two documents, nothing stale is left.
LEMMA IdleFresh ==
    ASSUME Threaded, Quiet, StaleKnown, loop.at \notin {"bind", "work", "serve"}
    PROVE  (\A d \in docs : d.held => d.fresh) /\ (\A a \in answers : a.fresh)
  BY DEF StaleKnown, Outdated

\* The job that brings a namespace back makes stale what was sent for it: its
\* role map, if anything.
LEMMA FreshTakeJob ==
    ASSUME TypeOK, Threaded, Quiet, StaleKnown, NEW j \in asked, TakeJob(j)
    PROVE  Threaded' /\ Quiet' /\ StaleKnown'
<1>1. loop.at = "idle" /\ j.ns \in Names /\ j.kind \in {"bind", "work"} /\ outbox' = outbox
  BY DEF TakeJob, TypeOK, WorldOK
<1>2. loop'.at \in {"bind", "work"} /\ loop'.ns = j.ns /\ loop'.revived = Orphaned(j.ns)
  BY <1>1 DEF TakeJob
<1>3. (\A d \in docs : d.held => d.fresh) /\ (\A a \in answers : a.fresh)
  BY <1>1, IdleFresh
<1>4. CASE Orphaned(j.ns)
  <2>1. space'[j.ns].state = "bound"
        /\ \A n \in Names : Orphaned(n)' => Orphaned(n) /\ n # j.ns
    BY <1>1, <1>4, Parts DEF TakeJob, TypeOK, StoreOK, Spaces, Orphaned
  <2>2. docs' = Stale(docs, j.ns) /\ answers' = Stale(answers, j.ns)
    BY <1>4 DEF TakeJob
  <2>3. ASSUME NEW d \in docs
        PROVE  LET x == [d EXCEPT !.fresh = FALSE] IN x.entry = d.entry /\ x.held = d.held
    BY DEF TypeOK, WorldOK, Documents
  <2>4. ASSUME NEW a \in answers
        PROVE  [a EXCEPT !.fresh = FALSE].entry = a.entry
    BY DEF TypeOK, WorldOK, Answers
  <2>5a. \A d \in docs' : d.held => d.entry \in outbox /\ (~d.fresh => d.entry.ns = j.ns)
    BY <1>3, <2>2, <2>3 DEF Stale, Threaded
  <2>5b. \A a \in answers' : a.entry \in outbox /\ (~a.fresh => a.entry.ns = j.ns)
    BY <1>3, <2>2, <2>4 DEF Stale, Threaded
  <2>5. /\ \A d \in docs' : d.held => d.entry \in outbox /\ (~d.fresh => d.entry.ns = j.ns)
        /\ \A a \in answers' : a.entry \in outbox /\ (~a.fresh => a.entry.ns = j.ns)
    BY <2>5a, <2>5b
  <2>6. EventsOf(j.ns) \subseteq {RoleMap(j.ns)}
    BY <1>1, <1>4 DEF Quiet
  <2>7. ASSUME NEW e \in outbox, e.ns = j.ns PROVE Outdated(e)'
    BY <1>2, <1>4, <2>1, <2>6, <2>7 DEF Outdated, EventsOf, Bound
  <2>8. Quiet'
    BY <1>1, <1>2, <2>1 DEF Quiet, EventsOf
  <2> QED
    BY <1>1, <2>5, <2>7, <2>8 DEF Threaded, StaleKnown
<1>5. CASE ~Orphaned(j.ns)
  <2>1. space' = space /\ docs' = docs /\ answers' = answers
    BY <1>5 DEF TakeJob
  <2>2. Quiet'
    BY <1>1, <1>2, <2>1 DEF Quiet, EventsOf, Orphaned
  <2> QED
    BY <1>1, <1>3, <2>1, <2>2 DEF Threaded, StaleKnown
<1> QED
  BY <1>4, <1>5

\* An answer is taken between two documents: what the VTC does not have is
\* orphaned, and the loop drops its events next.
LEMMA FreshTakeAnswer ==
    ASSUME TypeOK, Threaded, Quiet, StaleKnown, NEW a \in answers, TakeAnswer(a)
    PROVE  Threaded' /\ Quiet' /\ StaleKnown'
<1>1. loop.at = "idle" /\ a.entry.ns \in Names
  BY DEF TakeAnswer, TypeOK, WorldOK, Answers, Entries
<1>2. (\A d \in docs : d.held => d.fresh) /\ (\A x \in answers : x.fresh)
  BY <1>1, IdleFresh
<1>3. /\ \A d \in docs' : d.held => d \in docs /\ d.entry \in outbox'
      /\ \A x \in answers' : x \in answers /\ x.entry \in outbox'
      /\ outbox' \subseteq outbox
  <2>1. CASE Drop({a.entry})
    BY <2>1, UnholdKeeps DEF Drop, Threaded
  <2>2. CASE UNCHANGED <<outbox, docs>> /\ answers' = answers \ {a}
    BY <2>2 DEF Threaded
  <2> QED
    BY <2>1, <2>2 DEF TakeAnswer
<1>4. \A n \in Names : Orphaned(n)' => Orphaned(n) \/ (loop'.at = "drop" /\ loop'.ns = n)
  <2>1. CASE space' = space
    BY <2>1 DEF Orphaned
  <2>2. CASE space' # space
    <3>1. loop' = [Idle EXCEPT !.at = "drop", !.ns = a.entry.ns]
      BY <2>2 DEF TakeAnswer
    <3>2. loop'.at = "drop" /\ loop'.ns = a.entry.ns
      BY <3>1 DEF Idle
    <3>3. \A n \in Names \ {a.entry.ns} : space'[n] = space[n]
      BY <1>1, <2>2 DEF TakeAnswer, TypeOK, StoreOK
    <3> QED
      BY <3>2, <3>3 DEF Orphaned
  <2> QED
    BY <2>1, <2>2
<1>5. Quiet'
  BY <1>1, <1>3, <1>4 DEF Quiet, EventsOf
<1> QED
  BY <1>2, <1>3, <1>5 DEF Threaded, StaleKnown

\* Once the job is answered, a namespace it brought back has its role map put anew.
LEMMA FreshLoop ==
    ASSUME TypeOK, Threaded, Quiet, StaleKnown, Loop
    PROVE  Threaded' /\ Quiet' /\ StaleKnown'
<1>1. CASE BeginBind \/ AdmitWork
  <2>1. /\ loop.at \in {"bind", "work"} /\ UNCHANGED <<docs, answers, outbox>>
        /\ loop' = IF loop.revived THEN [loop EXCEPT !.at = "serve"] ELSE Idle
    BY <1>1 DEF BeginBind, AdmitWork, Answer, world, store
  <2>2. \A n \in Names : (Bound(n)' <=> Bound(n)) /\ (Orphaned(n)' <=> Orphaned(n))
    BY <1>1, Parts DEF BeginBind, AdmitWork, store, TypeOK, StoreOK, Spaces, Bound, Orphaned
  <2>3. loop'.at # "drop" /\ loop.at # "drop"
    BY <2>1, RestingTypes DEF TypeOK, TasksOK, Loops
  <2>4. Quiet'
    BY <2>1, <2>2, <2>3 DEF Quiet, EventsOf
  <2>5. ASSUME NEW e, Outdated(e) PROVE Outdated(e)'
    BY <2>1, <2>2, <2>5 DEF Outdated, TypeOK, TasksOK, Loops
  <2> QED
    BY <2>1, <2>4, <2>5 DEF Threaded, StaleKnown
<1>2. CASE ServeAgain
  <2>1. /\ loop.at = "serve" /\ Queue(Serves(loop.ns)) /\ loop' = Idle /\ space' = space
    BY <1>2 DEF ServeAgain
  <2>2. /\ \A d \in docs' : d.held => d \in docs /\ d.entry \notin Serves(loop.ns)
        /\ \A a \in answers' : a \in answers /\ a.entry \notin Serves(loop.ns)
    BY <2>1, UnholdKeeps DEF Queue
  <2>3. outbox' = outbox \cup Serves(loop.ns)
    BY <2>1 DEF Queue
  <2>4. \A e : Outdated(e) => e \in Serves(loop.ns)
    BY DEF Outdated, Serves
  <2>5. Threaded' /\ StaleKnown'
    BY <2>2, <2>3, <2>4 DEF Threaded, StaleKnown
  <2>6. Serves(loop.ns) \subseteq {RoleMap(loop.ns)}
    BY DEF Serves
  <2>7. Quiet'
    BY <2>1, <2>3, <2>6, RoleMapOf DEF Quiet, EventsOf, Orphaned
  <2> QED
    BY <2>5, <2>7
<1>3. CASE DropWaiting
  <2>1. /\ loop.at = "drop" /\ Drop(EventsOf(loop.ns)) /\ loop' = Idle /\ space' = space
    BY <1>3 DEF DropWaiting
  <2>2. /\ \A d \in docs' : d.held => d \in docs /\ d.entry \notin EventsOf(loop.ns)
        /\ \A a \in answers' : a \in answers /\ a.entry \notin EventsOf(loop.ns)
    BY <2>1, UnholdKeeps DEF Drop
  <2>3. outbox' = outbox \ EventsOf(loop.ns)
    BY <2>1 DEF Drop
  <2>4. (\A d \in docs : d.held => d.fresh) /\ (\A a \in answers : a.fresh)
    BY <2>1, IdleFresh
  <2>5. Threaded' /\ StaleKnown'
    BY <2>2, <2>3, <2>4 DEF Threaded, StaleKnown
  <2>6. Quiet'
    BY <2>1, <2>3 DEF Quiet, EventsOf, Orphaned
  <2> QED
    BY <2>5, <2>6
<1> QED
  BY <1>1, <1>2, <1>3 DEF Loop

\* Every other step, that is not a crash.
LEMMA FreshRest ==
    ASSUME TypeOK, Threaded, Quiet, StaleKnown, NEW n \in Names,
           \/ Vtc(n) \/ Callback(n) \/ Expire(n) \/ ProofFails(n) \/ Bind(n) \/ Work(n)
           \/ ReadRoleMap(n) \/ RetentionPasses(n) \/ CheckForgotten(n)
    PROVE  Threaded' /\ Quiet' /\ StaleKnown'
<1>1. CASE \/ Vtc(n) \/ Callback(n) \/ Expire(n) \/ ProofFails(n) \/ Proven(n)
           \/ StartWork(n) \/ Record(n) \/ ReadRoleMap(n) \/ CheckForgotten(n)
           \/ \E o \in Names : Retire(n, o)
  <2>1. UNCHANGED <<docs, answers, outbox, loop, space>>
    BY <1>1 DEF Vtc, VtcBinds, VtcWorks, VtcLoses, VtcRegains, Callback, Expire, ProofFails,
            Proven, StartWork, Record, ReadRoleMap, CheckForgotten, Retire, world, store, tasks
  <2> QED
    BY <2>1, FreshSame DEF Bound, Orphaned
<1>2. CASE PutBound(n) \/ Manage(n) \/ RetentionPasses(n)
  <2>1. UNCHANGED <<docs, answers, outbox, loop>>
    BY <1>2 DEF PutBound, Manage, RetentionPasses, world, tasks
  <2>2. \A m \in Names : space'[m].state \in {space[m].state, "bound"}
    <3>1. CASE PutBound(n)
      BY <3>1 DEF PutBound, TypeOK, StoreOK
    <3>2. CASE Manage(n)
      BY <3>2, Parts DEF Manage, Spaces, TypeOK, StoreOK
    <3>3. CASE RetentionPasses(n)
      BY <3>3, Parts DEF RetentionPasses, Spaces, TypeOK, StoreOK
    <3> QED
      BY <1>2, <3>1, <3>2, <3>3
  <2>3. \A m \in Names : (Orphaned(m)' => Orphaned(m)) /\ (Bound(m) => Bound(m)')
    BY <2>2 DEF Bound, Orphaned
  <2> QED
    BY <2>1, <2>3, FreshSame
<1>3. CASE TakeOver(n)
  <2>1. Drop(EventsOf(binder[n].old)) /\ loop' = loop
        /\ space' = [space EXCEPT ![binder[n].old] = NoSpace]
    BY <1>3 DEF TakeOver
  <2>2. \A m \in Names : /\ Orphaned(m)' => Orphaned(m)
                         /\ Bound(m) => Bound(m)' \/ m = binder[n].old
    BY <2>1 DEF Bound, Orphaned, NoSpace, TypeOK, StoreOK
  <2> QED
    BY <2>1, <2>2, FreshDrop
<1>4. CASE Tell(n)
  <2> DEFINE new == (IF Orphaned(n) THEN {} ELSE {Completed(n)}) \cup Serves(n)
  <2>1. Queue(new) /\ loop' = loop /\ space' = space
    BY <1>4 DEF Tell
  <2>2. \A e \in new : e = RoleMap(e.ns) \/ ~Orphaned(e.ns)
    BY RoleMapOf DEF Serves, Completed
  <2> HIDE DEF new
  <2> QED
    BY <2>1, <2>2, FreshQueue
<1> QED
  BY <1>1, <1>2, <1>3, <1>4 DEF Bind, Work

LEMMA FreshStep == TypeOK /\ FreshInv /\ [Next]_vars => FreshInv'
<1> SUFFICES ASSUME TypeOK, FreshInv, [Next]_vars, Never({"crash"})' PROVE FreshInv'
  BY DEF FreshInv
<1>0. Threaded /\ Quiet /\ StaleKnown /\ ~Crash
  BY NoCrashBefore DEF FreshInv
<1> SUFFICES Threaded' /\ Quiet' /\ StaleKnown'
  BY DEF FreshInv
<1>1. ASSUME NEW n \in Names,
             \/ Vtc(n) \/ Callback(n) \/ Expire(n) \/ ProofFails(n) \/ Bind(n) \/ Work(n)
             \/ ReadRoleMap(n) \/ RetentionPasses(n) \/ CheckForgotten(n)
      PROVE  Threaded' /\ Quiet' /\ StaleKnown'
  BY <1>0, <1>1, FreshRest
<1>2. ASSUME NEW d \in docs, VtcHears(d) PROVE Threaded' /\ Quiet' /\ StaleKnown'
  <2>1. /\ docs' = docs \ {d} /\ UNCHANGED <<outbox, loop, space>>
    BY <1>2 DEF VtcHears, store, tasks
  <2>2. \A a \in answers' : \/ a \in answers
                            \/ d.held /\ a.entry = d.entry /\ a.fresh = d.fresh
    BY <1>2 DEF VtcHears, Reply
  <2>3. Threaded' /\ Quiet'
    BY <1>0, <2>1, <2>2 DEF Threaded, Quiet, EventsOf, Orphaned
  <2>4. \A e : Outdated(e) => Outdated(e)'
    BY <2>1 DEF Outdated, Bound
  <2>5. StaleKnown'
    BY <1>0, <2>1, <2>2, <2>4 DEF StaleKnown
  <2> QED
    BY <2>3, <2>5
<1>3. ASSUME NEW j \in asked, TakeJob(j) PROVE Threaded' /\ Quiet' /\ StaleKnown'
  BY <1>0, <1>3, FreshTakeJob
<1>4. ASSUME NEW a \in answers, TakeAnswer(a) PROVE Threaded' /\ Quiet' /\ StaleKnown'
  BY <1>0, <1>4, FreshTakeAnswer
<1>5. CASE Loop
  BY <1>0, <1>5, FreshLoop
<1>6. ASSUME NEW e \in outbox, PickEntry(e) PROVE Threaded' /\ Quiet' /\ StaleKnown'
  <2>1. loop' = loop /\ space' = space
    BY <1>6 DEF PickEntry
  <2>2. CASE Drop({e})
    BY <1>0, <2>1, <2>2, FreshDrop DEF Bound, Orphaned
  <2>3. CASE UNCHANGED <<outbox, docs, answers>>
    BY <1>0, <2>1, <2>3, FreshSame DEF Bound, Orphaned
  <2> QED
    BY <1>6, <2>2, <2>3 DEF PickEntry
<1>7. ASSUME NEW e \in sending, SendEntry(e) PROVE Threaded' /\ Quiet' /\ StaleKnown'
  <2>1. UNCHANGED <<answers, outbox, loop, space>>
    BY <1>7 DEF SendEntry, store
  <2>2. \A d \in docs' : d \in docs \/ (d.entry = e /\ d.fresh /\ (d.held <=> e \in outbox))
    <3> DEFINE sent == [entry |-> e, held |-> e \in outbox, fresh |-> TRUE]
    <3>1. docs' \subseteq docs \cup {sent}
      BY <1>7 DEF SendEntry, Matter
    <3>2. sent.entry = e /\ sent.fresh /\ (sent.held <=> e \in outbox)
      OBVIOUS
    <3> QED
      BY <3>1, <3>2
  <2>3. Threaded' /\ Quiet'
    BY <1>0, <2>1, <2>2 DEF Threaded, Quiet, EventsOf, Orphaned
  <2>4. \A x : Outdated(x) => Outdated(x)'
    BY <2>1 DEF Outdated, Bound
  <2>5. StaleKnown'
    BY <1>0, <2>1, <2>2, <2>4 DEF StaleKnown
  <2> QED
    BY <2>3, <2>5
<1>8. CASE StartSweep \/ UNCHANGED vars
  <2>1. UNCHANGED <<docs, answers, outbox, loop, space>>
    BY <1>8 DEF StartSweep, vars, world, store
  <2> QED
    BY <1>0, <2>1, FreshSame DEF Bound, Orphaned
<1>9. CASE Forget
  <2>1. Drop(EventsOf(sweep.ns)) /\ loop' = loop
        /\ space' = [space EXCEPT ![sweep.ns] = NoSpace]
    BY <1>9 DEF Forget
  <2>2. \A m \in Names : /\ Orphaned(m)' => Orphaned(m)
                         /\ Bound(m) => Bound(m)' \/ m = sweep.ns
    BY <2>1 DEF Bound, Orphaned, NoSpace, TypeOK, StoreOK
  <2> QED
    BY <1>0, <2>1, <2>2, FreshDrop
<1>10. CASE QueueRoleMap
  <2>1. Queue({RoleMap(reporter)}) /\ loop' = loop /\ space' = space
    BY <1>10 DEF QueueRoleMap
  <2> QED
    BY <1>0, <2>1, RoleMapOf, FreshQueue
<1> QED
  BY <1>0, <1>1, <1>2, <1>3, <1>4, <1>5, <1>6, <1>7, <1>8, <1>9, <1>10
     DEF Next, Receiving, Sending, Sweeping

\* Only an answer orphans a namespace.
LEMMA OrphanOnly ==
    ASSUME TypeOK, [Next]_vars, NEW n \in Names, ~Orphaned(n), Orphaned(n)'
    PROVE  \E x \in answers :
              TakeAnswer(x) /\ x.code = "unknownNamespace" /\ x.entry.ns = n /\ Bound(n)
<1>1. ASSUME NEW x \in answers, TakeAnswer(x)
      PROVE  x.code = "unknownNamespace" /\ x.entry.ns = n /\ Bound(n)
  <2>1. space' # space
    BY DEF Orphaned
  <2>2. x.code = "unknownNamespace" /\ Bound(x.entry.ns)
    BY <1>1, <2>1 DEF TakeAnswer
  <2>3. \A m \in Names \ {x.entry.ns} : space'[m] = space[m]
    BY <1>1, <2>2 DEF TakeAnswer, TypeOK, StoreOK
  <2> QED
    BY <2>2, <2>3 DEF Orphaned
<1>2. ASSUME NEW m \in Names,
             \/ Vtc(m) \/ Callback(m) \/ Expire(m) \/ ProofFails(m) \/ Work(m)
             \/ ReadRoleMap(m) \/ RetentionPasses(m) \/ CheckForgotten(m) \/ Bind(m)
      PROVE  FALSE
  <2>1. space'[n].state \in {space[n].state, "bound", "none"}
    BY <1>2, Parts DEF Vtc, VtcBinds, VtcWorks, VtcLoses, VtcRegains, Callback, Expire,
            ProofFails, Work, StartWork, Record, Manage, ReadRoleMap, RetentionPasses,
            CheckForgotten, Bind, Proven, TakeOver, PutBound, Tell, Retire, NoSpace, Spaces,
            store, TypeOK, StoreOK
  <2> QED
    BY <2>1 DEF Bound, Orphaned
<1>3. ASSUME \/ \E d \in docs : VtcHears(d)
             \/ \E j \in asked : TakeJob(j)
             \/ Loop \/ Sending \/ StartSweep \/ Forget \/ QueueRoleMap \/ Crash
             \/ UNCHANGED vars
      PROVE  FALSE
  <2>1. space'[n].state \in {space[n].state, "bound", "pending", "none"}
    <3>1. ASSUME NEW j \in asked, TakeJob(j) PROVE space'[n].state \in {space[n].state, "bound"}
      <4>1. space[n] \in Spaces /\ space[j.ns] \in Spaces /\ j.ns \in Names
        BY Parts DEF TypeOK, WorldOK
      <4>2. space'[n] = space[n]
            \/ space'[n] = [space[n] EXCEPT !.state = "bound", !.due = FALSE]
        BY <3>1, <4>1 DEF TakeJob, TypeOK, StoreOK
      <4> QED
        BY <4>1, <4>2 DEF Spaces
    <3>2. CASE BeginBind
      BY <3>2, Parts DEF BeginBind, Spaces, TypeOK, StoreOK
    <3>3. CASE Forget
      BY <3>3 DEF Forget, NoSpace, TypeOK, StoreOK
    <3>4. CASE \/ \E d \in docs : VtcHears(d)
               \/ AdmitWork \/ ServeAgain \/ DropWaiting \/ Sending \/ StartSweep
               \/ QueueRoleMap \/ Crash \/ UNCHANGED vars
      BY <3>4 DEF VtcHears, AdmitWork, ServeAgain, DropWaiting, Sending, PickEntry, SendEntry,
              StartSweep, QueueRoleMap, Crash, vars, store
    <3> QED
      BY <1>3, <3>1, <3>2, <3>3, <3>4 DEF Loop
  <2> QED
    BY <2>1 DEF Bound, Orphaned
<1> QED
  BY <1>1, <1>2, <1>3 DEF Next, Receiving, Sweeping

\* What it answers was sent since a job last brought the namespace back.
LEMMA OrphanStep ==
    ASSUME TypeOK, FreshInv, [Next]_vars, NEW n \in Names,
           Bound(n), Orphaned(n)', Never({"crash"})
    PROVE  \E a \in answers \ answers' :
                a.entry.ns = n /\ a.code = "unknownNamespace" /\ a.fresh
<1>1. PICK a \in answers : TakeAnswer(a) /\ a.code = "unknownNamespace" /\ a.entry.ns = n
  BY OrphanOnly DEF Bound, Orphaned
<1>2. Drop({a.entry}) /\ loop.at = "idle"
  BY <1>1 DEF TakeAnswer
<1>3. a \notin answers'
  BY <1>2 DEF Drop, Unhold
<1>4. a.fresh
  BY <1>2, IdleFresh DEF FreshInv
<1> QED
  BY <1>1, <1>3, <1>4

\* A namespace is orphaned only on the VTC's word about an event sent since the
\* VTC last brought it back, as long as no crash cuts the orphaning off.
THEOREM OrphanedByFreshWord == Spec => OrphanedOnFreshWord
<1>1. Init => FreshInv
  BY DEF Init, FreshInv, Threaded, Quiet, StaleKnown, EventsOf
<1>2. TypeOK /\ FreshInv /\ [Next]_vars =>
        [\A n \in Names : Bound(n) /\ Orphaned(n)' /\ Never({"crash"}) =>
            \E a \in answers \ answers' :
                a.entry.ns = n /\ a.code = "unknownNamespace" /\ a.fresh]_vars
  BY OrphanStep
<1> QED
  BY <1>1, <1>2, FreshStep, TypeCorrect, PTL DEF Spec, OrphanedOnFreshWord

----------------------------------------------------------------------------
(* A re-binding is whole.  Four invariants, each with the parts that make  *)
(* it inductive.                                                           *)

\* Jobs and re-bindings: a job at work holds its namespace's lock, so only a
\* bind that has read the record can take it away, and is noted to have.
WorkPart(n) ==
    /\ work[n].at = "dead" => n \in overtaken
    /\ AtWork(n) => lock[n] = "job" /\ (space[n].state # "none" \/ n \in overtaken)
    /\ \A m \in Names : AtWork(n) /\ Holds(m, n) => n \in overtaken

WorkInv ==
    /\ \A n \in Names : WorkPart(n)
    /\ sweep.at = "deleting" => lock[sweep.ns] = "sweep"
    /\ loop.at = "work" => work[loop.ns].at = "none"

\* A bind's callback holds what it has come to: an id being taken over only
\* between two transactions, a set of repositories only before it is stored.
BinderPart(m) ==
    /\ binder[m].old # Nobody => binder[m].at = "taking" /\ Retired(binder[m].old)
    /\ binder[m].managed # {} => binder[m].at \in {"moving", "taking"}
    /\ binder[m].done # {} => binder[m].at \in {"moving", "taking", "telling"}

BinderInv == \A m \in Names : BinderPart(m)

\* A retired id that was not late has no bind left that could bring it back.
RetireInv ==
    Never({"crash"}) =>
        \A n \in Names \ late : Retired(n) =>
            \/ \E m \in Names : binder[m].old = n
            \/ space[n].state = "none" /\ binder[n].at = "resting" /\ n \notin flows

\* While the VTC has lost nothing it answers "ok" or refuses, for each
\* namespace it ever asked to be bound, and nothing is orphaned; and what
\* supersedes an id is at it, has it on an event of its own, or was heard.
Untouched(n) ==
    n \notin flows /\ binder[n].at = "resting" /\ reporter # n /\ space[n].state = "none"

MessagesKnown ==
    /\ \A j \in asked : vtc[j.ns] = "has"
    /\ \A e \in outbox \cup sending : vtc[e.ns] = "has"
    /\ \A d \in docs : vtc[d.entry.ns] = "has"
    /\ \A x \in answers : x.code # "unknownNamespace"

Unlost ==
    /\ \A n \in Names : ~Orphaned(n) /\ (vtc[n] # "has" => Untouched(n))
    /\ MessagesKnown
    /\ loop.at # "idle" => vtc[loop.ns] = "has"
    /\ loop.at # "drop" /\ sweep.at = "idle"

LossInv == Never({"loss"}) => Unlost

Heard ==
    /\ \A e \in outbox \cup sending : e.what = "roleMap" => e.names = {}
    /\ \A x \in answers : x.code = "ok" => x.entry.names \subseteq told

Reported(n, s) ==
    \/ n \in told \/ Retired(s)
    \/ n \in binder[s].done \cup {binder[s].old}
    \/ \E e \in outbox : e.ns = s /\ n \in e.names

ReportInv ==
    /\ Heard
    /\ Never({"crash", "loss"}) =>
        \A n \in Names : Retired(n) => Reported(n, successor[n])

\* What a bind pools covers the records it is to move, and its own.
Has(n, r) ==
    \/ r \in space[n].managed \cup binder[n].managed
    \/ work[n].at = "noting" /\ r \in work[n].repos

Held == \A r \in Repos : repoOf[r] # Nobody => Has(repoOf[r], r)

Pooling(n) ==
    /\ n \notin binder[n].left
    /\ \A r \in Repos :
        /\ repoOf[r] \in binder[n].left \cup {n} => r \in binder[n].managed
        /\ repoOf[r] # Nobody => repoOf[r] # binder[n].old

HandInv == Smooth => Held /\ \A n \in Names : Taking(n) => Pooling(n)

\* What each step of a bind's callback makes of it.
BinderAt(at, managed, left, old, done) ==
    [at |-> at, managed |-> managed, left |-> left, old |-> old, done |-> done]

LEMMA BinderEffect ==
    ASSUME TypeOK, NEW n \in Names
    PROVE  /\ Callback(n) \/ ProofFails(n) \/ Bind(n) =>
                \A m \in Names \ {n} : binder'[m] = binder[m]
           /\ Callback(n) => binder'[n] = BinderAt("proving", {}, {}, Nobody, {})
           /\ ProofFails(n) \/ Tell(n) => binder'[n] = BinderAt("resting", {}, {}, Nobody, {})
           /\ Proven(n) => binder'[n] = BinderAt("moving", Pooled(n), Earlier(n), Nobody, {})
           /\ \A o \in Names : Retire(n, o) => binder'[n] =
                BinderAt("taking", binder[n].managed, binder[n].left, o, binder[n].done)
           /\ TakeOver(n) => binder'[n] =
                BinderAt("moving", binder[n].managed, binder[n].left \ {binder[n].old}, Nobody,
                         binder[n].done \cup {binder[n].old})
           /\ PutBound(n) => binder'[n] =
                BinderAt("telling", {}, binder[n].left, binder[n].old, binder[n].done)
<1>1. binder \in [Names -> Binders] /\ binder[n] \in Binders
  BY DEF TypeOK, TasksOK
<1>0. binder[n] = BinderAt(binder[n].at, binder[n].managed, binder[n].left, binder[n].old,
                           binder[n].done)
  BY <1>1 DEF Binders, BinderAt
<1>2. Callback(n) \/ ProofFails(n) \/ Bind(n) => \A m \in Names \ {n} : binder'[m] = binder[m]
  BY <1>1 DEF Callback, ProofFails, Bind, Proven, Retire, TakeOver, PutBound, Tell
<1>3. Callback(n) => binder'[n] = BinderAt("proving", {}, {}, Nobody, {})
  BY <1>1 DEF Callback, Resting, BinderAt
<1>4. ProofFails(n) \/ Tell(n) => binder'[n] = BinderAt("resting", {}, {}, Nobody, {})
  BY <1>1 DEF ProofFails, Tell, Resting, BinderAt
<1>5. Proven(n) => binder'[n] = BinderAt("moving", Pooled(n), Earlier(n), Nobody, {})
  BY <1>1 DEF Proven, Resting, BinderAt
<1>6. \A o \in Names : Retire(n, o) => binder'[n] =
         BinderAt("taking", binder[n].managed, binder[n].left, o, binder[n].done)
  BY <1>0, <1>1 DEF Retire, BinderAt
<1>7. TakeOver(n) => binder'[n] =
         BinderAt("moving", binder[n].managed, binder[n].left \ {binder[n].old}, Nobody,
                  binder[n].done \cup {binder[n].old})
  BY <1>0, <1>1 DEF TakeOver, BinderAt
<1>8. PutBound(n) => binder'[n] =
         BinderAt("telling", {}, binder[n].left, binder[n].old, binder[n].done)
  BY <1>0, <1>1 DEF PutBound, BinderAt
<1> QED
  BY <1>2, <1>3, <1>4, <1>5, <1>6, <1>7, <1>8

\* Nobody else writes the callbacks, or the ids' successors.
LEMMA BinderOnly ==
    ASSUME [Next]_vars
    PROVE  \/ \E n \in Names : Callback(n) \/ ProofFails(n) \/ Bind(n)
           \/ Crash
           \/ UNCHANGED <<binder, successor, hasty, late>>
<1>1. ASSUME NEW n \in Names,
             \/ Vtc(n) \/ Expire(n) \/ Work(n) \/ ReadRoleMap(n) \/ RetentionPasses(n)
             \/ CheckForgotten(n)
      PROVE  UNCHANGED <<binder, successor, hasty, late>>
  BY <1>1 DEF Vtc, VtcBinds, VtcWorks, VtcLoses, VtcRegains, Expire, Work, StartWork, Record,
          Manage, ReadRoleMap, RetentionPasses, CheckForgotten, store, tasks, history
<1>2. ASSUME Receiving PROVE UNCHANGED <<binder, successor, hasty, late>>
  BY <1>2 DEF Receiving, Loop, TakeJob, TakeAnswer, BeginBind, AdmitWork, ServeAgain,
          DropWaiting, store, tasks, history
<1>3. ASSUME (\E d \in docs : VtcHears(d)) \/ Sending \/ StartSweep \/ Forget \/ QueueRoleMap
      PROVE  UNCHANGED <<binder, successor, hasty, late>>
  BY <1>3 DEF VtcHears, Sending, PickEntry, SendEntry, StartSweep, Forget, QueueRoleMap,
          store, tasks, history
<1>4. UNCHANGED vars => UNCHANGED <<binder, successor, hasty, late>>
  BY DEF vars
<1> QED
  BY <1>1, <1>2, <1>3, <1>4 DEF Next, Sweeping

\* A retired id stays so, and only a bind that moves it retires one.
LEMMA RetiredStays ==
    ASSUME TypeOK, [Next]_vars, NEW n \in Names
    PROVE  /\ Retired(n) => Retired(n)'
           /\ successor'[n] = successor[n] \/ \E m \in Names : Retire(m, n)
<1>1. UNCHANGED successor \/ \E m, o \in Names : Retire(m, o)
  BY BinderOnly DEF Bind, Callback, ProofFails, Proven, TakeOver, PutBound, Tell, Crash, store
<1>2. ASSUME NEW m \in Names, NEW o \in Names, Retire(m, o)
      PROVE  /\ Retired(n) => Retired(n)'
             /\ successor'[n] = successor[n] \/ n = o
  BY <1>2, NameAssumption DEF Retire, Retired, TypeOK, StoreOK
<1> QED
  BY <1>1, <1>2 DEF Retired

LEMMA BinderStep == TypeOK /\ BinderInv /\ [Next]_vars => BinderInv'
<1> SUFFICES ASSUME TypeOK, BinderInv, [Next]_vars, NEW m \in Names
             PROVE  BinderPart(m)'
  BY DEF BinderInv
<1>1. binder[m].old # Nobody => binder[m].old \in Names
  BY Parts DEF Binders
<1>2. CASE binder'[m] = binder[m]
  BY <1>1, <1>2, RetiredStays DEF BinderInv, BinderPart
<1>3. CASE Callback(m) \/ ProofFails(m) \/ Proven(m) \/ Tell(m)
  <2>1. \E managed, left : \E at \in {"resting", "proving", "moving"} :
           /\ binder'[m] = BinderAt(at, managed, left, Nobody, {})
           /\ managed = {} \/ at = "moving"
    BY <1>3, BinderEffect
  <2> QED BY <2>1 DEF BinderPart, BinderAt
<1>4. ASSUME NEW o \in Names, Retire(m, o) PROVE BinderPart(m)'
  <2>1. binder'[m] =
           BinderAt("taking", binder[m].managed, binder[m].left, o, binder[m].done)
    BY <1>4, BinderEffect
  <2>2. Retired(o)'
    BY <1>4, NameAssumption DEF Retire, Retired, TypeOK, StoreOK
  <2>3. binder'[m].old = o /\ binder'[m].at = "taking"
    BY <2>1 DEF BinderAt
  <2> QED BY <2>2, <2>3 DEF BinderPart, Retired
<1>5. CASE TakeOver(m)
  <2>1. binder'[m] =
           BinderAt("moving", binder[m].managed, binder[m].left \ {binder[m].old}, Nobody,
                    binder[m].done \cup {binder[m].old})
    BY <1>5, BinderEffect
  <2> QED BY <2>1 DEF BinderPart, BinderAt
<1>6. CASE PutBound(m)
  <2>1. binder[m].old = Nobody
    BY <1>6 DEF PutBound, BinderInv, BinderPart
  <2>2. binder'[m] = BinderAt("telling", {}, binder[m].left, Nobody, binder[m].done)
    BY <1>6, <2>1, BinderEffect
  <2> QED BY <2>2 DEF BinderPart, BinderAt
<1>7. CASE Crash
  BY <1>7 DEF Crash, Resting, BinderPart
<1> QED
  BY <1>2, <1>3, <1>4, <1>5, <1>6, <1>7, BinderOnly, BinderEffect DEF Bind

\* A bind comes to hold a record only by reading it.
LEMMA HoldsStep ==
    ASSUME TypeOK, [Next]_vars, NEW m \in Names, NEW n \in Names, Holds(m, n)'
    PROVE  Holds(m, n) \/ (Proven(m) /\ n \in Earlier(m) \cup {m})
<1>1. CASE binder'[m] = binder[m]
  BY <1>1 DEF Holds
<1>2. CASE Callback(m) \/ ProofFails(m) \/ Tell(m)
  <2>1. \E at \in {"resting", "proving"} : binder'[m] = BinderAt(at, {}, {}, Nobody, {})
    BY <1>2, BinderEffect
  <2> QED BY <2>1 DEF BinderAt, Holds
<1>3. CASE Proven(m)
  <2>1. binder'[m] = BinderAt("moving", Pooled(m), Earlier(m), Nobody, {})
    BY <1>3, BinderEffect
  <2> QED BY <1>3, <2>1, NameAssumption DEF BinderAt, Holds
<1>4. ASSUME NEW o \in Names, Retire(m, o) PROVE Holds(m, n)
  <2>1. binder'[m] =
           BinderAt("taking", binder[m].managed, binder[m].left, o, binder[m].done)
    BY <1>4, BinderEffect
  <2>2. binder[m].at = "moving" /\ o \in binder[m].left
    BY <1>4 DEF Retire
  <2> QED BY <2>1, <2>2 DEF BinderAt, Holds
<1>5. CASE TakeOver(m)
  <2>1. binder'[m] =
           BinderAt("moving", binder[m].managed, binder[m].left \ {binder[m].old}, Nobody,
                    binder[m].done \cup {binder[m].old})
    BY <1>5, BinderEffect
  <2>2. binder[m].at = "taking"
    BY <1>5 DEF TakeOver
  <2> QED BY <2>1, <2>2, NameAssumption DEF BinderAt, Holds
<1>6. CASE PutBound(m)
  <2>1. binder'[m] =
           BinderAt("telling", {}, binder[m].left, binder[m].old, binder[m].done)
    BY <1>6, BinderEffect
  <2> QED BY <2>1 DEF BinderAt, Holds
<1>7. CASE Crash
  BY <1>7 DEF Crash, Resting, Holds
<1> QED
  BY <1>1, <1>2, <1>3, <1>4, <1>5, <1>6, <1>7, BinderOnly, BinderEffect DEF Bind

LEMMA ProvenMoves ==
    ASSUME TypeOK, NEW m \in Names, Proven(m) PROVE binder' # binder
<1>1. binder'[m] = BinderAt("moving", Pooled(m), Earlier(m), Nobody, {})
  BY BinderEffect
<1>2. binder[m].at = "proving"
  BY DEF Proven
<1> QED BY <1>1, <1>2 DEF BinderAt

\* A step that leaves the jobs, the locks and the sweep alone.
LEMMA WorkCalm ==
    ASSUME TypeOK, WorkInv, [Next]_vars, UNCHANGED <<work, lock>>,
           overtaken \subseteq overtaken',
           sweep' = sweep \/ sweep'.at # "deleting",
           loop' = loop \/ (loop'.at = "work" => work[loop'.ns].at = "none"),
           \A m \in Names : Proven(m) =>
              \A n \in Earlier(m) \cup {m} : AtWork(n) => n \in overtaken',
           \A n \in Names : space'[n].state = "none" =>
              space[n].state = "none" \/ (\E m \in Names : Holds(m, n)) \/ ~AtWork(n)
    PROVE  WorkInv'
<1>1. ASSUME NEW n \in Names PROVE WorkPart(n)'
  <2>1. AtWork(n)' <=> AtWork(n)
    BY DEF AtWork
  <2>2. ASSUME NEW m \in Names, AtWork(n), Holds(m, n)' PROVE n \in overtaken'
    BY <2>2, HoldsStep DEF WorkInv, WorkPart
  <2> QED BY <2>1, <2>2 DEF WorkInv, WorkPart
<1>2. sweep'.at = "deleting" => lock'[sweep'.ns] = "sweep"
  BY DEF WorkInv
<1>3. loop'.at = "work" => work'[loop'.ns].at = "none"
  BY DEF WorkInv
<1> QED BY <1>1, <1>2, <1>3 DEF WorkInv

\* So do the binds, and what changes no job and no record.
LEMMA WorkBinds ==
    ASSUME TypeOK, WorkInv, [Next]_vars, NEW n \in Names,
           \/ Vtc(n) \/ Callback(n) \/ Expire(n) \/ ProofFails(n) \/ Bind(n)
           \/ ReadRoleMap(n) \/ RetentionPasses(n)
    PROVE  WorkInv'
<1>1. UNCHANGED <<work, lock, sweep, loop>> /\ overtaken \subseteq overtaken'
  BY DEF Vtc, VtcBinds, VtcWorks, VtcLoses, VtcRegains, Callback, Expire, ProofFails, Bind,
     Proven, Retire, TakeOver, PutBound, Tell, ReadRoleMap, RetentionPasses, tasks, history
<1>2. \A m \in Names : Proven(m) =>
         \A o \in Earlier(m) \cup {m} : AtWork(o) => o \in overtaken'
  BY DEF Proven
<1>3. ASSUME NEW o \in Names, space'[o].state = "none"
      PROVE  space[o].state = "none" \/ \E m \in Names : Holds(m, o)
  <2>1. CASE \/ Vtc(n) \/ Callback(n) \/ Expire(n) \/ ProofFails(n) \/ Proven(n) \/ Tell(n)
             \/ ReadRoleMap(n) \/ \E x \in Names : Retire(n, x)
    <3>1. space' = space
      BY <2>1 DEF Vtc, VtcBinds, VtcWorks, VtcLoses, VtcRegains, Callback, Expire,
         ProofFails, Proven, Tell, ReadRoleMap, Retire, store
    <3> QED BY <1>3, <3>1
  <2>2. CASE TakeOver(n)
    <3>1. binder[n].at = "taking" /\ space' = [space EXCEPT ![binder[n].old] = NoSpace]
      BY <2>2 DEF TakeOver
    <3>2. o = binder[n].old => Holds(n, o)
      BY <3>1 DEF Holds
    <3>3. o # binder[n].old => space'[o] = space[o]
      BY <3>1 DEF TypeOK, StoreOK
    <3> QED BY <1>3, <3>2, <3>3
  <2>3. CASE PutBound(n)
    BY <1>3, <2>3 DEF PutBound, TypeOK, StoreOK
  <2>4. CASE RetentionPasses(n)
    BY <1>3, <2>4, Parts DEF RetentionPasses, Spaces, TypeOK, StoreOK
  <2> QED BY <2>1, <2>2, <2>3, <2>4 DEF Bind
<1> QED BY <1>1, <1>2, <1>3, WorkCalm

\* So does the loop, but for the job it spawns, where none was.
LEMMA WorkLoop ==
    ASSUME TypeOK, WorkInv, [Next]_vars, Receiving
    PROVE  WorkInv'
<1>1. UNCHANGED <<lock, sweep, overtaken, binder>>
  BY DEF Receiving, Loop, TakeJob, TakeAnswer, BeginBind, AdmitWork, ServeAgain, DropWaiting,
     tasks, history
<1>2. \A m \in Names : ~Proven(m)
  <2>1. ASSUME NEW m \in Names, Proven(m) PROVE FALSE
    BY <1>1, <2>1, ProvenMoves
  <2> QED BY <2>1
<1>3. \A n \in Names : space'[n].state = "none" => space[n].state = "none"
  <2>1. ASSUME NEW j \in asked, TakeJob(j), NEW n \in Names
        PROVE  space'[n].state \in {space[n].state, "bound"}
    <3>1. space[n] \in Spaces /\ space[j.ns] \in Spaces
      BY <2>1, Parts DEF TypeOK, WorldOK
    <3>2. space'[n] = space[n]
          \/ space'[n] = [space[n] EXCEPT !.state = "bound", !.due = FALSE]
      BY <2>1, <3>1 DEF TakeJob, TypeOK, StoreOK
    <3> QED BY <3>1, <3>2 DEF Spaces
  <2>2. ASSUME NEW x \in answers, TakeAnswer(x), NEW n \in Names
        PROVE  space'[n].state \in {space[n].state, "orphaned"}
    <3>1. space[n] \in Spaces
      BY <2>2, Parts
    <3>2. space'[n] = space[n]
          \/ space'[n] = [space[n] EXCEPT !.state = "orphaned", !.due = FALSE]
      BY <2>2, <3>1 DEF TakeAnswer, TypeOK, StoreOK
    <3> QED BY <3>1, <3>2 DEF Spaces
  <2>3. ASSUME BeginBind, NEW n \in Names
        PROVE  space'[n].state \in {space[n].state, "pending"}
    BY <2>3, Parts DEF BeginBind, Spaces, TypeOK, StoreOK
  <2>4. ASSUME AdmitWork \/ ServeAgain \/ DropWaiting PROVE space' = space
    BY <2>4 DEF AdmitWork, ServeAgain, DropWaiting, store
  <2> QED BY <2>1, <2>2, <2>3, <2>4 DEF Receiving, Loop
<1>4. CASE AdmitWork
  <2>1. loop.at = "work" /\ loop.ns \in Names /\ work[loop.ns].at = "none"
    BY <1>4 DEF AdmitWork, TypeOK, TasksOK, WorkInv
  <2>2. loop'.at # "work"
    BY <1>4, <2>1 DEF AdmitWork, Answer, Idle, TypeOK, TasksOK, Loops
  <2>3. PICK r \in Repos :
           work' = IF Bound(loop.ns)
                   THEN [work EXCEPT ![loop.ns] = [at |-> "queued", repos |-> {r}]] ELSE work
    BY <1>4 DEF AdmitWork
  <2>4. \A n \in Names : work'[n] = work[n] \/ work'[n].at = "queued"
    BY <2>3 DEF TypeOK, TasksOK
  <2>5. \A m, n \in Names : Holds(m, n)' <=> Holds(m, n)
    BY <1>1 DEF Holds
  <2>6. ASSUME NEW n \in Names PROVE WorkPart(n)'
    BY <1>1, <1>3, <2>4, <2>5 DEF WorkInv, WorkPart, AtWork
  <2> QED BY <1>1, <2>2, <2>6 DEF WorkInv
<1>5. ASSUME \/ BeginBind \/ ServeAgain \/ DropWaiting
             \/ (\E j \in asked : TakeJob(j)) \/ \E x \in answers : TakeAnswer(x)
      PROVE  UNCHANGED work
             /\ (loop' = loop \/ (loop'.at = "work" => work[loop'.ns].at = "none"))
  <2>1. ASSUME NEW j \in asked, TakeJob(j)
        PROVE  work' = work /\ (loop'.at = "work" => work[loop'.ns].at = "none")
    BY <2>1 DEF TakeJob
  <2>2. ASSUME NEW x \in answers, TakeAnswer(x)
        PROVE  work' = work /\ (loop' = loop \/ loop'.at = "drop")
    BY <2>2 DEF TakeAnswer, Idle
  <2>3. CASE BeginBind
    BY <2>3 DEF BeginBind, Answer, Idle, TypeOK, TasksOK, Loops
  <2>4. CASE ServeAgain \/ DropWaiting
    BY <2>4 DEF ServeAgain, DropWaiting, Idle
  <2> QED BY <1>5, <2>1, <2>2, <2>3, <2>4
<1> QED BY <1>1, <1>2, <1>3, <1>4, <1>5, WorkCalm DEF Receiving, Loop

\* A job starts, acts and ends under its namespace's lock.
LEMMA WorkWorks ==
    ASSUME TypeOK, WorkInv, NEW k \in Names, Work(k)
    PROVE  WorkInv'
<1>1. UNCHANGED <<binder, sweep, loop>> /\ overtaken \subseteq overtaken'
  BY DEF Work, StartWork, Record, Manage, tasks, history
<1>2. \A m, n \in Names : Holds(m, n)' <=> Holds(m, n)
  BY <1>1 DEF Holds
<1>3. work[k] \in Works /\ work \in [Names -> Works] /\ lock \in [Names -> {"free", "job", "sweep"}]
      /\ space[k] \in Spaces /\ space \in [Names -> Spaces]
  BY DEF TypeOK, TasksOK, StoreOK
<1>4. \A n \in Names \ {k} : /\ work'[n] = work[n] /\ lock'[n] = lock[n]
                             /\ space'[n] = space[n]
  BY <1>3 DEF Work, StartWork, Record, Manage, store
<1>5. ASSUME NEW n \in Names, n # k PROVE WorkPart(n)'
  BY <1>1, <1>2, <1>4, <1>5 DEF WorkInv, WorkPart, AtWork
<1>6. work[k].at \in {"queued", "acting", "noting"}
  BY DEF Work, StartWork, Record, Manage
<1>7. loop'.at = "work" => work'[loop'.ns].at = "none"
  <2>1. loop.at = "work" => loop.ns \in Names /\ loop.ns # k
    BY <1>6 DEF WorkInv, TypeOK, TasksOK
  <2> QED BY <1>1, <1>4, <2>1 DEF WorkInv
<1>8. WorkPart(k)' /\ (sweep'.at = "deleting" => lock'[sweep'.ns] = "sweep")
  <2>0. sweep.at = "deleting" => sweep.ns \in Names /\ lock[sweep.ns] = "sweep"
    BY DEF WorkInv, TypeOK, TasksOK
  <2>1. CASE StartWork(k) /\ Bound(k)
    <3>1. work'[k].at = "acting" /\ lock'[k] = "job" /\ space' = space /\ lock[k] = "free"
      BY <1>3, <2>1 DEF StartWork, Works, store
    <3>2. (\E m \in Names : Holds(m, k)) => k \in overtaken'
      BY <2>1 DEF StartWork
    <3>3. space'[k].state # "none"
      BY <2>1, <3>1 DEF Bound
    <3> QED BY <1>1, <1>2, <1>4, <2>0, <3>1, <3>2, <3>3 DEF WorkPart, AtWork
  <2>2. CASE StartWork(k) /\ ~Bound(k)
    <3>1. work'[k].at = "none" /\ lock' = lock
      BY <1>3, <2>2 DEF StartWork, NoWork
    <3> QED BY <1>1, <2>0, <3>1 DEF WorkPart, AtWork
  <2>3. CASE Record(k)
    <3>1. work'[k].at = "noting" /\ lock' = lock /\ space' = space /\ AtWork(k)
      BY <1>3, <2>3 DEF Record, Works, AtWork
    <3> QED BY <1>1, <1>2, <2>0, <3>1 DEF WorkInv, WorkPart, AtWork
  <2>4. CASE Manage(k)
    <3>1. work'[k].at \in {"dead", "none"} /\ (work'[k].at = "dead" => space[k].state = "none")
      BY <1>3, <2>4 DEF Manage, Works, NoWork
    <3>2. AtWork(k) /\ lock[k] = "job"
      BY <2>4 DEF Manage, AtWork, WorkInv, WorkPart
    <3>3. space[k].state = "none" => k \in overtaken
      BY <3>2 DEF WorkInv, WorkPart
    <3> QED BY <1>1, <1>4, <2>0, <3>1, <3>2, <3>3 DEF WorkPart, AtWork
  <2> QED BY <2>1, <2>2, <2>3, <2>4 DEF Work
<1> QED BY <1>5, <1>7, <1>8 DEF WorkInv

\* The sweep takes a record only under the lock.
LEMMA WorkSwept ==
    ASSUME TypeOK, WorkInv,
           Forget \/ \E k \in Names : CheckForgotten(k)
    PROVE  WorkInv'
<1>1. UNCHANGED <<binder, work, loop, overtaken>>
  BY DEF Forget, CheckForgotten, history
<1>2. \A m, n \in Names : Holds(m, n)' <=> Holds(m, n)
  BY <1>1 DEF Holds
<1>3. lock \in [Names -> {"free", "job", "sweep"}] /\ space \in [Names -> Spaces]
  BY DEF TypeOK, TasksOK, StoreOK
<1>4. CASE Forget
  <2>1. sweep.at = "deleting" /\ sweep.ns \in Names /\ lock[sweep.ns] = "sweep"
    BY <1>4 DEF Forget, WorkInv, TypeOK, TasksOK
  <2>2. sweep'.at # "deleting"
    BY <1>4, NextSweptType DEF Forget
  <2>3. \A n \in Names \ {sweep.ns} : lock'[n] = lock[n] /\ space'[n] = space[n]
    BY <1>3, <1>4 DEF Forget
  <2>4. ASSUME NEW n \in Names PROVE WorkPart(n)'
    BY <1>1, <1>2, <2>1, <2>3 DEF WorkInv, WorkPart, AtWork
  <2> QED BY <1>1, <2>2, <2>4 DEF WorkInv
<1>5. ASSUME NEW k \in Names, CheckForgotten(k) PROVE WorkInv'
  <2>1. space' = space /\ lock[k] = "free" /\ ~AtWork(k)
    BY <1>5 DEF CheckForgotten, Unlocked, store, WorkInv, WorkPart
  <2>2. \A n \in Names \ {k} : lock'[n] = lock[n]
    BY <1>3, <1>5 DEF CheckForgotten
  <2>3. ASSUME NEW n \in Names PROVE WorkPart(n)'
    BY <1>1, <1>2, <2>1, <2>2 DEF WorkInv, WorkPart, AtWork
  <2>4. sweep'.at = "deleting" => lock'[sweep'.ns] = "sweep"
    <3>1. CASE Orphaned(k)
      BY <1>3, <1>5, <3>1 DEF CheckForgotten, TypeOK, TasksOK, Sweeps
    <3>2. CASE ~Orphaned(k)
      BY <1>5, <3>2, NextSweptType DEF CheckForgotten
    <3> QED BY <3>1, <3>2
  <2> QED BY <1>1, <2>3, <2>4 DEF WorkInv
<1> QED BY <1>4, <1>5

LEMMA WorkStep == TypeOK /\ WorkInv /\ [Next]_vars => WorkInv'
<1> SUFFICES ASSUME TypeOK, WorkInv, [Next]_vars PROVE WorkInv'
  OBVIOUS
<1>1. ASSUME \/ (\E d \in docs : VtcHears(d)) \/ Sending \/ StartSweep \/ QueueRoleMap
             \/ UNCHANGED vars
      PROVE  WorkInv'
  <2>1. UNCHANGED <<work, lock, overtaken, loop, space, binder>>
        /\ (sweep' = sweep \/ sweep'.at # "deleting")
    <3>1. CASE (\E d \in docs : VtcHears(d)) \/ Sending \/ QueueRoleMap \/ UNCHANGED vars
      BY <3>1 DEF VtcHears, Sending, PickEntry, SendEntry, QueueRoleMap, vars, store, tasks,
         history
    <3>2. CASE StartSweep
      BY <3>2 DEF StartSweep, store, history
    <3> QED BY <1>1, <3>1, <3>2
  <2>2. \A m \in Names : ~Proven(m)
    <3>1. ASSUME NEW m \in Names, Proven(m) PROVE FALSE
      BY <2>1, <3>1, ProvenMoves
    <3> QED BY <3>1
  <2> QED BY <2>1, <2>2, WorkCalm
<1>2. CASE Crash
  <2>1. \A n \in Names : work'[n].at \in {"none", "queued"}
    BY <1>2 DEF Crash, NoWork, TypeOK, TasksOK, Works
  <2>2. sweep'.at = "idle" /\ loop'.at = "idle"
    BY <1>2 DEF Crash, Swept, Idle
  <2> QED BY <2>1, <2>2 DEF WorkInv, WorkPart, AtWork
<1> QED
  BY <1>1, <1>2, WorkBinds, WorkLoop, WorkWorks, WorkSwept DEF Next, Sweeping

\* A job's namespace is taken away under it only by a re-binding that had read
\* its record (Manage finds none; the sweep and the jobs share a lock).
THEOREM DeadOnlyByRebinding == Spec => []DeadOnlyIfOvertaken
<1>1. Init => WorkInv
  BY DEF Init, WorkInv, WorkPart, AtWork, NoWork, Swept, Idle
<1>2. WorkInv => DeadOnlyIfOvertaken
  BY DEF WorkInv, WorkPart, DeadOnlyIfOvertaken
<1> QED BY <1>1, <1>2, WorkStep, TypeCorrect, PTL DEF Spec

\* An id with neither record, link nor callback, that no job is to begin a bind
\* for, has none after any step.
LEMMA GoneStaysGone ==
    ASSUME TypeOK, [Next]_vars, NEW n \in Names,
           loop.at = "bind" /\ loop.ns = n => ~MayBind(n),
           space[n].state = "none", binder[n].at = "resting", n \notin flows
    PROVE  space'[n].state = "none" /\ binder'[n].at = "resting" /\ n \notin flows'
<1>0. ~Bound(n) /\ ~Orphaned(n) /\ ~(n \in flows)
      /\ space \in [Names -> Spaces] /\ space[n] \in Spaces
  BY Parts DEF Bound, Orphaned, TypeOK, StoreOK
<1>1. binder'[n].at = "resting"
  <2>1. CASE binder'[n] = binder[n]
    BY <2>1
  <2>2. CASE binder'[n] # binder[n]
    <3>1. Callback(n) \/ ProofFails(n) \/ Bind(n) \/ Crash
      BY <2>2, BinderOnly, BinderEffect
    <3> QED
      BY <3>1, <1>0 DEF Callback, ProofFails, Bind, Proven, Retire, TakeOver, PutBound, Tell,
         Crash, Resting
  <2> QED BY <2>1, <2>2
<1>2. ASSUME NEW m \in Names,
             \/ Vtc(m) \/ Callback(m) \/ Expire(m) \/ ProofFails(m) \/ Proven(m) \/ Tell(m)
             \/ (\E o \in Names : Retire(m, o)) \/ StartWork(m) \/ Record(m) \/ ReadRoleMap(m)
             \/ CheckForgotten(m)
      PROVE  space'[n].state = "none" /\ n \notin flows'
  BY <1>0, <1>2 DEF Vtc, VtcBinds, VtcWorks, VtcLoses, VtcRegains, Callback, Expire,
     ProofFails, Proven, Tell, Retire, StartWork, Record, ReadRoleMap, CheckForgotten, store
<1>3. ASSUME NEW m \in Names, TakeOver(m) \/ PutBound(m) \/ Manage(m) \/ RetentionPasses(m)
      PROVE  space'[n].state = "none" /\ n \notin flows'
  <2>1. CASE TakeOver(m)
    BY <1>0, <2>1 DEF TakeOver, NoSpace
  <2>2. CASE PutBound(m)
    <3>1. m # n
      BY <2>2 DEF PutBound
    <3> QED BY <1>0, <2>2, <3>1 DEF PutBound
  <2>3. CASE Manage(m)
    <3>1. space'[n] = space[n]
      BY <1>0, <2>3 DEF Manage
    <3> QED BY <1>0, <2>3, <3>1 DEF Manage
  <2>4. CASE RetentionPasses(m)
    <3>1. m # n
      BY <1>0, <2>4 DEF RetentionPasses
    <3> QED BY <1>0, <2>4, <3>1 DEF RetentionPasses
  <2> QED BY <1>3, <2>1, <2>2, <2>3, <2>4
<1>4. ASSUME Receiving PROVE space'[n].state = "none" /\ n \notin flows'
  <2>1. ASSUME NEW j \in asked, TakeJob(j) PROVE space'[n] = space[n] /\ flows' = flows
    BY <1>0, <2>1 DEF TakeJob
  <2>2. ASSUME NEW x \in answers, TakeAnswer(x) PROVE space'[n] = space[n] /\ flows' = flows
    BY <1>0, <2>2 DEF TakeAnswer
  <2>3. ASSUME BeginBind PROVE space'[n] = space[n] /\ n \notin flows'
    BY <1>0, <2>3 DEF BeginBind
  <2>4. ASSUME AdmitWork \/ ServeAgain \/ DropWaiting PROVE space' = space /\ flows' = flows
    BY <2>4 DEF AdmitWork, ServeAgain, DropWaiting, store
  <2> QED BY <1>0, <1>4, <2>1, <2>2, <2>3, <2>4 DEF Receiving, Loop
<1>5. ASSUME (\E d \in docs : VtcHears(d)) \/ Sending \/ StartSweep \/ QueueRoleMap
             \/ Crash \/ UNCHANGED vars
      PROVE  space' = space /\ flows' = flows
  BY <1>5 DEF VtcHears, Sending, PickEntry, SendEntry, StartSweep, QueueRoleMap, Crash, vars,
     store
<1>6. ASSUME Forget PROVE space'[n].state = "none" /\ n \notin flows'
  BY <1>0, <1>6 DEF Forget, NoSpace
<1> QED BY <1>0, <1>1, <1>2, <1>3, <1>4, <1>5, <1>6 DEF Next, Bind, Work, Sweeping

LEMMA RetireStep == TypeOK /\ BinderInv /\ RetireInv /\ [Next]_vars => RetireInv'
<1> SUFFICES ASSUME TypeOK, BinderInv, RetireInv, [Next]_vars, Never({"crash"})',
                    NEW n \in Names, n \notin late', Retired(n)'
             PROVE  \/ \E m \in Names : binder'[m].old = n
                    \/ space'[n].state = "none" /\ binder'[n].at = "resting" /\ n \notin flows'
  BY DEF RetireInv
<1>1. Never({"crash"}) /\ ~Crash
  BY NoCrashBefore
<1>2. n \notin late
  <2>1. UNCHANGED late \/ \E m \in Names : TakeOver(m)
    BY <1>1, BinderOnly DEF Bind, Callback, ProofFails, Proven, Retire, PutBound, Tell, history
  <2> QED BY <2>1 DEF TakeOver
<1>3. ASSUME NEW m \in Names, Retire(m, n) PROVE binder'[m].old = n
  <2>1. binder'[m] =
           BinderAt("taking", binder[m].managed, binder[m].left, n, binder[m].done)
    BY <1>3, BinderEffect
  <2> QED BY <2>1 DEF BinderAt
<1>4. CASE ~\E m \in Names : Retire(m, n)
  <2>1. Retired(n)
    BY <1>4, RetiredStays DEF Retired
  <2>2. ASSUME NEW m \in Names, binder[m].old = n, binder'[m] # binder[m]
        PROVE  space'[n].state = "none" /\ binder'[n].at = "resting" /\ n \notin flows'
    <3>1. binder[m].at = "taking"
      BY <2>2, NameAssumption DEF BinderInv, BinderPart
    <3>2. TakeOver(m)
      <4>1. Callback(m) \/ ProofFails(m) \/ Bind(m)
        BY <1>1, <2>2, BinderOnly, BinderEffect
      <4> QED
        BY <3>1, <4>1 DEF Callback, ProofFails, Bind, Proven, Retire, PutBound, Tell
    <3>3. n \notin flows /\ binder[n].at = "resting"
      BY <2>2, <3>2 DEF TakeOver
    <3>4. n # m
      BY <3>1, <3>3
    <3>5. binder'[n] = binder[n]
      BY <3>2, <3>4, BinderEffect DEF Bind
    <3>6. space'[n] = NoSpace /\ flows' = flows
      BY <2>2, <3>2 DEF TakeOver, TypeOK, StoreOK
    <3> QED BY <3>3, <3>5, <3>6 DEF NoSpace
  <2>3. CASE space[n].state = "none" /\ binder[n].at = "resting" /\ n \notin flows
    BY <2>1, <2>3, GoneStaysGone DEF MayBind
  <2> QED BY <1>1, <1>2, <2>1, <2>2, <2>3 DEF RetireInv
<1> QED BY <1>3, <1>4

LEMMA BinderHolds == Spec => []BinderInv
<1>1. Init => BinderInv
  BY DEF Init, BinderInv, BinderPart, Resting
<1> QED BY <1>1, BinderStep, TypeCorrect, PTL DEF Spec

\* An id that a re-binding retired is not served again, unless a link of it was
\* open then or a crash left its record behind (MayBind, and what retire deletes).
THEOREM RetiredIsGone == Spec => []RetiredStaysRetired
<1>1. Init => RetireInv
  BY DEF Init, RetireInv, Retired
<1>2. RetireInv => RetiredStaysRetired
  BY DEF RetireInv, RetiredStaysRetired
<1> QED BY <1>1, <1>2, RetireStep, BinderHolds, TypeCorrect, PTL DEF Spec

\* What is put in the outbox, sent and answered, and what leaves the outbox.
LEMMA UnholdEntries ==
    ASSUME TypeOK, NEW gone, Unhold(gone)
    PROVE  (\A d \in docs' : \E x \in docs : x.entry = d.entry) /\ answers' \subseteq answers
<1>1. ASSUME NEW d \in docs PROVE [d EXCEPT !.held = FALSE].entry = d.entry
  BY DEF TypeOK, WorldOK, Documents
<1> QED BY <1>1 DEF Unhold, Matter

LEMMA StaleEntries ==
    ASSUME TypeOK, NEW n
    PROVE  /\ \A d \in Stale(docs, n) : \E x \in docs : x.entry = d.entry
           /\ \A y \in Stale(answers, n) : \E x \in answers : x.entry = y.entry /\ x.code = y.code
<1>1. ASSUME NEW d \in docs PROVE [d EXCEPT !.fresh = FALSE].entry = d.entry
  BY DEF TypeOK, WorldOK, Documents
<1>2. ASSUME NEW x \in answers
      PROVE  [x EXCEPT !.fresh = FALSE].entry = x.entry /\ [x EXCEPT !.fresh = FALSE].code = x.code
  BY DEF TypeOK, WorldOK, Answers
<1> QED BY <1>1, <1>2 DEF Stale

Put(e) ==
    \/ e \in outbox
    \/ \E n \in Names : e = RoleMap(n) /\ (Bound(n) \/ reporter = n)
    \/ \E n \in Names : Tell(n) /\ e = Completed(n)

Gone(e) ==
    \/ e.what = "roleMap" \/ Orphaned(e.ns)
    \/ \E x \in answers : TakeAnswer(x) /\ x.entry = e /\ x.code # "refused"
    \/ loop.at = "drop" \/ sweep.at = "deleting"
    \/ \E n \in Names : binder[n].old = e.ns /\ TakeOver(n)

Replied(x) ==
    \/ \E y \in answers : y.entry = x.entry /\ y.code = x.code
    \/ \E d \in docs : /\ x.entry = d.entry
                       /\ vtc[d.entry.ns] = "has" => x.code # "unknownNamespace"
                       /\ x.code = "ok" => x.entry.names \subseteq told'

Flow ==
    /\ \A e \in outbox' : Put(e)
    /\ \A e \in outbox \ outbox' : Gone(e)
    /\ \A e \in sending' : e \in sending \cup outbox
    /\ \A d \in docs' : d.entry \in sending \/ \E x \in docs : x.entry = d.entry
    /\ \A x \in answers' : Replied(x)
    /\ told \subseteq told'

LEMMA FlowSame == ASSUME UNCHANGED <<docs, answers, told, outbox>>, sending' \subseteq sending \cup outbox
                  PROVE  Flow
BY DEF Flow, Put, Gone, Replied

LEMMA FlowDrop ==
    ASSUME TypeOK, NEW gone, Drop(gone), \A e \in gone : Gone(e), UNCHANGED <<told, sending>>
    PROVE  Flow
<1>1. outbox' = outbox \ gone /\ answers' \subseteq answers
      /\ \A d \in docs' : \E x \in docs : x.entry = d.entry
  BY UnholdEntries DEF Drop
<1> QED BY <1>1 DEF Flow, Put, Replied

LEMMA FlowQueue ==
    ASSUME TypeOK, NEW new, Queue(new), \A e \in new : Put(e), told' = told, sending' \subseteq sending
    PROVE  Flow
<1>1. outbox' = outbox \cup new /\ answers' \subseteq answers
      /\ \A d \in docs' : \E x \in docs : x.entry = d.entry
  BY UnholdEntries DEF Queue
<1> QED BY <1>1 DEF Flow, Put, Replied

LEMMA ServesPut == ASSUME NEW n \in Names, NEW e \in Serves(n) PROVE Put(e)
BY DEF Serves, Put

LEMMA FlowStep == TypeOK /\ [Next]_vars => Flow
<1> SUFFICES ASSUME TypeOK, [Next]_vars PROVE Flow
  OBVIOUS
<1>1. ASSUME NEW n \in Names,
             \/ Vtc(n) \/ Callback(n) \/ Expire(n) \/ ProofFails(n) \/ Proven(n) \/ PutBound(n)
             \/ (\E o \in Names : Retire(n, o)) \/ Work(n) \/ ReadRoleMap(n)
             \/ RetentionPasses(n) \/ CheckForgotten(n)
      PROVE  Flow
  <2>1. UNCHANGED <<docs, answers, told, outbox, sending>>
    BY <1>1 DEF Vtc, VtcBinds, VtcWorks, VtcLoses, VtcRegains, Callback, Expire, ProofFails,
       Proven, PutBound, Retire, Work, StartWork, Record, Manage, ReadRoleMap,
       RetentionPasses, CheckForgotten, world, store, tasks
  <2> QED BY <2>1, FlowSame
<1>2. ASSUME NEW n \in Names, TakeOver(n) PROVE Flow
  <2>1. Drop(EventsOf(binder[n].old)) /\ UNCHANGED <<told, sending>>
    BY <1>2 DEF TakeOver
  <2>2. \A e \in EventsOf(binder[n].old) : Gone(e)
    BY <1>2 DEF EventsOf, Gone
  <2> QED BY <2>1, <2>2, FlowDrop
<1>3. ASSUME NEW n \in Names, Tell(n) PROVE Flow
  <2> DEFINE new == (IF Orphaned(n) THEN {} ELSE {Completed(n)}) \cup Serves(n)
  <2>1. Queue(new) /\ told' = told /\ sending' = sending
    BY <1>3 DEF Tell
  <2>2. \A e \in new : Put(e)
    BY <1>3, ServesPut DEF Put
  <2> HIDE DEF new
  <2> QED BY <2>1, <2>2, FlowQueue
<1>4. ASSUME NEW d \in docs, VtcHears(d) PROVE Flow
  <2>1. docs' = docs \ {d} /\ UNCHANGED <<outbox, sending>> /\ told \subseteq told'
    BY <1>4 DEF VtcHears, store, tasks
  <2>2. ASSUME NEW x \in answers' PROVE Replied(x)
    <3>1. PICK code \in {"ok", "unknownNamespace", "refused"} :
             /\ answers' = Reply(d, code)
             /\ vtc[d.entry.ns] = "has" => code # "unknownNamespace"
             /\ code = "ok" => d.entry.names \subseteq told'
      BY <1>4 DEF VtcHears
    <3>2. x \in answers \/ (x.entry = d.entry /\ x.code = code)
      BY <3>1 DEF Reply
    <3> QED BY <3>1, <3>2 DEF Replied
  <2> QED BY <2>1, <2>2 DEF Flow, Put
<1>5. ASSUME NEW j \in asked, TakeJob(j) PROVE Flow
  <2>1. UNCHANGED <<outbox, sending, told>>
    BY <1>5 DEF TakeJob
  <2>2. (docs' = docs /\ answers' = answers)
        \/ (docs' = Stale(docs, j.ns) /\ answers' = Stale(answers, j.ns))
    BY <1>5 DEF TakeJob
  <2> QED BY <2>1, <2>2, StaleEntries DEF Flow, Put, Replied
<1>6. ASSUME NEW x \in answers, TakeAnswer(x) PROVE Flow
  <2>1. UNCHANGED <<told, sending>>
    BY <1>6 DEF TakeAnswer
  <2>2. CASE x.code # "refused"
    <3>1. Drop({x.entry})
      BY <1>6, <2>2 DEF TakeAnswer, TypeOK, WorldOK, Answers
    <3> QED BY <1>6, <2>1, <2>2, <3>1, FlowDrop DEF Gone
  <2>3. CASE x.code = "refused"
    <3>1. answers' \subseteq answers /\ UNCHANGED <<outbox, docs>>
      BY <1>6, <2>3 DEF TakeAnswer
    <3> QED BY <2>1, <3>1 DEF Flow, Put, Replied
  <2> QED BY <2>2, <2>3
<1>7. CASE BeginBind \/ AdmitWork \/ StartSweep \/ UNCHANGED vars
  <2>1. UNCHANGED <<docs, answers, told, outbox, sending>>
    BY <1>7 DEF BeginBind, AdmitWork, StartSweep, vars, world, store
  <2> QED BY <2>1, FlowSame
<1>8. CASE ServeAgain
  <2>1. Queue(Serves(loop.ns)) /\ UNCHANGED <<told, sending>> /\ loop.ns \in Names
    BY <1>8 DEF ServeAgain, TypeOK, TasksOK
  <2> QED BY <2>1, ServesPut, FlowQueue
<1>9. CASE DropWaiting
  <2>1. Drop(EventsOf(loop.ns)) /\ UNCHANGED <<told, sending>> /\ loop.at = "drop"
    BY <1>9 DEF DropWaiting
  <2> QED BY <2>1, FlowDrop DEF Gone
<1>10. ASSUME NEW e \in outbox, PickEntry(e) PROVE Flow
  <2>1. CASE Unsendable(e)
    <3>1. Drop({e}) /\ UNCHANGED <<told, sending>>
      BY <1>10, <2>1 DEF PickEntry
    <3> QED BY <2>1, <3>1, FlowDrop DEF Unsendable, Gone
  <2>2. CASE ~Unsendable(e)
    <3>1. UNCHANGED <<docs, answers, told, outbox>> /\ sending' \subseteq sending \cup outbox
      BY <1>10, <2>2 DEF PickEntry
    <3> QED BY <3>1, FlowSame
  <2> QED BY <2>1, <2>2
<1>11. ASSUME NEW e \in sending, SendEntry(e) PROVE Flow
  <2>1. UNCHANGED <<answers, told, outbox>> /\ sending' \subseteq sending
    BY <1>11 DEF SendEntry, store
  <2>2. \A d \in docs' : d \in docs \/ d.entry = e
    BY <1>11 DEF SendEntry, Matter
  <2> QED BY <2>1, <2>2 DEF Flow, Put, Replied
<1>12. CASE Forget
  <2>1. Drop(EventsOf(sweep.ns)) /\ UNCHANGED <<told, sending>> /\ sweep.at = "deleting"
    BY <1>12 DEF Forget
  <2> QED BY <2>1, FlowDrop DEF Gone
<1>13. CASE QueueRoleMap
  <2>1. Queue({RoleMap(reporter)}) /\ UNCHANGED <<told, sending>> /\ reporter \in Names
    BY <1>13 DEF QueueRoleMap, TypeOK, TasksOK
  <2> QED BY <2>1, FlowQueue DEF Put
<1>14. CASE Crash
  <2>1. Queue(UNION {Serves(n) : n \in Names}) /\ told' = told /\ sending' \subseteq sending
    BY <1>14 DEF Crash
  <2> QED BY <2>1, ServesPut, FlowQueue
<1> QED
  BY <1>1, <1>2, <1>3, <1>4, <1>5, <1>6, <1>7, <1>8, <1>9, <1>10, <1>11, <1>12, <1>13, <1>14
     DEF Next, Bind, Receiving, Loop, Sending, Sweeping

LEMMA NoLossBefore ==
    ASSUME TypeOK, [Next]_vars, Never({"loss"})'
    PROVE  Never({"loss"}) /\ \A n \in Names : vtc[n] = "has" => vtc'[n] = "has"
<1>1. {"loss"} \in SUBSET Moves
  BY DEF Moves
<1>2. \A m \in Names : ~VtcLoses(m)
  BY DEF VtcLoses, Happens, TypeOK, HistoryOK, Moves, Never
<1>3. ASSUME NEW n \in Names, vtc[n] = "has" PROVE vtc'[n] = "has"
  <2>1. ASSUME NEW m \in Names, Vtc(m) PROVE vtc'[n] = "has"
    BY <1>2, <1>3, <2>1 DEF Vtc, VtcBinds, VtcWorks, VtcRegains, TypeOK, WorldOK
  <2>2. ASSUME NEW m \in Names,
               \/ Callback(m) \/ Expire(m) \/ ProofFails(m) \/ Bind(m) \/ Work(m)
               \/ ReadRoleMap(m) \/ RetentionPasses(m) \/ CheckForgotten(m)
        PROVE  vtc' = vtc
    BY <2>2 DEF Callback, Expire, ProofFails, Bind, Proven, Retire, TakeOver, PutBound, Tell,
       Work, StartWork, Record, Manage, ReadRoleMap, RetentionPasses, CheckForgotten, world
  <2>3. ASSUME Receiving PROVE vtc' = vtc
    BY <2>3 DEF Receiving, Loop, TakeJob, TakeAnswer, BeginBind, AdmitWork, ServeAgain,
       DropWaiting, world
  <2>4. ASSUME (\E d \in docs : VtcHears(d)) \/ Sending \/ StartSweep \/ Forget \/ QueueRoleMap
               \/ Crash \/ UNCHANGED vars
        PROVE  vtc' = vtc
    BY <2>4 DEF VtcHears, Sending, PickEntry, SendEntry, StartSweep, Forget, QueueRoleMap,
       Crash, vars, world
  <2> QED BY <1>3, <2>1, <2>2, <2>3, <2>4 DEF Next, Sweeping
<1> QED BY <1>1, <1>2, <1>3, NeverBefore

\* The role-map reports read a record that is bound.
LEMMA ReporterStep ==
    ASSUME TypeOK, [Next]_vars, NEW n \in Names, reporter' = n
    PROVE  reporter = n \/ Bound(n)
<1>1. ASSUME NEW m \in Names, ReadRoleMap(m) PROVE n = m /\ Bound(n)
  BY <1>1 DEF ReadRoleMap
<1>2. ASSUME NEW m \in Names,
             \/ Vtc(m) \/ Callback(m) \/ Expire(m) \/ ProofFails(m) \/ Bind(m) \/ Work(m)
             \/ RetentionPasses(m) \/ CheckForgotten(m)
      PROVE  reporter' = reporter
  BY <1>2 DEF Vtc, VtcBinds, VtcWorks, VtcLoses, VtcRegains, Callback, Expire, ProofFails,
     Bind, Proven, Retire, TakeOver, PutBound, Tell, Work, StartWork, Record, Manage,
     RetentionPasses, CheckForgotten, tasks
<1>3. ASSUME Receiving PROVE reporter' = reporter
  BY <1>3 DEF Receiving, Loop, TakeJob, TakeAnswer, BeginBind, AdmitWork, ServeAgain,
     DropWaiting
<1>4. ASSUME (\E d \in docs : VtcHears(d)) \/ Sending \/ StartSweep \/ Forget
             \/ UNCHANGED vars
      PROVE  reporter' = reporter
  BY <1>4 DEF VtcHears, Sending, PickEntry, SendEntry, StartSweep, Forget, vars, tasks
<1>5. ASSUME QueueRoleMap \/ Crash PROVE FALSE
  BY <1>5, NameAssumption DEF QueueRoleMap, Crash
<1> QED BY <1>1, <1>2, <1>3, <1>4, <1>5 DEF Next, Sweeping

\* The documents to the bridge name what the VTC has; so does the loop.
LEMMA AskedStep ==
    ASSUME TypeOK, Unlost, [Next]_vars, Never({"loss"})'
    PROVE  /\ \A j \in asked' : vtc'[j.ns] = "has"
           /\ loop'.at # "idle" => vtc'[loop'.ns] = "has"
           /\ loop'.at # "drop" /\ sweep'.at = "idle"
<1>0. (\A n \in Names : vtc[n] = "has" => vtc'[n] = "has")
      /\ (\A j \in asked : j.ns \in Names /\ vtc[j.ns] = "has")
      /\ (loop.at # "idle" => loop.ns \in Names /\ vtc[loop.ns] = "has")
      /\ loop.at # "drop" /\ sweep.at = "idle" /\ loop \in Loops
  BY NoLossBefore DEF Unlost, MessagesKnown, TypeOK, WorldOK, TasksOK
<1>1. ASSUME NEW n \in Names, Vtc(n)
      PROVE  loop' = loop /\ sweep' = sweep /\ \A j \in asked' : vtc'[j.ns] = "has"
  BY <1>0, <1>1 DEF Vtc, VtcBinds, VtcWorks, VtcLoses, VtcRegains, tasks, TypeOK, WorldOK
<1>2. ASSUME NEW n \in Names,
             \/ Callback(n) \/ Expire(n) \/ ProofFails(n) \/ Bind(n) \/ Work(n)
             \/ ReadRoleMap(n) \/ RetentionPasses(n)
      PROVE  UNCHANGED <<asked, loop, sweep>>
  BY <1>2 DEF Callback, Expire, ProofFails, Bind, Proven, Retire, TakeOver, PutBound, Tell,
     Work, StartWork, Record, Manage, ReadRoleMap, RetentionPasses, world, tasks
<1>3. ASSUME Receiving
      PROVE  /\ sweep' = sweep /\ asked' \subseteq asked /\ loop'.at # "drop"
             /\ \/ loop'.at = "idle"
                \/ (loop'.ns = loop.ns /\ loop.at # "idle")
                \/ \E j \in asked : loop'.ns = j.ns
  <2>1. ASSUME NEW j \in asked, TakeJob(j)
        PROVE  sweep' = sweep /\ asked' \subseteq asked /\ loop'.at # "drop" /\ loop'.ns = j.ns
    BY <2>1 DEF TakeJob, TypeOK, WorldOK
  <2>2. ASSUME NEW x \in answers, TakeAnswer(x)
        PROVE  UNCHANGED <<sweep, asked, loop>>
    BY <2>2 DEF TakeAnswer, Unlost, MessagesKnown
  <2>3. CASE BeginBind \/ AdmitWork
    <3>1. UNCHANGED <<sweep, asked>> /\ Answer /\ loop.at # "idle"
      BY <2>3 DEF BeginBind, AdmitWork, world
    <3> QED BY <1>0, <3>1 DEF Answer, Idle, Loops
  <2>4. CASE ServeAgain \/ DropWaiting
    BY <2>4 DEF ServeAgain, DropWaiting, Idle
  <2> QED BY <1>0, <1>3, <2>1, <2>2, <2>3, <2>4 DEF Receiving, Loop
<1>4. ASSUME (\E d \in docs : VtcHears(d)) \/ Sending \/ QueueRoleMap \/ UNCHANGED vars
      PROVE  UNCHANGED <<asked, loop, sweep>>
  BY <1>4 DEF VtcHears, Sending, PickEntry, SendEntry, QueueRoleMap, vars, world, store, tasks
<1>5. ASSUME StartSweep \/ Forget \/ \E n \in Names : CheckForgotten(n) PROVE FALSE
  <2>1. Overdue = {}
    BY DEF Overdue, Unlost
  <2> QED BY <1>0, <1>5, <2>1 DEF StartSweep, Forget, CheckForgotten
<1>6. ASSUME Crash
      PROVE  loop'.at = "idle" /\ sweep'.at = "idle"
             /\ \A j \in asked' : j \in asked \/ (loop.at # "idle" /\ j.ns = loop.ns)
  BY <1>6 DEF Crash, Idle, Swept
<1> QED BY <1>0, <1>1, <1>2, <1>3, <1>4, <1>5, <1>6 DEF Next, Sweeping

LEMMA LossStep == TypeOK /\ LossInv /\ [Next]_vars => LossInv'
<1> SUFFICES ASSUME TypeOK, LossInv, [Next]_vars, Never({"loss"})' PROVE Unlost'
  BY DEF LossInv
<1>0. Unlost /\ \A n \in Names : vtc[n] = "has" => vtc'[n] = "has"
  BY NoLossBefore DEF LossInv
<1>1. ASSUME NEW n \in Names PROVE ~Orphaned(n)'
  BY <1>0, OrphanOnly DEF Unlost, MessagesKnown
<1>2. ASSUME NEW n \in Names, vtc'[n] # "has" PROVE Untouched(n)'
  <2>1. vtc[n] # "has" /\ Untouched(n)
    BY <1>0, <1>2 DEF Unlost
  <2>2. ~(loop.at = "bind" /\ loop.ns = n) /\ ~Bound(n)
    BY <1>0, <2>1 DEF Unlost, Untouched, Bound
  <2>3. reporter' # n
    BY <2>1, <2>2, ReporterStep DEF Untouched
  <2> QED BY <2>1, <2>2, <2>3, GoneStaysGone DEF Untouched
<1>3. ASSUME NEW e \in outbox' PROVE vtc'[e.ns] = "has"
  <2>1. Put(e)
    BY FlowStep DEF Flow
  <2>2. CASE e \in outbox
    BY <1>0, <2>2 DEF Unlost, MessagesKnown, TypeOK, StoreOK, Entries
  <2>3. ASSUME NEW n \in Names, e = RoleMap(n), Bound(n) \/ reporter = n PROVE vtc'[e.ns] = "has"
    BY <1>0, <2>3 DEF Unlost, Untouched, Bound, RoleMap
  <2>4. ASSUME NEW n \in Names, Tell(n), e = Completed(n) PROVE vtc'[e.ns] = "has"
    BY <1>0, <2>4 DEF Unlost, Untouched, Tell, Completed
  <2> QED BY <2>1, <2>2, <2>3, <2>4 DEF Put
<1>4. ASSUME NEW e \in sending' PROVE vtc'[e.ns] = "has"
  <2>1. e \in sending \cup outbox /\ e.ns \in Names
    BY FlowStep DEF Flow, TypeOK, StoreOK, TasksOK, Entries
  <2> QED BY <1>0, <2>1 DEF Unlost, MessagesKnown
<1>5. ASSUME NEW d \in docs' PROVE vtc'[d.entry.ns] = "has"
  <2>1. d.entry \in sending \/ \E x \in docs : x.entry = d.entry
    BY FlowStep DEF Flow
  <2>2. d.entry.ns \in Names
    BY <2>1 DEF TypeOK, WorldOK, TasksOK, Documents, Entries
  <2>3. vtc[d.entry.ns] = "has"
    BY <1>0, <2>1 DEF Unlost, MessagesKnown
  <2> QED BY <1>0, <2>2, <2>3
<1>6. ASSUME NEW x \in answers' PROVE x.code # "unknownNamespace"
  <2>1. Replied(x)
    BY FlowStep DEF Flow
  <2> QED BY <1>0, <2>1 DEF Replied, Unlost, MessagesKnown
<1> QED BY <1>0, <1>1, <1>2, <1>3, <1>4, <1>5, <1>6, AskedStep DEF Unlost, MessagesKnown

LEMMA HeardStep == TypeOK /\ Heard /\ [Next]_vars => Heard'
<1> SUFFICES ASSUME TypeOK, Heard, [Next]_vars PROVE Heard'
  OBVIOUS
<1>1. ASSUME NEW e \in outbox' \cup sending', e.what = "roleMap" PROVE e.names = {}
  <2>1. Put(e) \/ e \in sending
    BY FlowStep DEF Flow, Put
  <2> QED BY <1>1, <2>1 DEF Put, Heard, RoleMap, Completed
<1>2. ASSUME NEW x \in answers', x.code = "ok" PROVE x.entry.names \subseteq told'
  <2>1. Replied(x) /\ told \subseteq told'
    BY FlowStep DEF Flow
  <2> QED BY <1>2, <2>1 DEF Replied, Heard
<1> QED BY <1>1, <1>2 DEF Heard

\* What a bind's callback has done it keeps until it tells the VTC.
LEMMA DoneStep ==
    ASSUME TypeOK, BinderInv, [Next]_vars, ~Crash, NEW s \in Names, ~Orphaned(s),
           NEW n \in Names, n \in binder[s].done \cup {binder[s].old}
    PROVE  \/ n \in binder'[s].done \cup {binder'[s].old}
           \/ \E e \in outbox' : e.ns = s /\ n \in e.names
<1>0. binder[s].at \in {"moving", "taking", "telling"}
      /\ (binder[s].at # "taking" => binder[s].old = Nobody) /\ n # Nobody
  BY NameAssumption DEF BinderInv, BinderPart
<1>1. CASE binder'[s] = binder[s]
  BY <1>1
<1>2. ASSUME NEW o \in Names, Retire(s, o) PROVE n \in binder'[s].done
  <2>1. binder'[s] =
           BinderAt("taking", binder[s].managed, binder[s].left, o, binder[s].done)
    BY <1>2, BinderEffect
  <2>2. binder[s].at = "moving"
    BY <1>2 DEF Retire
  <2> QED BY <1>0, <2>1, <2>2 DEF BinderAt
<1>3. CASE TakeOver(s)
  <2>1. binder'[s] =
           BinderAt("moving", binder[s].managed, binder[s].left \ {binder[s].old}, Nobody,
                    binder[s].done \cup {binder[s].old})
    BY <1>3, BinderEffect
  <2> QED BY <2>1 DEF BinderAt
<1>4. CASE PutBound(s)
  <2>1. binder'[s] = BinderAt("telling", {}, binder[s].left, binder[s].old, binder[s].done)
    BY <1>4, BinderEffect
  <2> QED BY <2>1 DEF BinderAt
<1>5. CASE Tell(s)
  <2>1. Completed(s) \in outbox' /\ binder[s].at = "telling"
    BY <1>5 DEF Tell, Queue
  <2> QED BY <1>0, <2>1 DEF Completed
<1>6. ~Callback(s) /\ ~ProofFails(s) /\ ~Proven(s)
  BY <1>0 DEF Callback, ProofFails, Proven
<1> QED BY <1>1, <1>2, <1>3, <1>4, <1>5, <1>6, BinderOnly, BinderEffect DEF Bind

LEMMA ReportStep ==
    ASSUME TypeOK, BinderInv, LossInv, ReportInv, [Next]_vars PROVE ReportInv'
<1> SUFFICES ASSUME Never({"crash", "loss"})', NEW n \in Names, Retired(n)'
             PROVE  Reported(n, successor[n])'
  BY HeardStep DEF ReportInv
<1>1. Never({"crash", "loss"}) /\ Never({"loss"}) /\ Never({"crash"})'
  <2>1. {"crash", "loss"} \in SUBSET Moves
    BY DEF Moves
  <2> QED BY <2>1, NeverBefore DEF Never
<1>2. Unlost /\ Heard /\ ~Crash
  BY <1>1, NoCrashBefore DEF LossInv, ReportInv
<1>3. ASSUME NEW m \in Names, Retire(m, n) PROVE Reported(n, successor[n])'
  <2>1. binder'[m] =
           BinderAt("taking", binder[m].managed, binder[m].left, n, binder[m].done)
    BY <1>3, BinderEffect
  <2>2. successor'[n] = m
    BY <1>3 DEF Retire, TypeOK, StoreOK
  <2> QED BY <2>1, <2>2 DEF BinderAt, Reported
<1>4. CASE ~\E m \in Names : Retire(m, n)
  <2> DEFINE s == successor[n]
  <2>1. s \in Names /\ successor'[n] = s /\ Reported(n, s)
    BY <1>1, <1>4, RetiredStays DEF Retired, ReportInv, TypeOK, StoreOK
  <2> HIDE DEF s
  <2>2. CASE n \in told
    BY <2>1, <2>2, FlowStep DEF Flow, Reported
  <2>3. CASE Retired(s)
    BY <2>1, <2>3, RetiredStays DEF Reported
  <2>4. CASE n \in binder[s].done \cup {binder[s].old}
    BY <1>2, <2>1, <2>4, DoneStep DEF Unlost, Reported
  <2>5. ASSUME NEW e \in outbox, e.ns = s, n \in e.names PROVE Reported(n, successor[n])'
    <3>1. CASE e \in outbox'
      BY <2>1, <2>5, <3>1 DEF Reported
    <3>2. CASE e \notin outbox'
      <4>1. Gone(e)
        BY <3>2, FlowStep DEF Flow
      <4>2. e.what # "roleMap" /\ ~Orphaned(s) /\ loop.at # "drop" /\ sweep.at = "idle"
        BY <1>2, <2>1, <2>5 DEF Heard, Unlost
      <4>3. ASSUME NEW x \in answers, x.entry = e, x.code # "refused" PROVE n \in told
        <5>1. x.code = "ok"
          BY <1>2, <4>3 DEF Unlost, MessagesKnown, TypeOK, WorldOK, Answers
        <5> QED BY <1>2, <2>5, <4>3, <5>1 DEF Heard
      <4>4. ASSUME NEW m \in Names, binder[m].old = s PROVE Retired(s)
        BY <2>1, <4>4, NameAssumption DEF BinderInv, BinderPart
      <4>5. n \in told \/ Retired(s)
        BY <2>5, <4>1, <4>2, <4>3, <4>4 DEF Gone
      <4> QED BY <2>2, <2>3, <4>5
    <3> QED BY <3>1, <3>2
  <2> QED BY <2>1, <2>2, <2>3, <2>4, <2>5 DEF Reported
<1> QED BY <1>3, <1>4

\* While nothing crashes and the VTC loses nothing, it knows every id that a
\* re-binding retired, or will be told (the event is put before anything else is).
THEOREM RetiredIdsAreReported == Spec => []RetiredIsReported
<1>1. Init => LossInv /\ ReportInv
  BY NameAssumption
     DEF Init, LossInv, Unlost, Untouched, MessagesKnown, ReportInv, Heard, Retired, Orphaned,
         NoSpace, Resting, Idle, Swept
<1>2. TypeOK /\ ReportInv => RetiredIsReported
  <2> SUFFICES ASSUME TypeOK, ReportInv, Never({"crash", "loss"}), NEW n \in Names, Retired(n)
               PROVE  \/ n \in told \/ Retired(successor[n])
                      \/ \E m \in Names : n \in binder[m].done \cup {binder[m].old}
                      \/ \E e \in outbox : n \in e.names
    BY DEF RetiredIsReported
  <2>1. successor[n] \in Names /\ Reported(n, successor[n])
    BY DEF ReportInv, Retired, TypeOK, StoreOK
  <2> QED BY <2>1 DEF Reported
<1>3. TypeOK /\ BinderInv /\ LossInv /\ ReportInv /\ [Next]_vars => LossInv' /\ ReportInv'
  BY LossStep, ReportStep
<1> QED BY <1>1, <1>2, <1>3, BinderHolds, TypeCorrect, PTL DEF Spec

LEMMA SmoothBefore ==
    ASSUME TypeOK, [Next]_vars, Smooth' PROVE Smooth /\ ~Crash
<1>1. (hasty => hasty') /\ overtaken \subseteq overtaken'
  <2>1. ASSUME NEW n \in Names, StartWork(n) \/ Proven(n)
        PROVE  (hasty => hasty') /\ overtaken \subseteq overtaken'
    <3>1. CASE StartWork(n)
      <4>1. overtaken' = overtaken \/ overtaken' = overtaken \cup {n}
        BY <3>1 DEF StartWork
      <4>2. hasty' = hasty
        BY <3>1 DEF StartWork
      <4> QED BY <4>1, <4>2
    <3>2. CASE Proven(n)
      BY <3>2 DEF Proven
    <3> QED BY <2>1, <3>1, <3>2
  <2>2. ASSUME NEW n \in Names,
               \/ Vtc(n) \/ Callback(n) \/ Expire(n) \/ ProofFails(n)
               \/ (\E o \in Names : Retire(n, o)) \/ TakeOver(n) \/ PutBound(n) \/ Tell(n)
               \/ Record(n) \/ Manage(n) \/ ReadRoleMap(n) \/ RetentionPasses(n)
               \/ CheckForgotten(n)
        PROVE  hasty' = hasty /\ overtaken' = overtaken
    BY <2>2 DEF Vtc, VtcBinds, VtcWorks, VtcLoses, VtcRegains, Callback, Expire, ProofFails,
       Retire, TakeOver, PutBound, Tell, Record, Manage, ReadRoleMap, RetentionPasses,
       CheckForgotten, history
  <2>3. ASSUME Receiving PROVE hasty' = hasty /\ overtaken' = overtaken
    BY <2>3 DEF Receiving, Loop, TakeJob, TakeAnswer, BeginBind, AdmitWork, ServeAgain,
       DropWaiting, history
  <2>4. ASSUME (\E d \in docs : VtcHears(d)) \/ Sending \/ StartSweep \/ Forget
               \/ QueueRoleMap \/ Crash \/ UNCHANGED vars
        PROVE  hasty' = hasty /\ overtaken' = overtaken
    BY <2>4 DEF VtcHears, Sending, PickEntry, SendEntry, StartSweep, Forget, QueueRoleMap,
       Crash, vars, history
  <2> QED BY <2>1, <2>2, <2>3, <2>4 DEF Next, Bind, Work, Sweeping
<1>2. Never({"crash"}) /\ ~Crash
  BY NoCrashBefore DEF Smooth
<1> QED BY <1>1, <1>2 DEF Smooth

\* A step that moves no repository: neither its record, nor the sets it is in.
LEMMA HandSame ==
    ASSUME TypeOK, Held, \A n \in Names : Taking(n) => Pooling(n),
           UNCHANGED <<repoOf, binder>>,
           \A n \in Names : space'[n].managed = space[n].managed,
           \A n \in Names : work[n].at = "noting" => work'[n] = work[n]
    PROVE  Held' /\ \A n \in Names : Taking(n)' => Pooling(n)'
<1>1. Held'
  BY DEF Held, Has, TypeOK, StoreOK
<1>2. \A n \in Names : Taking(n)' => Pooling(n)'
  BY DEF Taking, Pooling
<1> QED BY <1>1, <1>2

\* Nothing a bind holds is at work while all goes smoothly.
LEMMA NoneAtWork ==
    ASSUME WorkInv, Smooth, NEW n \in Names, AtWork(n)
    PROVE  /\ space[n].state # "none"
           /\ \A m \in Names : Taking(m) => n \notin binder[m].left \cup {m, binder[m].old}
BY DEF WorkInv, WorkPart, Smooth, Holds, Taking

LEMMA HandBinds ==
    ASSUME TypeOK, OwnerInv, BinderInv, WorkInv, Smooth, Smooth',
           Held, \A m \in Names : Taking(m) => Pooling(m),
           NEW n \in Names, Callback(n) \/ ProofFails(n) \/ Bind(n)
    PROVE  Held' /\ \A m \in Names : Taking(m)' => Pooling(m)'
<1>0. /\ \A m \in Names \ {n} : binder'[m] = binder[m]
      /\ ~hasty /\ overtaken = {} /\ ~hasty' /\ overtaken' = {}
      /\ repoOf \in [Repos -> Names \cup {Nobody}] /\ space \in [Names -> Spaces]
  BY BinderEffect DEF Smooth, TypeOK, StoreOK
<1>1. CASE Callback(n) \/ ProofFails(n) \/ Tell(n)
  <2>1. UNCHANGED <<repoOf, space, work>> /\ binder[n].managed = {}
    BY <1>1 DEF Callback, ProofFails, Tell, BinderInv, BinderPart, store
  <2>2. \E at \in {"resting", "proving"} : binder'[n] = BinderAt(at, {}, {}, Nobody, {})
    BY <1>1, BinderEffect
  <2>3. binder'[n].managed = {} /\ ~Taking(n)'
    BY <2>2 DEF BinderAt, Taking
  <2>4. Held'
    BY <1>0, <2>1, <2>3 DEF Held, Has
  <2>5. ASSUME NEW m \in Names, Taking(m)' PROVE Pooling(m)'
    BY <1>0, <2>1, <2>3, <2>5 DEF Taking, Pooling
  <2> QED BY <2>4, <2>5
<1>2. CASE Proven(n)
  <2>1. UNCHANGED <<repoOf, space, work>> /\ binder[n].managed = {}
        /\ \A m \in Names \ {n} : ~Taking(m)
    BY <1>0, <1>2 DEF Proven, BinderInv, BinderPart, store, Taking
  <2>2. binder'[n] = BinderAt("moving", Pooled(n), Earlier(n), Nobody, {})
    BY <1>2, BinderEffect
  <2>3. binder'[n].managed = Pooled(n) /\ binder'[n].left = Earlier(n)
        /\ binder'[n].old = Nobody
    BY <2>2 DEF BinderAt
  <2>4. Held'
    BY <1>0, <2>1, <2>3 DEF Held, Has
  <2>5. ASSUME NEW r \in Repos, repoOf[r] \in Earlier(n) \cup {n} PROVE r \in Pooled(n)
    <3> DEFINE o == repoOf[r]
    <3>0. o \in Names /\ o # Nobody
      BY <2>5, NameAssumption DEF Earlier, Serving
    <3>1. o \in Names /\ Has(o, r)
      BY <3>0 DEF Held
    <3>2. binder[o].managed = {}
      BY <2>1, <3>1 DEF BinderInv, BinderPart, Taking
    <3>3. ~AtWork(o)
      BY <1>0, <1>2, <2>5 DEF Proven
    <3>4. r \in space[o].managed
      BY <3>1, <3>2, <3>3 DEF Has, AtWork
    <3> QED BY <2>5, <3>4 DEF Pooled
  <2>6. Pooling(n)'
    BY <2>1, <2>3, <2>5 DEF Pooling, Earlier
  <2>7. \A m \in Names \ {n} : ~Taking(m)'
    BY <1>0, <2>1 DEF Taking
  <2> QED BY <2>4, <2>6, <2>7
<1>3. ASSUME NEW o \in Names, Retire(n, o)
      PROVE  Held' /\ \A m \in Names : Taking(m)' => Pooling(m)'
  <2>1. UNCHANGED <<space, work>> /\ binder[n].at = "moving" /\ o \in binder[n].left
        /\ repoOf' = [r \in Repos |-> IF repoOf[r] = o THEN n ELSE repoOf[r]]
    BY <1>3 DEF Retire
  <2>2. binder'[n] =
           BinderAt("taking", binder[n].managed, binder[n].left, o, binder[n].done)
    BY <1>3, BinderEffect
  <2>3. binder'[n].managed = binder[n].managed /\ binder'[n].left = binder[n].left
        /\ binder'[n].old = o
    BY <2>2 DEF BinderAt
  <2>4. Pooling(n) /\ Taking(n) /\ o # n
    BY <2>1 DEF Taking, Pooling
  <2>5. \A m \in Names \ {n} : ~Taking(m) /\ ~Taking(m)'
    BY <1>0, <2>4 DEF OwnerInv, Taking
  <2>6. Held'
    BY <1>0, <2>1, <2>3, <2>4 DEF Held, Has, Pooling
  <2>7. Pooling(n)'
    BY <2>1, <2>3, <2>4 DEF Pooling
  <2> QED BY <2>5, <2>6, <2>7
<1>4. CASE TakeOver(n)
  <2>1. UNCHANGED <<repoOf, work>> /\ binder[n].at = "taking"
        /\ space' = [space EXCEPT ![binder[n].old] = NoSpace]
    BY <1>4 DEF TakeOver
  <2>2. binder'[n] =
           BinderAt("moving", binder[n].managed, binder[n].left \ {binder[n].old}, Nobody,
                    binder[n].done \cup {binder[n].old})
    BY <1>4, BinderEffect
  <2>3. binder'[n].managed = binder[n].managed /\ binder'[n].old = Nobody
        /\ binder'[n].left = binder[n].left \ {binder[n].old}
    BY <2>2 DEF BinderAt
  <2>4. Pooling(n) /\ Taking(n)
    BY <2>1 DEF Taking
  <2>5. \A m \in Names \ {n} : ~Taking(m) /\ ~Taking(m)'
    BY <1>0, <2>4 DEF OwnerInv, Taking
  <2>6. \A r \in Repos : repoOf[r] # Nobody => space'[repoOf[r]] = space[repoOf[r]]
    BY <1>0, <2>1, <2>4 DEF Pooling
  <2>7. Held'
    BY <1>0, <2>1, <2>3, <2>6 DEF Held, Has
  <2>8. Pooling(n)'
    BY <2>1, <2>3, <2>4 DEF Pooling
  <2> QED BY <2>5, <2>7, <2>8
<1>5. CASE PutBound(n)
  <2>1. UNCHANGED <<repoOf, work>> /\ binder[n].at = "moving"
        /\ space' = [space EXCEPT ![n] = [state |-> "bound", due |-> FALSE,
                                          managed |-> binder[n].managed]]
    BY <1>5 DEF PutBound
  <2>2. binder'[n] = BinderAt("telling", {}, binder[n].left, binder[n].old, binder[n].done)
    BY <1>5, BinderEffect
  <2>3. ~Taking(n)'
    BY <2>2 DEF BinderAt, Taking
  <2>4. Pooling(n) /\ space'[n].managed = binder[n].managed
        /\ \A m \in Names \ {n} : space'[m] = space[m]
    BY <1>0, <2>1 DEF Taking
  <2>5. Held'
    BY <1>0, <2>1, <2>4 DEF Held, Has, Pooling
  <2>6. ASSUME NEW m \in Names, Taking(m)' PROVE Pooling(m)'
    BY <1>0, <2>1, <2>3, <2>6 DEF Taking, Pooling
  <2> QED BY <2>5, <2>6
<1> QED BY <1>1, <1>2, <1>3, <1>4, <1>5 DEF Bind

LEMMA HandWorks ==
    ASSUME TypeOK, WorkInv, Smooth, Held, \A m \in Names : Taking(m) => Pooling(m),
           NEW n \in Names, Work(n)
    PROVE  Held' /\ \A m \in Names : Taking(m)' => Pooling(m)'
<1>0. repoOf \in [Repos -> Names \cup {Nobody}] /\ space \in [Names -> Spaces]
      /\ work \in [Names -> Works] /\ work[n] \in Works /\ space[n] \in Spaces
  BY DEF TypeOK, StoreOK, TasksOK
<1>1. CASE StartWork(n)
  <2>1. UNCHANGED <<repoOf, binder, space>> /\ work[n].at = "queued"
        /\ \A m \in Names \ {n} : work'[m] = work[m]
    BY <1>0, <1>1 DEF StartWork, store
  <2> QED BY <2>1, HandSame
<1>2. CASE Record(n)
  <2>1. UNCHANGED <<space, binder>> /\ AtWork(n)
        /\ repoOf' = [r \in Repos |-> IF r \in work[n].repos /\ repoOf[r] = Nobody
                                      THEN n ELSE repoOf[r]]
    BY <1>2 DEF Record, AtWork
  <2>2. work'[n].at = "noting" /\ work'[n].repos = work[n].repos
        /\ \A m \in Names \ {n} : work'[m] = work[m]
    BY <1>0, <1>2 DEF Record, Works
  <2>3. work[n].at = "acting"
    BY <1>2 DEF Record
  <2>4. Held'
    BY <1>0, <2>1, <2>2, <2>3, NameAssumption DEF Held, Has
  <2>5. ASSUME NEW m \in Names, Taking(m)' PROVE Pooling(m)'
    <3>1. Taking(m) /\ Pooling(m) /\ n \notin binder[m].left \cup {m, binder[m].old}
      BY <2>1, <2>5, NoneAtWork DEF Taking
    <3> QED BY <1>0, <2>1, <3>1 DEF Pooling
  <2> QED BY <2>4, <2>5
<1>3. CASE Manage(n)
  <2>1. AtWork(n) /\ work[n].at = "noting" /\ UNCHANGED <<repoOf, binder>>
    BY <1>3 DEF Manage, AtWork
  <2>2. space[n].state # "none"
    BY <2>1, NoneAtWork
  <2>3. space'[n].managed = space[n].managed \cup work[n].repos
        /\ \A m \in Names \ {n} : space'[m] = space[m] /\ work'[m] = work[m]
    BY <1>0, <1>3, <2>2 DEF Manage, Spaces
  <2>4. Held'
    BY <1>0, <2>1, <2>3 DEF Held, Has
  <2>5. \A m \in Names : Taking(m)' => Pooling(m)'
    BY <2>1 DEF Taking, Pooling
  <2> QED BY <2>4, <2>5
<1> QED BY <1>1, <1>2, <1>3 DEF Work

LEMMA HandLoop ==
    ASSUME TypeOK, WorkInv, Receiving
    PROVE  /\ UNCHANGED <<repoOf, binder>>
           /\ \A n \in Names : space'[n].managed = space[n].managed
           /\ \A n \in Names : work[n].at = "noting" => work'[n] = work[n]
<1>1. ASSUME NEW j \in asked, TakeJob(j)
      PROVE  UNCHANGED <<repoOf, binder, work>>
             /\ \A n \in Names : space'[n].managed = space[n].managed
  <2>1. UNCHANGED <<repoOf, binder, work>>
    BY <1>1 DEF TakeJob
  <2>2. ASSUME NEW n \in Names PROVE space'[n].managed = space[n].managed
    <3>1. space[n] \in Spaces
      BY Parts
    <3>2. space'[n] = space[n]
          \/ space'[n] = [space[n] EXCEPT !.state = "bound", !.due = FALSE]
      BY <1>1 DEF TakeJob, TypeOK, StoreOK
    <3> QED BY <3>1, <3>2 DEF Spaces
  <2> QED BY <2>1, <2>2
<1>2. ASSUME NEW x \in answers, TakeAnswer(x)
      PROVE  UNCHANGED <<repoOf, binder, work>>
             /\ \A n \in Names : space'[n].managed = space[n].managed
  <2>1. UNCHANGED <<repoOf, binder, work>>
    BY <1>2 DEF TakeAnswer
  <2>2. ASSUME NEW n \in Names PROVE space'[n].managed = space[n].managed
    <3>1. space[n] \in Spaces
      BY Parts
    <3>2. space'[n] = space[n]
          \/ space'[n] = [space[n] EXCEPT !.state = "orphaned", !.due = FALSE]
      BY <1>2 DEF TakeAnswer, TypeOK, StoreOK
    <3> QED BY <3>1, <3>2 DEF Spaces
  <2> QED BY <2>1, <2>2
<1>3. ASSUME BeginBind
      PROVE  UNCHANGED <<repoOf, binder, work>>
             /\ \A n \in Names : space'[n].managed = space[n].managed
  <2>1. UNCHANGED <<repoOf, binder, work>>
    BY <1>3 DEF BeginBind
  <2>2. ASSUME NEW n \in Names PROVE space'[n].managed = space[n].managed
    <3>1. space[n] \in Spaces
      BY Parts
    <3>2. space'[n] = space[n] \/ space'[n] = [space[n] EXCEPT !.state = "pending"]
      BY <1>3 DEF BeginBind, TypeOK, StoreOK
    <3> QED BY <3>1, <3>2 DEF Spaces
  <2> QED BY <2>1, <2>2
<1>4. ASSUME AdmitWork
      PROVE  /\ UNCHANGED <<repoOf, binder, space>>
             /\ \A n \in Names : work[n].at = "noting" => work'[n] = work[n]
  <2>1. UNCHANGED <<repoOf, binder, space>> /\ loop.ns \in Names /\ work[loop.ns].at = "none"
    BY <1>4 DEF AdmitWork, store, WorkInv, TypeOK, TasksOK
  <2>2. \A n \in Names \ {loop.ns} : work'[n] = work[n]
    BY <1>4 DEF AdmitWork, TypeOK, TasksOK
  <2> QED BY <2>1, <2>2
<1>5. ASSUME ServeAgain \/ DropWaiting PROVE UNCHANGED <<repoOf, binder, space, work>>
  BY <1>5 DEF ServeAgain, DropWaiting
<1> QED BY <1>1, <1>2, <1>3, <1>4, <1>5 DEF Receiving, Loop

LEMMA HandStep ==
    ASSUME TypeOK, OwnerInv, BinderInv, WorkInv, HandInv, [Next]_vars PROVE HandInv'
<1> SUFFICES ASSUME Smooth' PROVE Held' /\ \A m \in Names : Taking(m)' => Pooling(m)'
  BY DEF HandInv
<1>1. Smooth /\ ~Crash /\ Held /\ \A m \in Names : Taking(m) => Pooling(m)
  BY SmoothBefore DEF HandInv
<1>2. ASSUME NEW n \in Names,
             \/ Vtc(n) \/ Expire(n) \/ ReadRoleMap(n) \/ RetentionPasses(n) \/ CheckForgotten(n)
      PROVE  Held' /\ \A m \in Names : Taking(m)' => Pooling(m)'
  <2>1. UNCHANGED <<repoOf, binder, work>>
    BY <1>2 DEF Vtc, VtcBinds, VtcWorks, VtcLoses, VtcRegains, Expire, ReadRoleMap,
       RetentionPasses, CheckForgotten, store, tasks
  <2>2. ASSUME NEW m \in Names PROVE space'[m].managed = space[m].managed
    <3>1. CASE RetentionPasses(n)
      BY <3>1, Parts DEF RetentionPasses, Spaces, TypeOK, StoreOK
    <3>2. CASE Vtc(n) \/ Expire(n) \/ ReadRoleMap(n) \/ CheckForgotten(n)
      BY <3>2 DEF Vtc, VtcBinds, VtcWorks, VtcLoses, VtcRegains, Expire, ReadRoleMap,
         CheckForgotten, store
    <3> QED BY <1>2, <3>1, <3>2
  <2> QED BY <1>1, <2>1, <2>2, HandSame
<1>3. ASSUME (\E d \in docs : VtcHears(d)) \/ Sending \/ StartSweep \/ QueueRoleMap
             \/ UNCHANGED vars
      PROVE  Held' /\ \A m \in Names : Taking(m)' => Pooling(m)'
  <2>1. UNCHANGED <<repoOf, binder, work, space>>
    BY <1>3 DEF VtcHears, Sending, PickEntry, SendEntry, StartSweep, QueueRoleMap, vars, store,
       tasks
  <2> QED BY <1>1, <2>1, HandSame
<1>4. CASE Forget
  <2>1. UNCHANGED <<binder, work>> /\ space' = [space EXCEPT ![sweep.ns] = NoSpace]
        /\ repoOf' = [r \in Repos |-> IF repoOf[r] = sweep.ns THEN Nobody ELSE repoOf[r]]
    BY <1>4 DEF Forget
  <2>2. Held'
    BY <1>1, <2>1, NameAssumption DEF Held, Has, TypeOK, StoreOK
  <2>3. \A m \in Names : Taking(m)' => Pooling(m)'
    BY <1>1, <2>1, Parts, NameAssumption DEF Taking, Pooling, Binders, TypeOK, StoreOK
  <2> QED BY <2>2, <2>3
<1> QED
  BY <1>1, <1>2, <1>3, <1>4, HandLoop, HandSame, HandWorks, HandBinds DEF Next, Sweeping

\* While nothing crashes and no bind is completed over another or over a job at
\* work, the record of a repository and the managed set of its namespace go
\* together (complete_bind pools what the owner's ids hold before it moves it).
THEOREM RepositoriesAreHandedOver == Spec => []HandedOver
<1>1. Init => OwnerInv /\ WorkInv /\ HandInv
  BY DEF Init, OwnerInv, Taking, Resting, Serving, Bound, Orphaned, NoSpace, WorkInv, WorkPart,
     AtWork, NoWork, Swept, Idle, HandInv, Held
<1>2. TypeOK /\ OwnerInv /\ BinderInv /\ WorkInv /\ HandInv /\ [Next]_vars
        => OwnerInv' /\ WorkInv' /\ HandInv'
  BY OwnerStep, WorkStep, HandStep
<1>3. HandInv => HandedOver
  BY DEF HandInv, HandedOver, Held, Has
<1> QED BY <1>1, <1>2, <1>3, BinderHolds, TypeCorrect, PTL DEF Spec

\* A re-binding is whole, for every set of ids and of repositories.
THEOREM RebindingIsWhole == Spec => []ReboundWhole
<1>1. HandedOver /\ RetiredStaysRetired /\ RetiredIsReported /\ DeadOnlyIfOvertaken
        => ReboundWhole
  BY DEF ReboundWhole
<1> QED
  BY <1>1, RepositoriesAreHandedOver, RetiredIsGone, RetiredIdsAreReported,
     DeadOnlyByRebinding, PTL
=============================================================================
