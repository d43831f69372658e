---------------------------- MODULE MirrorProofs ----------------------------
(* What is proved of Mirror, for every set of hosts and keys and every      *)
(* bound: its type invariant; that a bridge alone on its context, whose     *)
(* answers are not lost, never takes itself for another writer; and that    *)
(* what a bridge said is undone neither in the VTA nor in its own memory.   *)
EXTENDS Mirror, TLAPS

\* The VTA starts empty, and so does every data directory (no state file, no
\* record): the initial values are well typed.
LEMMA InitTypes == Init => TypeOK
  BY HostAssumption, BoundAssumption
     DEF Init, TypeOK, Fresh, Empty, Remotes, Disks, NoValue, Values, Pairs, NoRequest

\* A live record's version, as a write compares it, is a number; 0 for none.
LEMMA LiveVersionType == ASSUME TypeOK, NEW k \in Keys PROVE LiveVersion(k) \in Nat
  BY DEF TypeOK, Remotes, LiveVersion

\* The values a value was made from are values, whatever the value.
LEMMA PastType == ASSUME TypeOK, NEW v \in 0..MaxValues PROVE Past(v) \subseteq Values
  BY BoundAssumption DEF TypeOK, Past, Values, NoValue

\* A data directory with another cached value, report or mirrored version is
\* one still.
LEMMA DiskStep ==
    ASSUME TypeOK, NEW h \in Hosts, NEW d \in Disks
    PROVE  [disk EXCEPT ![h] = d] \in [Hosts -> Disks]
  BY DEF TypeOK

\* The VTA's copy of a record is a version and a value.
LEMMA RecordType ==
    ASSUME TypeOK, NEW k \in Keys
    PROVE  remote.rec[k] \in [version : Nat, value : 0..MaxValues]
  BY DEF TypeOK, Remotes

\* A pass that ends by a failure, and a process that ends, leave the memory of
\* the mirror well typed.
Requests == {NoRequest} \cup [key : Keys, version : Nat, live : BOOLEAN]

LEMMA PutBackType ==
    ASSUME TypeOK, NEW h \in Hosts, PutBack(h)
    PROVE  /\ dirty' \in [Hosts -> SUBSET Keys] /\ batch' \in [Hosts -> SUBSET Keys]
           /\ request' \in [Hosts -> Requests]
           /\ lease' \in Hosts \cup {NoHost}
           /\ \A g \in Hosts : request'[g] # NoRequest
                                 => g \in up /\ request'[g].key \in batch'[g]
  BY DEF PutBack, Pending, TypeOK, Requests

LEMMA ForgetType ==
    ASSUME TypeOK, NEW h \in Hosts, Forget(h)
    PROVE  /\ up' \subseteq up /\ versions' \in [Hosts -> [Keys -> Nat]]
           /\ dirty' \in [Hosts -> SUBSET Keys] /\ batch' \in [Hosts -> SUBSET Keys]
           /\ request' \in [Hosts -> Requests]
           /\ stopped' \in [Hosts -> BOOLEAN]
           /\ \A g \in Hosts : request'[g] # NoRequest
                                 => g \in up' /\ request'[g].key \in batch'[g]
  BY DEF Forget, TypeOK, Requests

\* Deletions reaped leave a copy of the VTA's kind.
LEMMA ReapedPut ==
    ASSUME NEW r \in Remotes, NEW s \in SUBSET Keys
    PROVE  [r EXCEPT !.reaped = s] \in Remotes
<1> DEFINE R == [Keys -> [version : Nat, value : 0..MaxValues]]
           K == SUBSET Keys
<1>1. Remotes = [counter : Nat, rec : R, reaped : K]
  BY DEF Remotes
<1> HIDE DEF R, K
<1>2. s \in K
  BY DEF K
<1> QED
  BY <1>1, <1>2

\* A mishap is counted, and the plan stays.
LEMMA HappensType ==
    ASSUME TypeOK, NEW m \in Mishaps, Happens(m)
    PROVE  /\ plan' = plan /\ count' \in [Mishaps -> Nat] /\ count'[m] > 0
           /\ \A n \in Mishaps \ {m} : count'[n] = count[n]
  BY DEF Happens, TypeOK

\* A change done with leaves the batch, and no other.
LEMMA DoneType ==
    ASSUME TypeOK, NEW h \in Hosts, NEW k \in Keys, Done(h, k)
    PROVE  /\ batch' \in [Hosts -> SUBSET Keys] /\ lease' \in Hosts \cup {NoHost}
           /\ \A g \in Hosts \ {h} : batch'[g] = batch[g]
  BY DEF Done, TypeOK

\* Every operation of the store, the mirror and the VTA keeps the types.
LEMMA TypeStep == TypeOK /\ [Next]_vars => TypeOK'
<1> SUFFICES ASSUME TypeOK, [Next]_vars PROVE TypeOK'
  OBVIOUS
<1>1. ASSUME NEW h \in Hosts, NEW k \in Keys, NEW deletes \in BOOLEAN,
             Change(h, k, deletes)
      PROVE  TypeOK'
  <2> DEFINE v == made + 1
             c == [disk[h].cache EXCEPT ![k] = v]
             o == disk[h].outbox \cup {<<k, v>>}
             d == [disk[h] EXCEPT !.cache = c, !.outbox = o]
  <2>1. v \in Values /\ v \in 0..MaxValues
    <3>1. plan.changes \in 0..MaxValues
      BY PlanAssumption DEF TypeOK
    <3> QED BY <1>1, <3>1, BoundAssumption DEF Change, TypeOK, Values
  <2>2. Past(Cache(h, k)) \subseteq Values
    <3>1. Cache(h, k) \in 0..MaxValues
      BY DEF TypeOK, Cache, Disks
    <3> QED BY <3>1, PastType
  <2>3. disk[h] \in Disks
    BY DEF TypeOK
  <2>4. d \in Disks
    <3>1. c \in [Keys -> 0..MaxValues]
      BY <2>1, <2>3 DEF Disks
    <3>2. o \in SUBSET Pairs
      BY <2>1, <2>3 DEF Disks, Pairs
    <3> HIDE DEF c, o
    <3> QED BY <2>3, <3>1, <3>2 DEF Disks
  <2>5. disk' = [disk EXCEPT ![h] = d]
    BY <1>1, <2>3 DEF Change, TypeOK
  <2>6. disk' \in [Hosts -> Disks]
    BY <2>4, <2>5, DiskStep
  <2>7. made' = v /\ past' = [past EXCEPT ![v] = Past(Cache(h, k)) \cup {v}]
        /\ gone' \subseteq gone \cup {v} /\ dirty' = [dirty EXCEPT ![h] = @ \cup {k}]
    BY <1>1 DEF Change
  <2>8. UNCHANGED <<remote, backup, lease, up, versions, batch, request, stopped,
                    reported, knows>>
    BY <1>1 DEF Change
  <2>9. plan' = plan /\ count' \in [Mishaps -> Nat]
    <3>1. CASE deletes
      BY <1>1, <3>1, HappensType DEF Change, Mishaps
    <3>2. CASE ~deletes
      BY <1>1, <3>2 DEF Change, TypeOK
    <3> QED BY <3>1, <3>2
  <2> QED
    BY <2>1, <2>2, <2>6, <2>7, <2>8, <2>9 DEF TypeOK
<1>2. ASSUME NEW h \in Hosts, NEW r \in Keys \X Values, SendReport(h, r)
      PROVE  TypeOK'
  <2> DEFINE d == [disk[h] EXCEPT !.outbox = @ \ {r}]
  <2>1. disk[h] \in Disks
    BY DEF TypeOK
  <2>2. d \in Disks /\ disk' = [disk EXCEPT ![h] = d]
    BY <1>2, <2>1 DEF Disks, SendReport, TypeOK
  <2>3. disk' \in [Hosts -> Disks]
    BY <2>2, DiskStep
  <2>4. reported' \subseteq Pairs /\ knows' \in [Hosts -> SUBSET Pairs]
    BY <1>2 DEF SendReport, TypeOK, Pairs
  <2>5. UNCHANGED <<remote, backup, lease, up, memory, history, plan, count>>
    BY <1>2 DEF SendReport
  <2> QED
    BY <2>3, <2>4, <2>5 DEF TypeOK, memory, history
<1>3. ASSUME NEW h \in Hosts, StartPass(h) PROVE TypeOK'
  <2>1. remote' \in Remotes /\ lease' \in Hosts
    <3>1. remote \in Remotes /\ remote' = [remote EXCEPT !.counter = @ + 1] /\ lease' = h
      BY <1>3 DEF StartPass, TypeOK
    <3> QED BY <3>1 DEF Remotes
  <2>2. batch' \in [Hosts -> SUBSET Keys] /\ dirty' \in [Hosts -> SUBSET Keys]
    BY <1>3 DEF StartPass, TypeOK
  <2>3. \A g \in Hosts : request[g] # NoRequest => request[g].key \in batch'[g]
    BY <1>3 DEF StartPass, TypeOK
  <2>4. UNCHANGED <<backup, disk, up, versions, request, stopped, history, reported,
                    knows, plan, count>>
    BY <1>3 DEF StartPass
  <2> QED
    BY <2>1, <2>2, <2>3, <2>4 DEF TypeOK, history
<1>4. ASSUME NEW h \in Hosts, NEW k \in Keys, Write(h, k) PROVE TypeOK'
  <2> DEFINE n == remote.counter + 1
             r == [key |-> k, version |-> n, live |-> Live(Cache(h, k))]
  <2>1. Cache(h, k) \in 0..MaxValues
    BY DEF TypeOK, Cache, Disks
  <2>2. Live(Cache(h, k)) \in BOOLEAN
    BY DEF Live
  <2>3. n \in Nat
    BY DEF TypeOK, Remotes
  <2>4. remote' \in Remotes
    BY <1>4, <2>1, <2>3 DEF Write, TypeOK, Remotes
  <2>5. request' = [request EXCEPT ![h] = r]
    BY <1>4 DEF Write
  <2>6. r \in [key : Keys, version : Nat, live : BOOLEAN]
    BY <2>2, <2>3
  <2>7. h \in up /\ k \in batch[h]
    BY <1>4 DEF Write
  <2>8. UNCHANGED <<backup, lease, disk, up, versions, dirty, batch, stopped, history,
                    reported, knows, plan, count>>
    BY <1>4 DEF Write
  <2>9. \A g \in Hosts : request'[g] # NoRequest => g \in up /\ request'[g].key \in batch[g]
    <3> TAKE g \in Hosts
    <3>1. CASE g = h
      BY <3>1, <2>5, <2>7 DEF TypeOK
    <3>2. CASE g # h
      BY <3>2, <2>5 DEF TypeOK
    <3> QED BY <3>1, <3>2
  <2>10. request' \in [Hosts -> Requests]
    BY <2>5, <2>6 DEF TypeOK, Requests
  <2> QED
    BY <2>4, <2>8, <2>9, <2>10 DEF TypeOK, history, Requests
<1>5. ASSUME NEW h \in Hosts, NEW k \in Keys, Skip(h, k) PROVE TypeOK'
  <2>1. disk' \in [Hosts -> Disks] /\ versions' \in [Hosts -> [Keys -> Nat]]
    <3> DEFINE d == [disk[h] EXCEPT !.mirrored[k] = 0]
    <3>1. disk[h] \in Disks
      BY DEF TypeOK
    <3>2. d \in Disks
      BY <3>1 DEF Disks
    <3>3. \/ /\ disk' = [disk EXCEPT ![h] = d]
             /\ versions' = [versions EXCEPT ![h][k] = 0]
          \/ UNCHANGED <<versions, disk>>
      BY <1>5, <3>1 DEF Skip, TypeOK
    <3>4. CASE UNCHANGED <<versions, disk>>
      BY <3>4 DEF TypeOK
    <3>5. CASE disk' = [disk EXCEPT ![h] = d] /\ versions' = [versions EXCEPT ![h][k] = 0]
      <4>1. disk' \in [Hosts -> Disks]
        BY <3>2, <3>5, DiskStep
      <4>2. versions' \in [Hosts -> [Keys -> Nat]]
        BY <3>5 DEF TypeOK
      <4> QED BY <4>1, <4>2
    <3> QED BY <3>3, <3>4, <3>5
  <2>2. /\ Done(h, k) /\ request[h] = NoRequest
        /\ UNCHANGED <<remote, backup, up, dirty, request, stopped, history, reported,
                       knows, plan, count>>
    BY <1>5 DEF Skip
  <2> QED
    BY <2>1, <2>2, DoneType DEF TypeOK, history
<1>6. ASSUME NEW h \in Hosts, NEW k \in Keys, Conflict(h, k) PROVE TypeOK'
  <2>1. /\ PutBack(h) /\ stopped' = [stopped EXCEPT ![h] = TRUE]
        /\ UNCHANGED <<remote, backup, disk, up, versions, history, reported, knows, plan, count>>
    BY <1>6 DEF Conflict
  <2> QED
    BY <2>1, PutBackType DEF TypeOK, history, Requests
<1>7. ASSUME NEW h \in Hosts, Answered(h) PROVE TypeOK'
  <2> DEFINE r == request[h]
             n == IF r.live THEN r.version ELSE 0
             d == [disk[h] EXCEPT !.mirrored[r.key] = n]
  <2>1. r \in [key : Keys, version : Nat, live : BOOLEAN]
    BY <1>7 DEF Answered, TypeOK
  <2>2. n \in Nat /\ r.key \in Keys
    BY <2>1
  <2>3. disk[h] \in Disks
    BY DEF TypeOK
  <2>4. d \in Disks
    BY <2>2, <2>3 DEF Disks
  <2>5. disk' = [disk EXCEPT ![h] = d] /\ versions' = [versions EXCEPT ![h][r.key] = n]
    BY <1>7, <2>3 DEF Answered, TypeOK
  <2>6. disk' \in [Hosts -> Disks]
    BY <2>4, <2>5, DiskStep
  <2>7. versions' \in [Hosts -> [Keys -> Nat]]
    BY <2>2, <2>5 DEF TypeOK
  <2>8. /\ Done(h, r.key) /\ request' = [request EXCEPT ![h] = NoRequest]
        /\ UNCHANGED <<remote, backup, up, dirty, stopped, history, reported, knows, plan, count>>
    BY <1>7 DEF Answered
  <2>9. /\ batch' \in [Hosts -> SUBSET Keys] /\ lease' \in Hosts \cup {NoHost}
        /\ \A g \in Hosts \ {h} : batch'[g] = batch[g]
    BY <2>2, <2>8, DoneType
  <2>10. \A g \in Hosts : request'[g] # NoRequest => g \in up /\ request'[g].key \in batch'[g]
    BY <2>8, <2>9 DEF TypeOK
  <2>11. request' \in [Hosts -> Requests]
    BY <2>8 DEF TypeOK, Requests
  <2> QED
    BY <2>6, <2>7, <2>8, <2>9, <2>10, <2>11 DEF TypeOK, history, Requests
<1>8. ASSUME NEW h \in Hosts, RequestFails(h) \/ AnswerLost(h) PROVE TypeOK'
  <2>1. plan' = plan /\ count' \in [Mishaps -> Nat]
    <3>1. CASE RequestFails(h)
      BY <3>1, HappensType DEF RequestFails, Mishaps
    <3>2. CASE AnswerLost(h)
      BY <3>2, HappensType DEF AnswerLost, Mishaps
    <3> QED BY <1>8, <3>1, <3>2
  <2>2. /\ PutBack(h)
        /\ UNCHANGED <<remote, backup, disk, up, versions, stopped, history, reported, knows>>
    BY <1>8 DEF RequestFails, AnswerLost
  <2> QED
    BY <2>1, <2>2, PutBackType DEF TypeOK, history, Requests
<1>9. ASSUME NEW h \in Hosts, Start(h) PROVE TypeOK'
  <2> DEFINE pulled == [k \in Keys |-> Pulled(h, k)]
             seen == [k \in Keys |-> LiveVersion(k)]
             d == [disk[h] EXCEPT !.cache = pulled, !.mirrored = seen]
  <2>1. disk[h] \in Disks
    BY DEF TypeOK
  <2>2. \A k \in Keys : Pulled(h, k) \in 0..MaxValues
    BY <2>1, RecordType DEF Pulled, Cache, Disks
  <2>3. pulled \in [Keys -> 0..MaxValues] /\ seen \in [Keys -> Nat]
    BY <2>2, LiveVersionType
  <2>4. d \in Disks
    BY <2>1, <2>3 DEF Disks
  <2>5. disk' = [disk EXCEPT ![h] = d] /\ versions' = [versions EXCEPT ![h] = seen]
    BY <1>9, <2>1 DEF Start, TypeOK
  <2>6. disk' \in [Hosts -> Disks]
    BY <2>4, <2>5, DiskStep
  <2>7. versions' \in [Hosts -> [Keys -> Nat]]
    BY <2>3, <2>5 DEF TypeOK
  <2>8. dirty' \in [Hosts -> SUBSET Keys] /\ up' = up \cup {h} /\ h \in plan.hosts
    BY <1>9 DEF Start, TypeOK, Unmirrored
  <2>9. UNCHANGED <<remote, backup, lease, batch, request, stopped, history, reported,
                    knows, plan, count>>
    BY <1>9 DEF Start
  <2> QED
    BY <2>6, <2>7, <2>8, <2>9 DEF TypeOK, history
<1>10. ASSUME NEW h \in Hosts, Stop(h) PROVE TypeOK'
  <2>1. plan' = plan /\ count' \in [Mishaps -> Nat]
    BY <1>10, HappensType DEF Stop, Mishaps
  <2>2. Forget(h) /\ UNCHANGED <<remote, backup, lease, disk, history, reported, knows>>
    BY <1>10 DEF Stop
  <2> QED
    BY <2>1, <2>2, ForgetType DEF TypeOK, history, Requests
<1>11. ASSUME NEW h \in Hosts, LoseHost(h) PROVE TypeOK'
  <2>1. plan' = plan /\ count' \in [Mishaps -> Nat]
    BY <1>11, HappensType DEF LoseHost, Mishaps
  <2>2. Empty \in Disks
    BY BoundAssumption DEF Empty, Disks, NoValue
  <2>3. disk' \in [Hosts -> Disks]
    BY <1>11, <2>2, DiskStep DEF LoseHost
  <2>4. knows' \in [Hosts -> SUBSET Pairs]
    BY <1>11 DEF LoseHost, TypeOK
  <2>5. Forget(h) /\ UNCHANGED <<remote, backup, lease, history, reported>>
    BY <1>11 DEF LoseHost
  <2>6. up' \subseteq plan'.hosts
    BY <2>1, <2>5, ForgetType DEF TypeOK
  <2>7. /\ versions' \in [Hosts -> [Keys -> Nat]]
        /\ dirty' \in [Hosts -> SUBSET Keys] /\ batch' \in [Hosts -> SUBSET Keys]
        /\ request' \in [Hosts -> Requests] /\ stopped' \in [Hosts -> BOOLEAN]
        /\ \A g \in Hosts : request'[g] # NoRequest
                              => g \in up' /\ request'[g].key \in batch'[g]
    BY <2>5, ForgetType
  <2>8. request' \in [Hosts -> {NoRequest} \cup [key : Keys, version : Nat, live : BOOLEAN]]
    BY <2>7 DEF Requests
  <2>9. UNCHANGED <<remote, backup, lease, made, past, gone, reported>>
    BY <2>5 DEF history
  <2>10. /\ remote' \in Remotes /\ backup' \in Remotes
         /\ lease' \in Hosts \cup {NoHost} /\ made' \in 0..MaxValues
         /\ past' \in [Values -> SUBSET Values] /\ gone' \subseteq Values
         /\ reported' \subseteq Pairs /\ plan' \in Plans
    BY <2>1, <2>9 DEF TypeOK
  <2> QED
    BY <2>1, <2>3, <2>4, <2>6, <2>7, <2>8, <2>10 DEF TypeOK
<1>12. CASE LeaseExpires \/ TakeBackup
  BY <1>12 DEF LeaseExpires, TakeBackup, TypeOK, memory, history
<1>13. CASE Rollback \/ Reap
  <2>1. remote' \in Remotes
    <3>1. CASE Rollback
      BY <3>1 DEF Rollback, TypeOK
    <3>2. CASE Reap
      <4>1. remote \in Remotes /\ {k \in Keys : remote.rec[k].value \in gone} \in SUBSET Keys
        BY DEF TypeOK
      <4> HIDE DEF TypeOK
      <4>2. [remote EXCEPT !.reaped = {k \in Keys : remote.rec[k].value \in gone}] \in Remotes
        BY <4>1, ReapedPut
      <4> QED BY <3>2, <4>2 DEF Reap
    <3> QED BY <1>13, <3>1, <3>2
  <2>2. plan' = plan /\ count' \in [Mishaps -> Nat]
    <3>1. CASE Rollback
      BY <3>1, HappensType DEF Rollback, Mishaps
    <3>2. CASE Reap
      BY <3>2, HappensType DEF Reap, Mishaps
    <3> QED BY <1>13, <3>1, <3>2
  <2>3. UNCHANGED <<backup, lease, disk, up, memory, history, reported, knows>>
    BY <1>13 DEF Rollback, Reap
  <2> QED
    BY <2>1, <2>2, <2>3 DEF TypeOK, memory, history
<1>14. CASE UNCHANGED vars
  BY <1>14 DEF vars, TypeOK
<1> QED
  BY <1>1, <1>2, <1>3, <1>4, <1>5, <1>6, <1>7, <1>8, <1>9, <1>10, <1>11, <1>12, <1>13, <1>14
     DEF Next, Local, Pass

\* Whatever the hosts, the records and the bounds, the VTA's copy, the data
\* directories and the mirrors keep their types (Mirror, Store, VtaAppState).
THEOREM TypeCorrect == Spec => []TypeOK
  BY InitTypes, TypeStep, PTL DEF Spec

\* ----- The bridge alone on its context.

\* Every value around was made: a new one is nobody's yet.
AllMade ==
    /\ \A k \in Keys : remote.rec[k].value <= made /\ backup.rec[k].value <= made
    /\ \A h \in Hosts, k \in Keys : Cache(h, k) <= made

\* The version a running bridge remembers of a record, or is being told of.
Seen(h, k) ==
    IF request[h] # NoRequest /\ request[h].key = k
    THEN (IF request[h].live THEN request[h].version ELSE 0)
    ELSE versions[h][k]

\* A bridge alone knows the version of every record.
InStep ==
    Alone /\ Never({"restore", "lostAnswer"}) =>
        \A h \in plan.hosts : /\ ~stopped[h]
                              /\ h \in up => \A k \in Keys : Seen(h, k) = LiveVersion(k)

AloneInv == TypeOK /\ AllMade /\ InStep

\* At the start nothing was made, and no bridge runs.
LEMMA InitAlone == Init => AloneInv
<1> SUFFICES ASSUME Init PROVE AllMade /\ InStep
  BY InitTypes DEF AloneInv
<1>1. AllMade
  BY DEF Init, AllMade, Fresh, Empty, Cache, NoValue
<1>2. InStep
  BY InitTypes, PlanAssumption DEF Init, InStep, TypeOK
<1> QED BY <1>1, <1>2

\* Values are numbers, so that they compare.
LEMMA ValueTypes ==
    ASSUME TypeOK
    PROVE  /\ made \in Nat
           /\ \A k \in Keys : remote.rec[k].value \in Nat /\ backup.rec[k].value \in Nat
           /\ \A h \in Hosts, k \in Keys : Cache(h, k) \in Nat
  BY BoundAssumption DEF TypeOK, Remotes, Disks, Cache

\* A step that leaves the VTA's copies, the caches and the values alone keeps
\* AllMade.
LEMMA MadeStays ==
    ASSUME AllMade, made' = made, remote'.rec = remote.rec, backup'.rec = backup.rec,
           \A h \in Hosts, k \in Keys : Cache(h, k)' = Cache(h, k)
    PROVE  AllMade'
  BY DEF AllMade

\* Every step keeps the values made: a new value is one above all others, and
\* the others only travel between the VTA and the caches.
LEMMA MadeStep == TypeOK /\ AllMade /\ [Next]_vars => AllMade'
<1> SUFFICES ASSUME TypeOK, AllMade, [Next]_vars PROVE AllMade'
  OBVIOUS
<1>1. ASSUME NEW h \in Hosts, NEW k \in Keys, NEW deletes \in BOOLEAN,
             Change(h, k, deletes)
      PROVE  AllMade'
  <2> DEFINE v == made + 1
  <2>1. made' = v /\ UNCHANGED <<remote, backup>>
    BY <1>1 DEF Change
  <2>2. \A g \in Hosts, i \in Keys : Cache(g, i)' = IF g = h /\ i = k THEN v ELSE Cache(g, i)
    BY <1>1 DEF Change, TypeOK, Cache, Disks
  <2> QED BY <2>1, <2>2, ValueTypes DEF AllMade
<1>2. ASSUME NEW h \in Hosts, NEW r \in Keys \X Values, SendReport(h, r)
      PROVE  AllMade'
  <2>1. UNCHANGED <<made, remote, backup>>
    BY <1>2 DEF SendReport, history
  <2>2. \A g \in Hosts, i \in Keys : Cache(g, i)' = Cache(g, i)
    BY <1>2 DEF SendReport, TypeOK, Cache, Disks
  <2> QED BY <2>1, <2>2, MadeStays
<1>3. ASSUME NEW h \in Hosts, StartPass(h) PROVE AllMade'
  BY <1>3, MadeStays DEF StartPass, history, Cache, TypeOK, Remotes
<1>4. ASSUME NEW h \in Hosts, NEW k \in Keys, Write(h, k) PROVE AllMade'
  <2>1. UNCHANGED <<made, backup, disk>>
    BY <1>4 DEF Write, history
  <2>2. \A i \in Keys : remote'.rec[i].value =
                          IF i = k THEN Cache(h, k) ELSE remote.rec[i].value
    <3> DEFINE x == [version |-> remote.counter + 1, value |-> Cache(h, k)]
    <3>1. remote'.rec = [remote.rec EXCEPT ![k] = x]
      BY <1>4 DEF Write, TypeOK, Remotes
    <3>2. remote.rec \in [Keys -> [version : Nat, value : 0..MaxValues]]
      BY DEF TypeOK, Remotes
    <3> QED BY <3>1, <3>2
  <2> QED BY <2>1, <2>2 DEF AllMade, Cache
<1>5. ASSUME NEW h \in Hosts, NEW k \in Keys, Skip(h, k) PROVE AllMade'
  <2>1. UNCHANGED <<made, remote, backup>>
    BY <1>5 DEF Skip, history
  <2>2. \A g \in Hosts, i \in Keys : Cache(g, i)' = Cache(g, i)
    <3>1. CASE UNCHANGED disk
      BY <3>1 DEF Cache
    <3>2. CASE disk' = [disk EXCEPT ![h].mirrored[k] = 0]
      BY <3>2 DEF TypeOK, Cache, Disks
    <3> QED BY <1>5, <3>1, <3>2 DEF Skip
  <2> QED BY <2>1, <2>2, MadeStays
<1>6. ASSUME NEW h \in Hosts, NEW k \in Keys, Conflict(h, k) PROVE AllMade'
  BY <1>6, MadeStays DEF Conflict, history, Cache
<1>7. ASSUME NEW h \in Hosts, Answered(h) PROVE AllMade'
  <2>1. UNCHANGED <<made, remote, backup>>
    BY <1>7 DEF Answered, history
  <2>2. \A g \in Hosts, i \in Keys : Cache(g, i)' = Cache(g, i)
    BY <1>7 DEF Answered, TypeOK, Cache, Disks
  <2> QED BY <2>1, <2>2, MadeStays
<1>8. ASSUME NEW h \in Hosts, RequestFails(h) \/ AnswerLost(h) PROVE AllMade'
  BY <1>8, MadeStays DEF RequestFails, AnswerLost, history, Cache
<1>9. ASSUME NEW h \in Hosts, Start(h) PROVE AllMade'
  <2>1. UNCHANGED <<made, remote, backup>>
    BY <1>9 DEF Start, history
  <2>2. \A g \in Hosts, i \in Keys :
            Cache(g, i)' = IF g = h THEN Pulled(h, i) ELSE Cache(g, i)
    BY <1>9 DEF Start, TypeOK, Cache, Disks
  <2>3. \A i \in Keys : Pulled(h, i) <= made
    BY DEF AllMade, Pulled
  <2> QED BY <2>1, <2>2, <2>3 DEF AllMade
<1>10. ASSUME NEW h \in Hosts, Stop(h) PROVE AllMade'
  BY <1>10, MadeStays DEF Stop, history, Cache
<1>11. ASSUME NEW h \in Hosts, LoseHost(h) PROVE AllMade'
  <2>1. UNCHANGED <<made, remote, backup>>
    BY <1>11 DEF LoseHost, history
  <2>2. \A g \in Hosts, i \in Keys : Cache(g, i)' = IF g = h THEN 0 ELSE Cache(g, i)
    BY <1>11 DEF LoseHost, TypeOK, Cache, Disks, Empty, NoValue
  <2> QED BY <2>1, <2>2, ValueTypes DEF AllMade
<1>12. CASE LeaseExpires \/ TakeBackup
  BY <1>12 DEF LeaseExpires, TakeBackup, history, Cache, AllMade
<1>13. CASE Rollback
  BY <1>13 DEF Rollback, history, Cache, AllMade
<1>14. CASE Reap
  <2>1. remote'.rec = remote.rec /\ UNCHANGED <<made, backup, disk>>
    BY <1>14 DEF Reap, history, TypeOK, Remotes
  <2> QED BY <2>1, MadeStays DEF Cache
<1>15. CASE UNCHANGED vars
  BY <1>15 DEF vars, Cache, AllMade
<1> QED
  BY <1>1, <1>2, <1>3, <1>4, <1>5, <1>6, <1>7, <1>8, <1>9, <1>10, <1>11, <1>12, <1>13,
     <1>14, <1>15 DEF Next, Local, Pass

\* The version of a live record changes with the record, or if what it holds
\* turns out deleted.
LEMMA LiveVersionStays ==
    ASSUME NEW k \in Keys, remote'.rec[k] = remote.rec[k],
           remote.rec[k].value \in gone' <=> remote.rec[k].value \in gone
    PROVE  LiveVersion(k)' = LiveVersion(k)
  BY DEF LiveVersion, Live

\* The plan stays, and what happened has happened.
LEMMA CountStep ==
    ASSUME TypeOK, [Next]_vars
    PROVE  /\ plan' = plan
           /\ \A m \in Mishaps : count'[m] = 0 => count[m] = 0
<1>1. CASE UNCHANGED <<plan, count>>
  BY <1>1
<1>2. ASSUME NEW m \in Mishaps, Happens(m)
      PROVE  plan' = plan /\ \A n \in Mishaps : count'[n] = 0 => count[n] = 0
  BY <1>2, HappensType DEF Happens, TypeOK
<1>3. UNCHANGED <<plan, count>> \/ \E m \in Mishaps : Happens(m)
  <2>1. ASSUME NEW h \in Hosts, Local(h) \/ Pass(h)
        PROVE  UNCHANGED <<plan, count>> \/ \E m \in Mishaps : Happens(m)
    BY <2>1 DEF Local, Pass, Change, SendReport, StartPass, Write, Skip, Conflict, Answered,
                Mishaps
  <2>2. ASSUME NEW h \in Hosts,
               RequestFails(h) \/ AnswerLost(h) \/ Start(h) \/ Stop(h) \/ LoseHost(h)
        PROVE  UNCHANGED <<plan, count>> \/ \E m \in Mishaps : Happens(m)
    BY <2>2 DEF RequestFails, AnswerLost, Start, Stop, LoseHost, Mishaps
  <2>3. CASE LeaseExpires \/ TakeBackup \/ Rollback \/ Reap \/ UNCHANGED vars
    BY <2>3 DEF LeaseExpires, TakeBackup, Rollback, Reap, vars, Mishaps
  <2> QED BY <2>1, <2>2, <2>3 DEF Next
<1> QED BY <1>1, <1>2, <1>3

\* Every step of a bridge alone on its context, and of the VTA short of a
\* restore, keeps what it remembers in step with what the VTA holds.
LEMMA InStepStep ==
    ASSUME AloneInv, [Next]_vars
    PROVE  InStep'
<1> USE DEF AloneInv
<1> SUFFICES ASSUME Alone', Never({"restore", "lostAnswer"})' PROVE InStep'
  BY DEF InStep
<1>0. plan' = plan /\ \A m \in {"restore", "lostAnswer"} : count[m] = 0 /\ count'[m] = 0
  BY CountStep DEF Never, Mishaps
<1> SUFFICES ASSUME NEW h \in plan.hosts
             PROVE  /\ ~stopped'[h]
                    /\ h \in up' => \A k \in Keys : Seen(h, k)' = LiveVersion(k)'
  BY <1>0 DEF InStep
<1>1. \A g \in plan.hosts : g = h
  BY <1>0 DEF Alone
<1>2. ~stopped[h] /\ (h \in up => \A k \in Keys : Seen(h, k) = LiveVersion(k))
  BY <1>0, <1>1 DEF InStep, Alone, Never
<1>3. up \subseteq {h} /\ plan.hosts \subseteq Hosts /\ h \in Hosts
  BY <1>1, PlanAssumption DEF TypeOK
<1> USE <1>3
<1>4. ASSUME NEW k \in Keys, NEW deletes \in BOOLEAN, Change(h, k, deletes)
      PROVE  ~stopped'[h] /\ \A i \in Keys : Seen(h, i)' = LiveVersion(i)'
  <2>1. /\ h \in up /\ gone' \subseteq gone \cup {made + 1} /\ gone \subseteq gone'
        /\ UNCHANGED <<remote, up, versions, request, stopped>>
    BY <1>4 DEF Change
  <2>2. \A i \in Keys : remote.rec[i].value # made + 1
    BY ValueTypes DEF AllMade
  <2>3. \A i \in Keys : LiveVersion(i)' = LiveVersion(i)
    BY <2>1, <2>2, LiveVersionStays
  <2> QED BY <1>2, <2>1, <2>3 DEF Seen
<1>5. ASSUME NEW k \in Keys, Write(h, k)
      PROVE  ~stopped'[h] /\ \A i \in Keys : Seen(h, i)' = LiveVersion(i)'
  <2> DEFINE n == remote.counter + 1
  <2>1. /\ h \in up /\ request[h] = NoRequest
        /\ UNCHANGED <<versions, stopped, gone, disk>>
    BY <1>5 DEF Write, history
  <2>2. remote'.rec = [remote.rec EXCEPT ![k] = [version |-> n, value |-> Cache(h, k)]]
    BY <1>5 DEF Write, TypeOK, Remotes
  <2>3. remote.rec \in [Keys -> [version : Nat, value : 0..MaxValues]]
    BY DEF TypeOK, Remotes
  <2>4. request'[h] = [key |-> k, version |-> n, live |-> Live(Cache(h, k))]
    BY <1>5 DEF Write, TypeOK
  <2>5. request'[h] # NoRequest
    BY <2>4, ValueTypes DEF NoRequest, TypeOK, Remotes
  <2>6. LiveVersion(k)' = IF Live(Cache(h, k)) THEN n ELSE 0
    BY <2>1, <2>2, <2>3 DEF LiveVersion, Live
  <2>7. ASSUME NEW i \in Keys, i # k PROVE Seen(h, i)' = LiveVersion(i)'
    <3>1. remote'.rec[i] = remote.rec[i]
      BY <2>2, <2>3, <2>7
    <3>2. LiveVersion(i)' = LiveVersion(i)
      BY <2>1, <3>1, LiveVersionStays
    <3>3. Seen(h, i) = versions[h][i] /\ Seen(h, i)' = versions'[h][i]
      BY <2>1, <2>4, <2>7 DEF Seen
    <3> QED BY <1>2, <2>1, <3>2, <3>3
  <2>8. Seen(h, k)' = IF Live(Cache(h, k)) THEN n ELSE 0
    BY <2>4, <2>5 DEF Seen
  <2> QED BY <1>2, <2>1, <2>6, <2>7, <2>8
<1>6. ASSUME NEW k \in Keys, Skip(h, k)
      PROVE  ~stopped'[h] /\ \A i \in Keys : Seen(h, i)' = LiveVersion(i)'
  <2>1. /\ h \in up /\ request[h] = NoRequest
        /\ UNCHANGED <<remote, request, stopped, gone>>
    BY <1>6 DEF Skip, history
  <2>2. \A i \in Keys : LiveVersion(i)' = LiveVersion(i)
    BY <2>1 DEF LiveVersion, Live
  <2>3. \A i \in Keys : versions'[h][i] = versions[h][i]
                        \/ (i = k /\ versions'[h][i] = 0 /\ LiveVersion(k) = 0)
    <3>1. CASE UNCHANGED versions
      BY <3>1
    <3>2. CASE LiveVersion(k) = 0 /\ versions' = [versions EXCEPT ![h][k] = 0]
      BY <3>2 DEF TypeOK
    <3> QED BY <1>6, <3>1, <3>2 DEF Skip
  <2> QED BY <1>2, <2>1, <2>2, <2>3 DEF Seen
<1>7. ASSUME NEW k \in Keys, Conflict(h, k) PROVE FALSE
  <2>1. h \in up /\ request[h] = NoRequest /\ versions[h][k] # LiveVersion(k)
    BY <1>7 DEF Conflict, Accepts
  <2> QED BY <1>2, <2>1 DEF Seen
<1>8. ASSUME Answered(h)
      PROVE  ~stopped'[h] /\ \A i \in Keys : Seen(h, i)' = LiveVersion(i)'
  <2> DEFINE r == request[h]
             n == IF r.live THEN r.version ELSE 0
  <2>1. /\ h \in up /\ r # NoRequest /\ UNCHANGED <<remote, stopped, gone>>
    BY <1>8 DEF Answered, history
  <2>2. /\ versions' = [versions EXCEPT ![h][r.key] = n]
        /\ request' = [request EXCEPT ![h] = NoRequest]
    BY <1>8 DEF Answered
  <2>3. \A i \in Keys : Seen(h, i)' = IF i = r.key THEN n ELSE versions[h][i]
    BY <2>1, <2>2 DEF Seen, TypeOK
  <2>4. \A i \in Keys : LiveVersion(i)' = LiveVersion(i)
    BY <2>1 DEF LiveVersion, Live
  <2> QED BY <1>2, <2>1, <2>3, <2>4 DEF Seen
<1>9. ASSUME RequestFails(h)
      PROVE  ~stopped'[h] /\ \A i \in Keys : Seen(h, i)' = LiveVersion(i)'
  <2>1. /\ h \in up /\ request'[h] = request[h]
        /\ UNCHANGED <<remote, versions, stopped, gone>>
    BY <1>9 DEF RequestFails, PutBack, history, TypeOK
  <2> QED BY <1>2, <2>1 DEF Seen, LiveVersion, Live
<1>10. ~AnswerLost(h)
  BY <1>0, HappensType DEF AnswerLost, Mishaps
<1>11. ASSUME Start(h)
       PROVE  ~stopped'[h] /\ \A i \in Keys : Seen(h, i)' = LiveVersion(i)'
  <2>1. request[h] = NoRequest /\ UNCHANGED <<remote, request, stopped, gone>>
    BY <1>11 DEF Start, history, TypeOK
  <2>2. versions'[h] = [i \in Keys |-> LiveVersion(i)]
    BY <1>11 DEF Start, TypeOK
  <2> QED BY <1>2, <2>1, <2>2 DEF Seen, LiveVersion, Live
<1>12. ASSUME Stop(h) \/ LoseHost(h) PROVE ~stopped'[h] /\ h \notin up'
  BY <1>12 DEF Stop, LoseHost, Forget, TypeOK
<1>13. ASSUME UNCHANGED <<remote.rec, gone, versions, request, stopped, up>>
       PROVE  ~stopped'[h] /\ (h \in up' => \A k \in Keys : Seen(h, k)' = LiveVersion(k)')
  BY <1>2, <1>13 DEF Seen, LiveVersion, Live
<1>14. (\E r \in Keys \X Values : SendReport(h, r)) \/ StartPass(h) \/ LeaseExpires
         \/ TakeBackup \/ Reap \/ UNCHANGED vars
         => UNCHANGED <<remote.rec, gone, versions, request, stopped, up>>
  BY DEF SendReport, StartPass, LeaseExpires, TakeBackup, Reap, vars, memory, history, TypeOK,
         Remotes
<1>15. ~Rollback
  BY <1>0, HappensType DEF Rollback, Mishaps
<1> QED
  <2>1. \/ \E k \in Keys, deletes \in BOOLEAN : Change(h, k, deletes)
        \/ \E r \in Keys \X Values : SendReport(h, r)
        \/ StartPass(h) \/ (\E k \in Keys : Write(h, k) \/ Skip(h, k) \/ Conflict(h, k))
        \/ Answered(h) \/ RequestFails(h) \/ AnswerLost(h)
        \/ Start(h) \/ Stop(h) \/ LoseHost(h)
        \/ LeaseExpires \/ TakeBackup \/ Rollback \/ Reap \/ UNCHANGED vars
    <3>1. ASSUME NEW g \in Hosts, g # h
          PROVE  ~(\/ Local(g) \/ Pass(g) \/ RequestFails(g) \/ AnswerLost(g)
                   \/ Start(g) \/ Stop(g) \/ LoseHost(g))
      <4>1. g \notin up /\ g \notin plan.hosts
        BY <1>1, <1>3, <3>1
      <4> QED
        BY <4>1 DEF Local, Pass, Change, SendReport, StartPass, Write, Skip, Conflict,
                    Answered, RequestFails, AnswerLost, Start, Stop, LoseHost
    <3> QED BY <3>1 DEF Next, Local, Pass
  <2> QED
    BY <2>1, <1>4, <1>5, <1>6, <1>7, <1>8, <1>9, <1>10, <1>11, <1>12, <1>13, <1>14, <1>15

\* A bridge alone on its context, whose VTA is not restored and whose answers
\* all arrive, never stops its mirror (Mirror::write, the conflict): whatever
\* the records, the crashes, the requests that fail and the lost directories.
\* That the answers arrive is needed: see StopsForWriters.
THEOREM AloneNeverStops == Spec => []StopsOnlyForOthers
<1>1. Init => AloneInv
  BY InitAlone
<1>2. AloneInv /\ [Next]_vars => AloneInv'
  BY TypeStep, MadeStep, InStepStep DEF AloneInv
<1>3. AloneInv => StopsOnlyForOthers
  BY DEF AloneInv, InStep, StopsOnlyForOthers
<1> QED BY <1>1, <1>2, <1>3, PTL DEF Spec

\* ----- What was reported stands.

\* What the VTA holds of a record, and what a data directory remembers.
Val(k) == remote.rec[k].value
Ver(k) == remote.rec[k].version
Mirrored(h, k) == disk[h].mirrored[k]
Outbox(h) == disk[h].outbox

\* A record whose cached value still has to be carried to the VTA: pending, and
\* not as the write that is waited for.
Unsent(h, k) ==
    \/ k \in dirty[h]
    \/ k \in batch[h] /\ ~(request[h] # NoRequest /\ request[h].key = k)

\* A value is in its own past, the past of what is in it too, and nothing newer;
\* what is reported, or is to be, was made.
Pasts ==
    /\ \A v \in Values : /\ v <= made => v \in past[v]
                         /\ v > made => past[v] = {}
                         /\ \A w \in past[v] : w <= v /\ past[w] \subseteq past[v]
    /\ \A d \in gone : d <= made
    /\ \A h \in Hosts : \A r \in Outbox(h) : r[2] <= made
    /\ \A r \in reported : r[2] <= made
    /\ \A h \in Hosts : knows[h] \subseteq reported
    /\ Never({"deletion"}) => gone = {}

\* A record there was written at a version of its own, and a reaped one was a
\* deletion.
Sound(r) ==
    \A k \in Keys : /\ r.rec[k].version <= r.counter
                    /\ r.rec[k].value # NoValue => r.rec[k].version > 0
                    /\ k \in r.reaped => r.rec[k].value \in gone

\* The VTA's copies; the backup is not ahead.
Copies == Sound(remote) /\ Sound(backup) /\ backup.counter <= remote.counter

\* A process that ended has nothing pending, what is pending has a value, and a
\* running mirror remembers what the data directory does.
Books ==
    /\ \A h \in Hosts, k \in Keys :
           /\ h \notin up => k \notin Pending(h)
           /\ k \in Pending(h) => Cache(h, k) # NoValue
           /\ h \in up => versions[h][k] = Mirrored(h, k)
    /\ \A h \in Hosts : request[h] # NoRequest =>
           /\ request[h].version > 0
           /\ Never({"deletion"}) => request[h].live

\* Without a restore no version comes twice, so that a host which knows the
\* version of a live record, or waits for it, built upon that record.
Basis ==
    Never({"restore"}) => \A h \in Hosts, k \in Keys :
        /\ h \in up => /\ versions[h][k] <= remote.counter
                       /\ Live(Val(k)) /\ versions[h][k] = Ver(k) => Val(k) \in Past(Cache(h, k))
        /\ request[h] # NoRequest /\ request[h].key = k =>
               /\ request[h].version <= remote.counter
               /\ Live(Val(k)) /\ request[h].version = Ver(k) => Val(k) \in Past(Cache(h, k))

\* The values around of one record have nothing to do with another's.
Around(k) == {Cache(h, k) : h \in Hosts} \cup {Val(k), backup.rec[k].value}
Apart ==
    \A i, k \in Keys : i # k =>
        \A x \in Around(i), y \in Around(k) : Past(x) \cap Past(y) = {}

\* A bridge alone on its context, without a restore, has built upon whatever
\* live record the VTA has; and a live value it caches of a record the VTA does
\* not have was never deleted.
Built ==
    Never({"restore"}) /\ Alone => \A h \in plan.hosts, k \in Keys :
        /\ h \in up /\ Live(Val(k)) => Val(k) \in Past(Cache(h, k))
        /\ Live(Cache(h, k)) /\ ~Live(Val(k)) => \A d \in gone : Cache(h, k) \notin Past(d)

\* What the reports' safety excepts.
Calm == Never({"restore", "crash"}) /\ (Alone \/ Never({"deletion"}))
Restored == Alone /\ Never({"crash", "deletion"})

\* What is queued for the VTC stands in the VTA, or has still to be sent there.
Queued ==
    Calm => \A h \in Hosts : \A r \in Outbox(h) :
        r[1] \notin Big /\ ~Unsent(h, r[1]) => Stands(r[2], Val(r[1]))

\* What a data directory reported, or is to report, stands in its cache.
Remembered ==
    Calm \/ Restored => \A h \in Hosts : \A r \in Outbox(h) \cup knows[h] :
        r[1] \notin Big => Stands(r[2], Cache(h, r[1]))

\* What a bridge told the VTC of a record, or will with nothing more to write;
\* and what it will once the write it waits for is answered.
Told(h, k) ==
    {v \in Values : \/ <<k, v>> \in knows[h]
                    \/ <<k, v>> \in Outbox(h) /\ k \notin Pending(h)}
Telling(h, k) ==
    {v \in Values : \/ <<k, v>> \in knows[h]
                    \/ <<k, v>> \in Outbox(h) /\ k \notin dirty[h]}

\* A copy of the VTA, old or new, that has a record at the version a bridge
\* mirrored (or is being told of), or a later one, has what it told of it.
Has(n, v, h, k) ==
    /\ n >= Mirrored(h, k) => Told(h, k) \subseteq Past(v)
    /\ request[h] # NoRequest /\ request[h].key = k /\ n >= request[h].version
           => Telling(h, k) \subseteq Past(v)
HasTold(r) ==
    Restored => \A h \in plan.hosts, k \in Keys \ Big :
        Has(r.rec[k].version, r.rec[k].value, h, k)

\* What is told was mirrored.
ToldIsMirrored ==
    Restored => \A h \in plan.hosts, k \in Keys \ Big : Told(h, k) # {} => Mirrored(h, k) > 0

KnownInv == TypeOK /\ AllMade /\ Pasts /\ Apart /\ Copies /\ Books /\ Basis /\ Built
SaidInv == ReportedStands /\ Queued /\ Remembered
ToldInv == HasTold(remote) /\ HasTold(backup) /\ ToldIsMirrored

\* A data directory is one, and a record of the VTA is one.
LEMMA StateTypes ==
    ASSUME TypeOK
    PROVE  /\ disk \in [Hosts -> Disks]
           /\ \A g \in Hosts : disk[g] \in Disks
           /\ \A g \in Hosts, i \in Keys : Cache(g, i) \in Nat /\ Mirrored(g, i) \in Nat
           /\ \A i \in Keys : Val(i) \in Nat /\ Ver(i) \in Nat
           /\ \A i \in Keys : backup.rec[i].value \in Nat /\ backup.rec[i].version \in Nat
           /\ remote.counter \in Nat /\ backup.counter \in Nat /\ made \in Nat
  BY BoundAssumption DEF TypeOK, Remotes, Disks, Cache, Mirrored, Val, Ver

\* What each operation changes, host by host and record by record: first the
\* store's change,
Changed(h, k, deletes) ==
    /\ h \in up /\ made + 1 \in Values /\ made' = made + 1
    /\ past' = [past EXCEPT ![made + 1] = Past(Cache(h, k)) \cup {made + 1}]
    /\ gone' = IF deletes THEN gone \cup {made + 1} ELSE gone
    /\ deletes => count'["deletion"] > 0
    /\ \A g \in Hosts, i \in Keys :
           /\ Cache(g, i)' = IF g = h /\ i = k THEN made + 1 ELSE Cache(g, i)
           /\ Mirrored(g, i)' = Mirrored(g, i)
    /\ \A g \in Hosts :
           /\ Outbox(g)' = IF g = h THEN Outbox(g) \cup {<<k, made + 1>>} ELSE Outbox(g)
           /\ dirty'[g] = IF g = h THEN dirty[g] \cup {k} ELSE dirty[g]
    /\ UNCHANGED <<remote, backup, up, versions, batch, request, reported, knows>>

LEMMA ChangeEffect ==
    ASSUME TypeOK, NEW h \in Hosts, NEW k \in Keys, NEW deletes \in BOOLEAN,
           Change(h, k, deletes)
    PROVE  Changed(h, k, deletes)
<1>1. /\ h \in up /\ made' = made + 1 /\ made < plan.changes
      /\ past' = [past EXCEPT ![made + 1] = Past(Cache(h, k)) \cup {made + 1}]
      /\ gone' = IF deletes THEN gone \cup {made + 1} ELSE gone
      /\ disk' = [disk EXCEPT ![h].cache[k] = made + 1, ![h].outbox = @ \cup {<<k, made + 1>>}]
      /\ dirty' = [dirty EXCEPT ![h] = @ \cup {k}]
      /\ deletes => Happens("deletion")
      /\ UNCHANGED <<remote, backup, up, versions, batch, request, reported, knows>>
  BY DEF Change
<1>2. made + 1 \in Values
  <2>1. plan.changes \in 0..MaxValues
    BY PlanAssumption DEF TypeOK
  <2> QED BY <1>1, <2>1, BoundAssumption DEF TypeOK, Values
<1>3. \A g \in Hosts, i \in Keys :
          /\ Cache(g, i)' = IF g = h /\ i = k THEN made + 1 ELSE Cache(g, i)
          /\ Mirrored(g, i)' = Mirrored(g, i)
  BY <1>1, StateTypes DEF Cache, Mirrored, Disks
<1>4. \A g \in Hosts : Outbox(g)' = IF g = h THEN Outbox(g) \cup {<<k, made + 1>>} ELSE Outbox(g)
  BY <1>1, StateTypes DEF Outbox, Disks
<1>5. \A g \in Hosts : dirty'[g] = IF g = h THEN dirty[g] \cup {k} ELSE dirty[g]
  BY <1>1 DEF TypeOK
<1>6. deletes => count'["deletion"] > 0
  BY <1>1, HappensType DEF Mishaps
<1> QED BY <1>1, <1>2, <1>3, <1>4, <1>5, <1>6 DEF Changed

\* a report sent,
Sent(h, r) ==
    /\ h \in up /\ r \in Outbox(h) /\ Pending(h) = {}
    /\ \A g \in Hosts, i \in Keys :
           Cache(g, i)' = Cache(g, i) /\ Mirrored(g, i)' = Mirrored(g, i)
    /\ \A g \in Hosts :
           /\ Outbox(g)' = IF g = h THEN Outbox(g) \ {r} ELSE Outbox(g)
           /\ knows'[g] = IF g = h THEN knows[g] \cup {r} ELSE knows[g]
    /\ reported' = reported \cup {r}
    /\ UNCHANGED <<remote, backup, up, versions, dirty, batch, request, made, past, gone>>

LEMMA SendEffect ==
    ASSUME TypeOK, NEW h \in Hosts, NEW r \in Keys \X Values, SendReport(h, r)
    PROVE  Sent(h, r)
<1>1. /\ h \in up /\ r \in disk[h].outbox /\ Pending(h) = {}
      /\ disk' = [disk EXCEPT ![h].outbox = @ \ {r}]
      /\ reported' = reported \cup {r}
      /\ knows' = [knows EXCEPT ![h] = @ \cup {r}]
      /\ UNCHANGED <<remote, backup, up, versions, dirty, batch, request, made, past, gone>>
  BY DEF SendReport, Flushed, memory, history
<1>2. \A g \in Hosts, i \in Keys :
          Cache(g, i)' = Cache(g, i) /\ Mirrored(g, i)' = Mirrored(g, i)
  BY <1>1, StateTypes DEF Cache, Mirrored, Disks
<1>3. \A g \in Hosts : /\ Outbox(g)' = IF g = h THEN Outbox(g) \ {r} ELSE Outbox(g)
                       /\ knows'[g] = IF g = h THEN knows[g] \cup {r} ELSE knows[g]
  BY <1>1, StateTypes DEF Outbox, Disks, TypeOK
<1> QED BY <1>1, <1>2, <1>3 DEF Sent, Outbox

\* a pass begun, a write applied, one that was nothing to do, a pass given up,
Begun(h) ==
    /\ h \in up /\ batch[h] = {} /\ request[h] = NoRequest
    /\ remote'.rec = remote.rec /\ remote'.reaped = remote.reaped
    /\ remote'.counter = remote.counter + 1
    /\ \A g \in Hosts : /\ batch'[g] = IF g = h THEN dirty[g] ELSE batch[g]
                        /\ dirty'[g] = IF g = h THEN {} ELSE dirty[g]
    /\ UNCHANGED <<backup, disk, up, versions, request, made, past, gone, reported, knows>>

LEMMA PassEffect ==
    ASSUME TypeOK, NEW h \in Hosts, StartPass(h)
    PROVE  Begun(h)
  BY DEF Begun, StartPass, TypeOK, Remotes, history

Written(h, k) ==
    /\ h \in up /\ k \in batch[h] /\ request[h] = NoRequest
    /\ Live(Cache(h, k)) \/ LiveVersion(k) # 0
    /\ Accepts(h, k)
    /\ remote'.counter = remote.counter + 1
    /\ remote'.reaped = remote.reaped \ {k}
    /\ \A i \in Keys :
           /\ remote'.rec[i].value = IF i = k THEN Cache(h, k) ELSE remote.rec[i].value
           /\ remote'.rec[i].version =
                  IF i = k THEN remote.counter + 1 ELSE remote.rec[i].version
    /\ request'[h] # NoRequest
    /\ request'[h] = [key |-> k, version |-> remote.counter + 1,
                      live |-> Live(Cache(h, k))]
    /\ \A g \in Hosts \ {h} : request'[g] = request[g]
    /\ UNCHANGED <<backup, disk, up, versions, dirty, batch, made, past, gone, reported,
                   knows>>

LEMMA WriteEffect ==
    ASSUME TypeOK, NEW h \in Hosts, NEW k \in Keys, Write(h, k)
    PROVE  Written(h, k)
<1> DEFINE n == remote.counter + 1
           x == [version |-> n, value |-> Cache(h, k)]
           q == [key |-> k, version |-> n, live |-> Live(Cache(h, k))]
<1>1. /\ h \in up /\ k \in batch[h] /\ request[h] = NoRequest
      /\ Live(Cache(h, k)) \/ LiveVersion(k) # 0
      /\ Accepts(h, k)
      /\ remote' = [remote EXCEPT !.counter = n, !.rec[k] = x, !.reaped = @ \ {k}]
      /\ request' = [request EXCEPT ![h] = q]
      /\ UNCHANGED <<backup, disk, up, versions, dirty, batch, made, past, gone, reported, knows>>
  BY DEF Write, history
<1>2. /\ remote'.counter = n /\ remote'.reaped = remote.reaped \ {k}
      /\ remote'.rec = [remote.rec EXCEPT ![k] = x]
  BY <1>1 DEF TypeOK, Remotes
<1>3. \A i \in Keys :
          /\ remote'.rec[i].value = IF i = k THEN Cache(h, k) ELSE remote.rec[i].value
          /\ remote'.rec[i].version = IF i = k THEN n ELSE remote.rec[i].version
  <2>1. remote.rec \in [Keys -> [version : Nat, value : 0..MaxValues]]
    BY DEF TypeOK, Remotes
  <2> QED BY <1>2, <2>1
<1>4. request'[h] = q /\ \A g \in Hosts \ {h} : request'[g] = request[g]
  BY <1>1 DEF TypeOK
<1>5. request'[h] # NoRequest
  BY <1>4, StateTypes DEF NoRequest
<1> QED BY <1>1, <1>2, <1>3, <1>4, <1>5 DEF Written

Skipped(h, k) ==
    /\ h \in up /\ k \in batch[h] /\ request[h] = NoRequest
    /\ \/ ~Live(Cache(h, k)) /\ LiveVersion(k) = 0
       \/ /\ k \in Big /\ UNCHANGED versions
          /\ \A g \in Hosts, i \in Keys : Mirrored(g, i)' = Mirrored(g, i)
    /\ \A g \in Hosts, i \in Keys :
           \/ versions'[g][i] = versions[g][i] /\ Mirrored(g, i)' = Mirrored(g, i)
           \/ g = h /\ i = k /\ versions'[g][i] = 0 /\ Mirrored(g, i)' = 0
    /\ \A g \in Hosts, i \in Keys : Cache(g, i)' = Cache(g, i)
    /\ \A g \in Hosts : /\ Outbox(g)' = Outbox(g)
                        /\ batch'[g] = IF g = h THEN batch[g] \ {k} ELSE batch[g]
    /\ UNCHANGED <<remote, backup, up, dirty, request, made, past, gone, reported, knows>>

LEMMA SkipEffect ==
    ASSUME TypeOK, NEW h \in Hosts, NEW k \in Keys, Skip(h, k)
    PROVE  Skipped(h, k)
<1>1. /\ h \in up /\ k \in batch[h] /\ request[h] = NoRequest
      /\ batch' = [batch EXCEPT ![h] = @ \ {k}]
      /\ UNCHANGED <<remote, backup, up, dirty, request, made, past, gone, reported, knows>>
  BY DEF Skip, Done, history
<1>2. \A g \in Hosts : batch'[g] = IF g = h THEN batch[g] \ {k} ELSE batch[g]
  BY <1>1 DEF TypeOK
<1>3. CASE /\ ~Live(Cache(h, k)) /\ LiveVersion(k) = 0
           /\ versions' = [versions EXCEPT ![h][k] = 0]
           /\ disk' = [disk EXCEPT ![h].mirrored[k] = 0]
  <2>1. \A g \in Hosts, i \in Keys :
            /\ Mirrored(g, i)' = IF g = h /\ i = k THEN 0 ELSE Mirrored(g, i)
            /\ Cache(g, i)' = Cache(g, i)
    BY <1>3, StateTypes DEF Cache, Mirrored, Disks
  <2>2. \A g \in Hosts : Outbox(g)' = Outbox(g)
    BY <1>3, StateTypes DEF Outbox, Disks
  <2>3. \A g \in Hosts, i \in Keys :
            versions'[g][i] = IF g = h /\ i = k THEN 0 ELSE versions[g][i]
    BY <1>3 DEF TypeOK
  <2> QED BY <1>1, <1>2, <1>3, <2>1, <2>2, <2>3 DEF Skipped
<1>4. CASE k \in Big /\ UNCHANGED <<versions, disk>>
  BY <1>1, <1>2, <1>4 DEF Skipped, Cache, Mirrored, Outbox
<1> QED BY <1>3, <1>4 DEF Skip

GivenUp(h) ==
    /\ h \in up
    /\ \A g \in Hosts :
           /\ dirty'[g] = IF g = h THEN Pending(g) ELSE dirty[g]
           /\ batch'[g] = IF g = h THEN {} ELSE batch[g]
           /\ request'[g] = IF g = h THEN NoRequest ELSE request[g]
    /\ UNCHANGED <<remote, backup, disk, up, versions, made, past, gone, reported, knows>>

LEMMA GiveUpEffect ==
    ASSUME TypeOK, NEW h \in Hosts,
           (\E k \in Keys : Conflict(h, k)) \/ RequestFails(h) \/ AnswerLost(h)
    PROVE  GivenUp(h)
<1>1. /\ h \in up /\ PutBack(h)
      /\ UNCHANGED <<remote, backup, disk, up, versions, made, past, gone, reported, knows>>
  BY DEF Conflict, RequestFails, AnswerLost, history
<1> QED BY <1>1 DEF GivenUp, PutBack, TypeOK

\* an answer,
Answer(h) == IF request[h].live THEN request[h].version ELSE 0

Learned(h) ==
    /\ h \in up /\ request[h] # NoRequest
    /\ request[h].key \in Keys /\ request[h].key \in batch[h]
    /\ request[h].version \in Nat /\ Answer(h) \in Nat
    /\ \A g \in Hosts, i \in Keys :
           /\ Cache(g, i)' = Cache(g, i)
           /\ Mirrored(g, i)' = IF g = h /\ i = request[h].key THEN Answer(h) ELSE Mirrored(g, i)
           /\ versions'[g][i] = IF g = h /\ i = request[h].key THEN Answer(h) ELSE versions[g][i]
    /\ \A g \in Hosts :
           /\ Outbox(g)' = Outbox(g)
           /\ batch'[g] = IF g = h THEN batch[g] \ {request[h].key} ELSE batch[g]
           /\ request'[g] = IF g = h THEN NoRequest ELSE request[g]
    /\ UNCHANGED <<remote, backup, up, dirty, made, past, gone, reported, knows>>

LEMMA AnsweredEffect ==
    ASSUME TypeOK, NEW h \in Hosts, Answered(h)
    PROVE  Learned(h)
<1> DEFINE q == request[h].key
           n == Answer(h)
<1>1. /\ h \in up /\ request[h] # NoRequest
      /\ versions' = [versions EXCEPT ![h][q] = n]
      /\ disk' = [disk EXCEPT ![h].mirrored[q] = n]
      /\ batch' = [batch EXCEPT ![h] = @ \ {q}]
      /\ request' = [request EXCEPT ![h] = NoRequest]
      /\ UNCHANGED <<remote, backup, up, dirty, made, past, gone, reported, knows>>
  BY DEF Answered, Answer, Done, history
<1>2. q \in Keys /\ q \in batch[h] /\ request[h].version \in Nat /\ n \in Nat
  BY <1>1 DEF TypeOK, Answer
<1>3. \A g \in Hosts, i \in Keys :
          /\ Cache(g, i)' = Cache(g, i)
          /\ Mirrored(g, i)' = IF g = h /\ i = q THEN n ELSE Mirrored(g, i)
  BY <1>1, <1>2, StateTypes DEF Cache, Mirrored, Disks
<1>4. \A g \in Hosts : Outbox(g)' = Outbox(g)
  BY <1>1, StateTypes DEF Outbox, Disks
<1>5. \A g \in Hosts, i \in Keys : versions'[g][i] = IF g = h /\ i = q THEN n ELSE versions[g][i]
  BY <1>1, <1>2 DEF TypeOK
<1>6. \A g \in Hosts : /\ batch'[g] = IF g = h THEN batch[g] \ {q} ELSE batch[g]
                       /\ request'[g] = IF g = h THEN NoRequest ELSE request[g]
  BY <1>1 DEF TypeOK
<1> QED BY <1>1, <1>2, <1>3, <1>4, <1>5, <1>6 DEF Learned

\* the pull,
Started(h) ==
    /\ h \in plan.hosts /\ h \notin up /\ ~RolledBack(h) /\ up' = up \cup {h}
    /\ \A g \in Hosts, i \in Keys :
           /\ Cache(g, i)' = IF g = h THEN Pulled(h, i) ELSE Cache(g, i)
           /\ Mirrored(g, i)' = IF g = h THEN LiveVersion(i) ELSE Mirrored(g, i)
           /\ versions'[g][i] = IF g = h THEN LiveVersion(i) ELSE versions[g][i]
    /\ \A g \in Hosts : /\ Outbox(g)' = Outbox(g)
                        /\ dirty'[g] = IF g = h THEN Unmirrored(h) ELSE dirty[g]
    /\ UNCHANGED <<remote, backup, batch, request, made, past, gone, reported, knows>>

LEMMA StartEffect ==
    ASSUME TypeOK, NEW h \in Hosts, Start(h)
    PROVE  Started(h)
<1>1. /\ h \in plan.hosts /\ h \notin up /\ ~RolledBack(h) /\ up' = up \cup {h}
      /\ disk' = [disk EXCEPT ![h].cache = [k \in Keys |-> Pulled(h, k)],
                              ![h].mirrored = [k \in Keys |-> LiveVersion(k)]]
      /\ versions' = [versions EXCEPT ![h] = [k \in Keys |-> LiveVersion(k)]]
      /\ dirty' = [dirty EXCEPT ![h] = Unmirrored(h)]
      /\ UNCHANGED <<remote, backup, batch, request, made, past, gone, reported, knows>>
  BY DEF Start, history
<1>2. \A g \in Hosts, i \in Keys :
          /\ Cache(g, i)' = IF g = h THEN Pulled(h, i) ELSE Cache(g, i)
          /\ Mirrored(g, i)' = IF g = h THEN LiveVersion(i) ELSE Mirrored(g, i)
  BY <1>1, StateTypes DEF Cache, Mirrored, Disks
<1>3. \A g \in Hosts : Outbox(g)' = Outbox(g)
  BY <1>1, StateTypes DEF Outbox, Disks
<1>4. \A g \in Hosts, i \in Keys :
          versions'[g][i] = IF g = h THEN LiveVersion(i) ELSE versions[g][i]
  BY <1>1 DEF TypeOK
<1>5. \A g \in Hosts : dirty'[g] = IF g = h THEN Unmirrored(h) ELSE dirty[g]
  BY <1>1 DEF TypeOK
<1> QED BY <1>1, <1>2, <1>3, <1>4, <1>5 DEF Started

\* a process that ends, a directory lost,
Ended(h) ==
    /\ up' = up \ {h}
    /\ count'["crash"] = 0 => Pending(h) = {}
    /\ \A g \in Hosts :
           /\ dirty'[g] = IF g = h THEN {} ELSE dirty[g]
           /\ batch'[g] = IF g = h THEN {} ELSE batch[g]
           /\ request'[g] = IF g = h THEN NoRequest ELSE request[g]
           /\ g # h => versions'[g] = versions[g]
    /\ UNCHANGED <<remote, backup, disk, made, past, gone, reported, knows>>

LEMMA StopEffect ==
    ASSUME TypeOK, NEW h \in Hosts, Stop(h)
    PROVE  Ended(h)
<1>1. /\ Forget(h) /\ UNCHANGED <<remote, backup, disk, made, past, gone, reported, knows>>
      /\ Happens(IF Pending(h) = {} THEN "stop" ELSE "crash")
  BY DEF Stop, history
<1>2. count'["crash"] = 0 => Pending(h) = {}
  BY <1>1, HappensType DEF Mishaps
<1> QED BY <1>1, <1>2 DEF Ended, Forget, TypeOK

Emptied(h) ==
    /\ up' = up \ {h}
    /\ \A g \in Hosts, i \in Keys :
           /\ Cache(g, i)' = IF g = h THEN NoValue ELSE Cache(g, i)
           /\ Mirrored(g, i)' = IF g = h THEN 0 ELSE Mirrored(g, i)
    /\ \A g \in Hosts :
           /\ Outbox(g)' = IF g = h THEN {} ELSE Outbox(g)
           /\ knows'[g] = IF g = h THEN {} ELSE knows[g]
           /\ dirty'[g] = IF g = h THEN {} ELSE dirty[g]
           /\ batch'[g] = IF g = h THEN {} ELSE batch[g]
           /\ request'[g] = IF g = h THEN NoRequest ELSE request[g]
           /\ g # h => versions'[g] = versions[g]
    /\ UNCHANGED <<remote, backup, made, past, gone, reported>>

LEMMA LossEffect ==
    ASSUME TypeOK, NEW h \in Hosts, LoseHost(h)
    PROVE  Emptied(h)
<1>1. /\ Forget(h) /\ UNCHANGED <<remote, backup, made, past, gone, reported>>
      /\ disk' = [disk EXCEPT ![h] = Empty] /\ knows' = [knows EXCEPT ![h] = {}]
  BY DEF LoseHost, history
<1>2. \A g \in Hosts, i \in Keys :
          /\ Cache(g, i)' = IF g = h THEN NoValue ELSE Cache(g, i)
          /\ Mirrored(g, i)' = IF g = h THEN 0 ELSE Mirrored(g, i)
  BY <1>1, StateTypes DEF Cache, Mirrored, Empty
<1>3. \A g \in Hosts : /\ Outbox(g)' = IF g = h THEN {} ELSE Outbox(g)
                       /\ knows'[g] = IF g = h THEN {} ELSE knows[g]
  BY <1>1, StateTypes DEF Outbox, Empty, TypeOK
<1> QED BY <1>1, <1>2, <1>3 DEF Emptied, Forget, TypeOK

\* and the VTA's own operations.
Reaped ==
    /\ remote'.rec = remote.rec /\ remote'.counter = remote.counter
    /\ remote'.reaped = {k \in Keys : remote.rec[k].value \in gone}
    /\ UNCHANGED <<backup, disk, up, versions, dirty, batch, request, made, past, gone,
                   reported, knows>>

LEMMA ReapEffect ==
    ASSUME TypeOK, Reap
    PROVE  Reaped
  BY DEF Reaped, Reap, TypeOK, Remotes, memory, history

WentBack ==
    /\ remote' = backup /\ count'["restore"] > 0
    /\ UNCHANGED <<backup, disk, up, versions, dirty, batch, request, made, past, gone,
                   reported, knows>>

LEMMA RollbackEffect ==
    ASSUME TypeOK, Rollback
    PROVE  WentBack
  BY HappensType DEF WentBack, Rollback, Mishaps, memory, history

Quiet ==
    /\ backup' = backup \/ backup' = remote
    /\ UNCHANGED <<remote, disk, up, versions, dirty, batch, request, made, past, gone,
                   reported, knows>>

LEMMA QuietEffect ==
    ASSUME LeaseExpires \/ TakeBackup \/ UNCHANGED vars
    PROVE  Quiet
  BY DEF Quiet, LeaseExpires, TakeBackup, vars, memory, history

\* A step is one of these.
LEMMA Effects ==
    ASSUME TypeOK, [Next]_vars
    PROVE  \/ \E h \in Hosts :
                  \/ \E k \in Keys, deletes \in BOOLEAN : Changed(h, k, deletes)
                  \/ \E r \in Keys \X Values : Sent(h, r)
                  \/ Begun(h)
                  \/ \E k \in Keys : Written(h, k) \/ Skipped(h, k)
                  \/ GivenUp(h) \/ Learned(h) \/ Started(h) \/ Ended(h) \/ Emptied(h)
           \/ Reaped \/ WentBack \/ Quiet
<1>1. CASE \E h \in Hosts : Local(h) \/ Pass(h)
  BY <1>1, ChangeEffect, SendEffect, PassEffect, WriteEffect, SkipEffect, GiveUpEffect,
     AnsweredEffect DEF Local, Pass
<1>2. CASE \E h \in Hosts : \/ RequestFails(h) \/ AnswerLost(h)
                            \/ Start(h) \/ Stop(h) \/ LoseHost(h)
  BY <1>2, GiveUpEffect, StartEffect, StopEffect, LossEffect
<1>3. CASE Reap \/ Rollback \/ LeaseExpires \/ TakeBackup \/ UNCHANGED vars
  BY <1>3, ReapEffect, RollbackEffect, QuietEffect
<1> QED BY <1>1, <1>2, <1>3 DEF Next

\* What happened has happened, and the plan stays.
LEMMA NeverBefore ==
    ASSUME TypeOK, [Next]_vars, NEW ms \in SUBSET Mishaps, Never(ms)'
    PROVE  Never(ms)
  BY CountStep DEF Never

LEMMA AloneBefore == ASSUME TypeOK, [Next]_vars PROVE plan' = plan /\ (Alone' <=> Alone)
  BY CountStep DEF Alone

\* Every step keeps the pasts nested: a new value is in no older one's past.
LEMMA PastsStep == TypeOK /\ AllMade /\ Pasts /\ [Next]_vars => Pasts'
<1> SUFFICES ASSUME TypeOK, AllMade, Pasts, [Next]_vars PROVE Pasts'
  OBVIOUS
<1>0. Never({"deletion"})' => gone = {}
  BY NeverBefore DEF Pasts, Mishaps
<1>1. ASSUME NEW h \in Hosts, NEW k \in Keys, NEW deletes \in BOOLEAN,
             Changed(h, k, deletes)
      PROVE  Pasts'
  <2> DEFINE m == made + 1
             c == Cache(h, k)
  <2>1. /\ m \in Values /\ made \in Nat /\ made' = m
        /\ past' = [past EXCEPT ![m] = Past(c) \cup {m}]
        /\ gone' = IF deletes THEN gone \cup {m} ELSE gone
        /\ deletes => count'["deletion"] > 0
        /\ UNCHANGED <<reported, knows>>
    BY <1>1, StateTypes DEF Changed
  <2>2. past \in [Values -> SUBSET Values] /\ Values \subseteq Nat
    BY DEF TypeOK, Values
  <2>3. c \in 0..MaxValues /\ c <= made
    BY StateTypes DEF AllMade, Cache, Disks
  <2>4. \A w \in Past(c) : w \in Values /\ w <= made /\ past[w] \subseteq Past(c)
    <3>1. CASE c = NoValue
      BY <3>1 DEF Past
    <3>2. CASE c # NoValue
      <4>1. c \in Values /\ Past(c) = past[c]
        BY <2>3, <3>2, BoundAssumption DEF Values, NoValue, Past
      <4>2. \A w \in past[c] : w \in Values /\ w <= c /\ past[w] \subseteq past[c]
        BY <2>2, <4>1 DEF Pasts
      <4>3. c \in Nat /\ made \in Nat /\ c <= made
        BY <2>1, <2>2, <2>3, <4>1
      <4>4. ASSUME NEW w \in past[c] PROVE w <= made
        <5>1. w \in Nat /\ w <= c
          BY <2>2, <4>2
        <5> HIDE DEF c
        <5> QED BY <4>3, <5>1
      <4> HIDE DEF c
      <4> QED BY <4>1, <4>2, <4>4
    <3> QED BY <3>1, <3>2
  <2>5. ASSUME NEW v \in Values
        PROVE  /\ v <= made' => v \in past'[v]
               /\ v > made' => past'[v] = {}
               /\ \A w \in past'[v] : w <= v /\ past'[w] \subseteq past'[v]
    <3>1. CASE v = m
      <4>1. past'[v] = Past(c) \cup {m}
        BY <2>1, <2>2, <3>1
      <4>2. \A w \in Past(c) : past'[w] = past[w]
        BY <2>1, <2>2, <2>4
      <4>3. ASSUME NEW w \in Past(c) PROVE w <= v
        <5>1. w \in Nat /\ made \in Nat /\ w <= made /\ v = made + 1
          BY <2>1, <2>2, <2>4, <3>1
        <5> QED BY <5>1
      <4> HIDE DEF m, c
      <4> QED BY <2>1, <2>2, <2>4, <3>1, <4>1, <4>2, <4>3
    <3>2. CASE v # m
      <4>1. past'[v] = past[v]
        BY <2>1, <2>2, <3>2
      <4>2. \A w \in past[v] : w \in Values /\ w <= v /\ w <= made
        BY <2>1, <2>2 DEF Pasts
      <4>3. \A w \in past[v] : past'[w] = past[w]
        BY <2>1, <2>2, <4>2
      <4> QED BY <2>1, <2>2, <3>2, <4>1, <4>2, <4>3 DEF Pasts
    <3> QED BY <3>1, <3>2
  <2>6. \A g \in Hosts : \A r \in Outbox(g)' : r[2] <= made'
    <3>1. \A g \in Hosts : Outbox(g)' = IF g = h THEN Outbox(g) \cup {<<k, m>>} ELSE Outbox(g)
      BY <1>1 DEF Changed
    <3>2. \A g \in Hosts : Outbox(g) \subseteq Keys \X Values
      BY StateTypes DEF Outbox, Disks, Pairs
    <3>3. \A g \in Hosts : \A r \in Outbox(g) : r[2] \in Nat /\ r[2] <= made
      <4>1. \A g \in Hosts : \A r \in Outbox(g) : r[2] <= made
        BY DEF Pasts
      <4>2. \A g \in Hosts : \A r \in Outbox(g) : r[2] \in Nat
        BY <2>2, <3>2
      <4> QED BY <4>1, <4>2
    <3>4. <<k, m>>[2] = m
      OBVIOUS
    <3>5. \A g \in Hosts : \A r \in Outbox(g) : r[2] <= m
      BY <2>1, <3>3
    <3>6. m <= m
      BY <2>1
    <3>7. made' = m
      BY <2>1
    <3> HIDE DEF m
    <3> QED BY <3>1, <3>4, <3>5, <3>6, <3>7
  <2>7. (\A d \in gone' : d <= made') /\ \A r \in reported' : r[2] <= made'
    <3>1. \A r \in reported : r[2] \in Nat
      BY <2>2 DEF TypeOK, Pairs
    <3>2. \A d \in gone : d \in Nat
      BY <2>2 DEF TypeOK
    <3> QED BY <2>1, <3>1, <3>2 DEF Pasts
  <2>8. Never({"deletion"})' => gone' = {}
    BY <1>0, <2>1 DEF Never
  <2>9. \A g \in Hosts : knows'[g] \subseteq reported'
    BY <2>1 DEF Pasts
  <2> QED BY <2>5, <2>6, <2>7, <2>8, <2>9 DEF Pasts
<1>2. ASSUME NEW h \in Hosts, NEW r \in Keys \X Values, Sent(h, r)
      PROVE  Pasts'
  <2>1. /\ r \in Outbox(h) /\ UNCHANGED <<made, past, gone>>
        /\ reported' = reported \cup {r}
        /\ \A g \in Hosts : /\ Outbox(g)' = IF g = h THEN Outbox(g) \ {r} ELSE Outbox(g)
                            /\ knows'[g] = IF g = h THEN knows[g] \cup {r} ELSE knows[g]
    BY <1>2 DEF Sent
  <2>2. r[2] <= made
    BY <2>1 DEF Pasts
  <2>3. \A g \in Hosts : Outbox(g)' \subseteq Outbox(g)
    BY <2>1
  <2>5. \A g \in Hosts : knows'[g] \subseteq reported'
    <3>1. \A g \in Hosts : knows[g] \subseteq reported
      BY DEF Pasts
    <3>2. \A g \in Hosts : knows'[g] \subseteq knows[g] \cup {r}
      BY <2>1
    <3> QED BY <2>1, <3>1, <3>2
  <2>4. \A q \in reported' : q[2] <= made
    BY <2>1, <2>2 DEF Pasts
  <2> QED BY <1>0, <2>1, <2>3, <2>4, <2>5 DEF Pasts
<1>3. ASSUME UNCHANGED <<made, past, gone, reported>>,
             \A g \in Hosts : Outbox(g)' \subseteq Outbox(g) /\ knows'[g] \subseteq knows[g]
      PROVE  Pasts'
  BY <1>0, <1>3 DEF Pasts
<1>4. ASSUME NEW h \in Hosts,
             \/ Begun(h) \/ \E k \in Keys : Written(h, k) \/ Skipped(h, k)
             \/ GivenUp(h) \/ Learned(h) \/ Started(h) \/ Ended(h) \/ Emptied(h)
      PROVE  Pasts'
  BY <1>3, <1>4
     DEF Begun, Written, Skipped, GivenUp, Learned, Started, Ended, Emptied, Outbox
<1>5. CASE Reaped \/ WentBack \/ Quiet
  BY <1>3, <1>5 DEF Reaped, WentBack, Quiet, Outbox
<1> QED BY <1>1, <1>2, <1>4, <1>5, Effects

\* The VTA's copies stay sound: a write takes the next version, and only
\* deletions are reaped.
LEMMA CopiesStep == TypeOK /\ Copies /\ [Next]_vars => Copies'
<1> SUFFICES ASSUME TypeOK, Copies, [Next]_vars PROVE Copies'
  OBVIOUS
<1>1. ASSUME remote'.rec = remote.rec, remote'.reaped = remote.reaped,
             remote'.counter \in Nat, remote'.counter >= remote.counter, UNCHANGED backup,
             \A d \in gone : d \in gone'
      PROVE  Copies'
  BY <1>1, StateTypes DEF Copies, Sound, Val, Ver
<1>2. ASSUME NEW h \in Hosts,
             \/ \E k \in Keys, deletes \in BOOLEAN : Changed(h, k, deletes)
             \/ \E r \in Keys \X Values : Sent(h, r)
             \/ \E k \in Keys : Skipped(h, k)
             \/ Begun(h) \/ GivenUp(h) \/ Learned(h) \/ Started(h) \/ Ended(h) \/ Emptied(h)
      PROVE  Copies'
  <2>1. CASE Begun(h)
    BY <1>1, <2>1, StateTypes DEF Begun
  <2>2. CASE UNCHANGED <<remote, backup>> /\ \A d \in gone : d \in gone'
    BY <1>1, <2>2, StateTypes
  <2>3. CASE \/ \E k \in Keys, deletes \in BOOLEAN : Changed(h, k, deletes)
             \/ \E r \in Keys \X Values : Sent(h, r)
             \/ \E k \in Keys : Skipped(h, k)
    BY <2>2, <2>3 DEF Changed, Sent, Skipped
  <2>4. CASE GivenUp(h) \/ Learned(h) \/ Started(h) \/ Ended(h) \/ Emptied(h)
    BY <2>2, <2>4 DEF GivenUp, Learned, Started, Ended, Emptied
  <2> QED BY <1>2, <2>1, <2>3, <2>4
<1>3. ASSUME NEW h \in Hosts, NEW k \in Keys, Written(h, k) PROVE Copies'
  <2>1. /\ remote'.counter = remote.counter + 1 /\ remote'.reaped = remote.reaped \ {k}
        /\ UNCHANGED <<backup, gone>>
        /\ \A i \in Keys :
               /\ i # k => remote'.rec[i].value = remote.rec[i].value
               /\ remote'.rec[i].version = IF i = k THEN remote.counter + 1
                                                    ELSE remote.rec[i].version
    BY <1>3 DEF Written
  <2>2. /\ remote.counter \in Nat /\ backup.counter \in Nat
        /\ \A i \in Keys : remote.rec[i].version \in Nat
    BY StateTypes DEF Ver
  <2>3. ASSUME NEW i \in Keys
        PROVE  /\ remote'.rec[i].version <= remote'.counter
               /\ remote'.rec[i].value # NoValue => remote'.rec[i].version > 0
               /\ i \in remote'.reaped => remote'.rec[i].value \in gone'
    <3>1. CASE i = k
      BY <2>1, <2>2, <3>1
    <3>2. CASE i # k
      <4>1. /\ remote.rec[i].version <= remote.counter
            /\ remote.rec[i].value # NoValue => remote.rec[i].version > 0
            /\ i \in remote.reaped => remote.rec[i].value \in gone
        BY DEF Copies, Sound
      <4> QED BY <2>1, <2>2, <3>2, <4>1
    <3> QED BY <3>1, <3>2
  <2>4. Sound(remote)'
    BY <2>3 DEF Sound
  <2>5. Sound(backup)' /\ backup'.counter <= remote'.counter
    BY <2>1, <2>2 DEF Copies, Sound
  <2> QED BY <2>4, <2>5 DEF Copies
<1>4. CASE Reaped
  BY <1>4 DEF Reaped, Copies, Sound
<1>5. CASE WentBack
  BY <1>5, StateTypes DEF WentBack, Copies, Sound
<1>6. CASE Quiet
  BY <1>6, StateTypes DEF Quiet, Copies, Sound
<1> QED BY <1>2, <1>3, <1>4, <1>5, <1>6, Effects

\* The books are kept: what is marked has a value, and versions are remembered
\* in memory and on disk together.
LEMMA BooksStep == TypeOK /\ AllMade /\ Pasts /\ Books /\ [Next]_vars => Books'
<1> SUFFICES ASSUME TypeOK, AllMade, Pasts, Books, [Next]_vars PROVE Books'
  OBVIOUS
<1> DEFINE One(h, k) == /\ h \notin up => k \notin Pending(h)
                        /\ k \in Pending(h) => Cache(h, k) # NoValue
                        /\ h \in up => versions[h][k] = Mirrored(h, k)
           Ask(h) == request[h] # NoRequest => /\ request[h].version > 0
                                               /\ Never({"deletion"}) => request[h].live
<1>0. /\ \A h \in Hosts, k \in Keys : One(h, k)
      /\ \A h \in Hosts : Ask(h)
      /\ Never({"deletion"})' => Never({"deletion"}) /\ gone = {}
  BY NeverBefore DEF Books, Pasts, Mishaps
<1>1. ASSUME NEW g \in Hosts, request'[g] = request[g] \/ request'[g] = NoRequest
      PROVE  Ask(g)'
  BY <1>0, <1>1
<1>2. ASSUME NEW g \in Hosts, NEW i \in Keys,
             g \in up' <=> g \in up, i \in Pending(g)' => i \in Pending(g),
             Cache(g, i)' = Cache(g, i),
             \/ versions'[g][i] = versions[g][i] /\ Mirrored(g, i)' = Mirrored(g, i)
             \/ versions'[g][i] = Mirrored(g, i)'
      PROVE  One(g, i)'
  BY <1>0, <1>2
<1>3. (\A h \in Hosts, k \in Keys : One(h, k)') /\ (\A h \in Hosts : Ask(h)') => Books'
  BY DEF Books
<1> HIDE DEF One, Ask
<1>4. ASSUME NEW h \in Hosts, NEW k \in Keys, NEW deletes \in BOOLEAN, Changed(h, k, deletes)
      PROVE  Books'
  <2>1. \A g \in Hosts : Ask(g)'
    BY <1>1, <1>4 DEF Changed
  <2>2. ASSUME NEW g \in Hosts, NEW i \in Keys, g # h \/ i # k PROVE One(g, i)'
    BY <1>2, <1>4, <2>2 DEF Changed, Pending
  <2>3. One(h, k)'
    BY <1>0, <1>4, StateTypes DEF Changed, One, NoValue
  <2> QED BY <1>3, <2>1, <2>2, <2>3
<1>5. ASSUME NEW h \in Hosts, NEW r \in Keys \X Values, Sent(h, r) PROVE Books'
  BY <1>1, <1>2, <1>3, <1>5 DEF Sent, Pending
<1>6. ASSUME NEW h \in Hosts, Begun(h) PROVE Books'
  BY <1>1, <1>2, <1>3, <1>6 DEF Begun, Pending, Cache, Mirrored
<1>7. ASSUME NEW h \in Hosts, NEW k \in Keys, Written(h, k) PROVE Books'
  <2>1. /\ h \in up /\ k \in batch[h]
        /\ UNCHANGED <<disk, up, versions, dirty, batch, gone>>
        /\ request'[h].version = remote.counter + 1 /\ request'[h].live = Live(Cache(h, k))
        /\ \A g \in Hosts \ {h} : request'[g] = request[g]
    BY <1>7 DEF Written
  <2>2. Ask(h)'
    <3>1. Cache(h, k) # NoValue
      BY <1>0, <2>1 DEF One, Pending
    <3>2. request'[h].version > 0
      BY <2>1, StateTypes
    <3>3. Never({"deletion"})' => request'[h].live
      BY <1>0, <2>1, <3>1 DEF Live
    <3> QED BY <3>2, <3>3 DEF Ask
  <2>3. \A g \in Hosts : Ask(g)'
    BY <1>1, <2>1, <2>2
  <2>4. \A g \in Hosts, i \in Keys : One(g, i)'
    BY <1>2, <2>1 DEF Pending, Cache, Mirrored
  <2> QED BY <1>3, <2>3, <2>4
<1>8. ASSUME NEW h \in Hosts, NEW k \in Keys, Skipped(h, k) PROVE Books'
  <2>1. \A g \in Hosts : Ask(g)'
    BY <1>1, <1>8 DEF Skipped
  <2>2. \A g \in Hosts, i \in Keys : One(g, i)'
    <3> TAKE g \in Hosts, i \in Keys
    <3>1. /\ g \in up' <=> g \in up
          /\ Cache(g, i)' = Cache(g, i)
          /\ i \in Pending(g)' => i \in Pending(g)
      BY <1>8 DEF Skipped, Pending
    <3>2. \/ versions'[g][i] = versions[g][i] /\ Mirrored(g, i)' = Mirrored(g, i)
          \/ versions'[g][i] = Mirrored(g, i)'
      BY <1>8 DEF Skipped
    <3> QED BY <1>2, <3>1, <3>2
  <2> QED BY <1>3, <2>1, <2>2
<1>9. ASSUME NEW h \in Hosts, GivenUp(h) PROVE Books'
  BY <1>1, <1>2, <1>3, <1>9 DEF GivenUp, Pending, Cache, Mirrored
<1>10. ASSUME NEW h \in Hosts, Learned(h) PROVE Books'
  <2>1. \A g \in Hosts : Ask(g)'
    BY <1>1, <1>10 DEF Learned
  <2>2. \A g \in Hosts, i \in Keys : One(g, i)'
    <3> TAKE g \in Hosts, i \in Keys
    <3>1. /\ g \in up' <=> g \in up
          /\ Cache(g, i)' = Cache(g, i)
          /\ i \in Pending(g)' => i \in Pending(g)
      BY <1>10 DEF Learned, Pending
    <3>2. \/ versions'[g][i] = versions[g][i] /\ Mirrored(g, i)' = Mirrored(g, i)
          \/ versions'[g][i] = Mirrored(g, i)'
      BY <1>10 DEF Learned
    <3> QED BY <1>2, <3>1, <3>2
  <2> QED BY <1>3, <2>1, <2>2
<1>11. ASSUME NEW h \in Hosts, Started(h) PROVE Books'
  <2>1. \A g \in Hosts : Ask(g)'
    BY <1>1, <1>11 DEF Started
  <2>2. \A g \in Hosts \ {h}, i \in Keys : One(g, i)'
    BY <1>2, <1>11 DEF Started, Pending
  <2>3. ASSUME NEW i \in Keys PROVE One(h, i)'
    <3>1. batch'[h] = batch[h] /\ dirty'[h] = Unmirrored(h) /\ i \notin batch[h]
      BY <1>0, <1>11 DEF Started, One, Pending
    <3>2. i \in Unmirrored(h) => Pulled(h, i) # NoValue
      BY DEF Unmirrored, Pulled, Live, Mirrored
    <3>3. Cache(h, i)' = Pulled(h, i) /\ versions'[h][i] = Mirrored(h, i)' /\ h \in up'
      BY <1>11 DEF Started
    <3> QED BY <3>1, <3>2, <3>3 DEF One, Pending
  <2> QED BY <1>3, <2>1, <2>2, <2>3
<1>12. ASSUME NEW h \in Hosts, Ended(h) \/ Emptied(h) PROVE Books'
  <2>1. \A g \in Hosts : Ask(g)'
    BY <1>1, <1>12 DEF Ended, Emptied
  <2>2. \A g \in Hosts \ {h}, i \in Keys : One(g, i)'
    BY <1>2, <1>12 DEF Ended, Emptied, Pending, Cache, Mirrored
  <2>3. \A i \in Keys : One(h, i)'
    BY <1>12 DEF Ended, Emptied, One, Pending
  <2> QED BY <1>3, <2>1, <2>2, <2>3
<1>13. CASE Reaped \/ WentBack \/ Quiet
  BY <1>1, <1>2, <1>3, <1>13 DEF Reaped, WentBack, Quiet, Pending, Cache, Mirrored
<1> QED
  BY <1>4, <1>5, <1>6, <1>7, <1>8, <1>9, <1>10, <1>11, <1>12, <1>13, Effects

\* A value made is in its own past, and what is in it was made before, with a
\* past within its own.
LEMMA PastRules ==
    ASSUME TypeOK, Pasts, NEW v \in Nat, v <= made
    PROVE  /\ v # NoValue => v \in Values /\ v \in Past(v)
           /\ \A w \in Past(v) : /\ w \in Values /\ w \in Nat /\ w # NoValue
                                 /\ w <= v /\ w <= made /\ Past(w) \subseteq Past(v)
<1>1. made \in 0..MaxValues /\ MaxValues \in Nat
  BY BoundAssumption DEF TypeOK
<1>2. CASE v = NoValue
  BY <1>2 DEF Past
<1>3. CASE v # NoValue
  <2>1. v \in Values /\ Past(v) = past[v]
    BY <1>1, <1>3 DEF Values, NoValue, Past
  <2>2. v \in past[v] /\ \A w \in past[v] : w <= v /\ past[w] \subseteq past[v]
    BY <2>1 DEF Pasts
  <2>3. \A w \in past[v] : w \in Values
    BY <2>1 DEF TypeOK
  <2>4. \A w \in Values : w \in Nat /\ w # NoValue /\ Past(w) = past[w]
    BY <1>1 DEF Values, NoValue, Past
  <2>5. ASSUME NEW w \in past[v] PROVE w <= made
    <3>1. w \in Nat /\ w <= v
      BY <2>2, <2>3, <2>4
    <3> QED BY <1>1, <3>1
  <2> QED BY <2>1, <2>2, <2>3, <2>4, <2>5
<1> QED BY <1>2, <1>3

\* A deletion is a value made.
LEMMA GoneRules ==
    ASSUME TypeOK, Pasts, NEW d \in gone
    PROVE  d \in Nat /\ d # NoValue /\ d <= made /\ d \in Past(d)
<1>1. d \in Values /\ d <= made
  BY DEF TypeOK, Pasts
<1>2. d \in Nat /\ d # NoValue
  BY <1>1, BoundAssumption DEF Values, NoValue
<1> QED BY <1>1, <1>2, PastRules

\* A change leaves the past, and the fate, of the values made before alone.
LEMMA PastKept ==
    ASSUME TypeOK, Pasts, NEW h \in Hosts, NEW k \in Keys, NEW deletes \in BOOLEAN,
           Changed(h, k, deletes), NEW v \in Nat, v <= made
    PROVE  Past(v)' = Past(v) /\ (Live(v)' <=> Live(v))
<1>1. /\ made + 1 \in Values /\ made \in Nat /\ v # made + 1
      /\ past' = [past EXCEPT ![made + 1] = Past(Cache(h, k)) \cup {made + 1}]
      /\ gone' = IF deletes THEN gone \cup {made + 1} ELSE gone
  BY StateTypes DEF Changed
<1>2. Past(v)' = Past(v)
  BY <1>1 DEF Past, TypeOK
<1>3. Live(v)' <=> Live(v)
  BY <1>1 DEF Live
<1> QED BY <1>2, <1>3

\* A new value has what it was made from in its past.
LEMMA PastOfNew ==
    ASSUME TypeOK, NEW h \in Hosts, NEW k \in Keys, NEW deletes \in BOOLEAN,
           Changed(h, k, deletes), NEW m, m = made + 1
    PROVE  Past(m)' = Past(Cache(h, k)) \cup {m}
<1>1. /\ made + 1 \in Values /\ made \in Nat /\ made' = made + 1
      /\ past' = [past EXCEPT ![made + 1] = Past(Cache(h, k)) \cup {made + 1}]
  BY StateTypes DEF Changed
<1> QED BY <1>1 DEF Past, TypeOK, NoValue

\* What stands, stands where a live value was built upon;
LEMMA StandsBuilt ==
    ASSUME TypeOK, Pasts, NEW c \in Nat, c <= made, NEW x \in Past(c), Live(x),
           NEW v, Stands(v, x)
    PROVE  Stands(v, c)
<1>1. Past(x) \subseteq Past(c)
  BY PastRules
<1>2. ASSUME NEW d \in gone, v \in Past(d), x \notin Past(d)
      PROVE  c \notin Past(d)
  <2>1. \A w \in Past(d) : Past(w) \subseteq Past(d)
    BY GoneRules, PastRules
  <2> QED BY <1>2, <2>1
<1> QED BY <1>1, <1>2 DEF Stands

\* and what stands where there is nothing live, where there is nothing live
\* again, or a value that was never deleted.
LEMMA StandsDead ==
    ASSUME TypeOK, Pasts, NEW x, ~Live(x), NEW c,
           Live(c) => \A d \in gone : c \notin Past(d),
           NEW v, Stands(v, x)
    PROVE  Stands(v, c)
<1>1. v \in Past(x) => x \in gone
  BY DEF Live, Past
<1> QED BY <1>1 DEF Stands

\* No version comes twice without a restore, and a cache only grows on what it
\* holds, or is replaced by what the VTA does.
LEMMA BasisStep ==
    TypeOK /\ AllMade /\ Pasts /\ Copies /\ Books /\ Basis /\ [Next]_vars => Basis'
<1> SUFFICES ASSUME TypeOK, AllMade, Pasts, Copies, Books, Basis, [Next]_vars,
                    Never({"restore"})'
             PROVE  Basis'
  BY DEF Basis
<1> DEFINE One(h, k) ==
               h \in up => /\ versions[h][k] <= remote.counter
                           /\ Live(Val(k)) /\ versions[h][k] = Ver(k) => Val(k) \in Past(Cache(h, k))
           Ask(h, k) ==
               request[h] # NoRequest /\ request[h].key = k =>
                   /\ request[h].version <= remote.counter
                   /\ Live(Val(k)) /\ request[h].version = Ver(k) => Val(k) \in Past(Cache(h, k))
<1>0. \A h \in Hosts, k \in Keys : One(h, k) /\ Ask(h, k)
  BY NeverBefore DEF Basis, Mishaps
<1>1. (\A h \in Hosts, k \in Keys : One(h, k)' /\ Ask(h, k)') => Basis'
  BY DEF Basis
<1>2. /\ \A h \in Hosts, k \in Keys : versions[h][k] \in Nat
      /\ \A h \in Hosts : request[h] # NoRequest => request[h].version \in Nat
      /\ remote.counter \in Nat
      /\ \A k \in Keys : Ver(k) <= remote.counter /\ (Val(k) # NoValue => Ver(k) > 0)
      /\ \A k \in Keys : Val(k) \in Nat /\ Val(k) <= made
      /\ \A h \in Hosts, k \in Keys : Cache(h, k) \in Nat /\ Cache(h, k) <= made
  BY StateTypes DEF TypeOK, Copies, Sound, Val, Ver, AllMade
<1>3. ASSUME NEW g \in Hosts, NEW i \in Keys,
             UNCHANGED <<past, gone>>, Cache(g, i)' = Cache(g, i),
             remote'.rec[i] = remote.rec[i],
             remote'.counter \in Nat, remote'.counter >= remote.counter
      PROVE  /\ (g \in up' => g \in up /\ versions'[g][i] = versions[g][i]) => One(g, i)'
             /\ request'[g] = request[g] \/ request'[g] = NoRequest => Ask(g, i)'
  <2>1. /\ Val(i)' = Val(i) /\ Ver(i)' = Ver(i)
        /\ Live(Val(i))' <=> Live(Val(i))
        /\ Past(Cache(g, i))' = Past(Cache(g, i))
    BY <1>3 DEF Val, Ver, Live, Past
  <2>2. ASSUME g \in up' => g \in up /\ versions'[g][i] = versions[g][i]
        PROVE  One(g, i)'
    BY <1>0, <1>2, <1>3, <2>1, <2>2
  <2>3. ASSUME request'[g] = request[g] \/ request'[g] = NoRequest
        PROVE  Ask(g, i)'
    BY <1>0, <1>2, <1>3, <2>1, <2>3
  <2> QED BY <2>2, <2>3
<1>4. ASSUME NEW h \in Hosts, NEW k \in Keys, NEW deletes \in BOOLEAN, Changed(h, k, deletes)
      PROVE  Basis'
  <2>1. UNCHANGED <<remote, up, versions, request>>
    BY <1>4 DEF Changed
  <2>2. \A i \in Keys : Val(i)' = Val(i) /\ Ver(i)' = Ver(i) /\ (Live(Val(i))' <=> Live(Val(i)))
    <3> TAKE i \in Keys
    <3>1. PICK v \in Nat : v = Val(i) /\ v <= made
      BY <1>2
    <3>2. Live(v)' <=> Live(v)
      BY <1>4, <3>1, PastKept
    <3> QED BY <2>1, <3>1, <3>2 DEF Val, Ver, Live
  <2>3. \A g \in Hosts, i \in Keys : Past(Cache(g, i)) \subseteq Past(Cache(g, i))'
    <3> TAKE g \in Hosts, i \in Keys
    <3>1. PICK c \in Nat : c = Cache(g, i) /\ c <= made
      BY <1>2
    <3>2. PICK m : m = made + 1
      OBVIOUS
    <3>3. CASE g = h /\ i = k
      <4>1. Cache(g, i)' = m
        BY <1>4, <3>2, <3>3 DEF Changed
      <4>2. Past(c) \subseteq Past(m)'
        BY <1>4, <3>1, <3>2, <3>3, PastOfNew
      <4> QED BY <3>1, <4>1, <4>2 DEF Past
    <3>4. CASE ~(g = h /\ i = k)
      <4>1. Cache(g, i)' = c
        BY <1>4, <3>1, <3>4 DEF Changed
      <4>2. Past(c)' = Past(c)
        BY <1>4, <3>1, PastKept
      <4> QED BY <3>1, <4>1, <4>2 DEF Past
    <3> QED BY <3>3, <3>4
  <2> QED BY <1>0, <1>1, <2>1, <2>2, <2>3
<1>5. ASSUME NEW h \in Hosts, NEW k \in Keys, Written(h, k) PROVE Basis'
  <2> DEFINE n == remote.counter + 1
  <2>1. /\ UNCHANGED <<disk, up, versions, past, gone>>
        /\ remote'.counter = n
        /\ \A i \in Keys \ {k} : Val(i)' = Val(i) /\ Ver(i)' = Ver(i)
        /\ Val(k)' = Cache(h, k) /\ Ver(k)' = n
        /\ request'[h] = [key |-> k, version |-> n, live |-> Live(Cache(h, k))]
        /\ \A g \in Hosts \ {h} : request'[g] = request[g]
    BY <1>5 DEF Written, Val, Ver
  <2>2. \A g \in Hosts, i \in Keys : Cache(g, i)' = Cache(g, i)
                                     /\ Past(Cache(g, i))' = Past(Cache(g, i))
    BY <2>1 DEF Cache, Past
  <2>3. \A i \in Keys \ {k} : Live(Val(i))' <=> Live(Val(i))
    BY <2>1 DEF Live
  <2>4. \A g \in Hosts, i \in Keys : One(g, i)'
    BY <1>0, <1>2, <2>1, <2>2, <2>3
  <2>5. \A g \in Hosts \ {h}, i \in Keys : Ask(g, i)'
    BY <1>0, <1>2, <2>1, <2>2, <2>3
  <2>6. Live(Val(k))' => Val(k)' \in Past(Cache(h, k))
    <3>1. Live(Val(k))' => Cache(h, k) # NoValue
      BY <2>1 DEF Live
    <3> QED BY <1>2, <2>1, <3>1, PastRules
  <2>7. \A i \in Keys : Ask(h, i)'
    BY <1>2, <2>1, <2>2, <2>6
  <2> QED BY <1>1, <2>4, <2>5, <2>7
<1>6. ASSUME NEW h \in Hosts, NEW k \in Keys, Skipped(h, k) PROVE Basis'
  <2>1. /\ UNCHANGED <<remote, past, gone, up, request>>
        /\ \A g \in Hosts, i \in Keys : Cache(g, i)' = Cache(g, i)
        /\ \A g \in Hosts, i \in Keys : \/ versions'[g][i] = versions[g][i]
                                        \/ versions'[g][i] = 0
    BY <1>6 DEF Skipped
  <2>2. ASSUME NEW g \in Hosts, NEW i \in Keys PROVE One(g, i)' /\ Ask(g, i)'
    <3>1. CASE versions'[g][i] = versions[g][i]
      BY <1>2, <1>3, <2>1, <3>1
    <3>2. CASE versions'[g][i] = 0
      <4>1. Live(Val(i))' => Ver(i)' > 0
        BY <1>2, <2>1 DEF Live, Val, Ver
      <4> QED BY <1>2, <1>3, <2>1, <3>2, <4>1
    <3> QED BY <2>1, <3>1, <3>2
  <2> QED BY <1>1, <2>2
<1>7. ASSUME NEW h \in Hosts, Learned(h) PROVE Basis'
  <2>1. /\ UNCHANGED <<remote, past, gone, up>>
        /\ \A g \in Hosts, i \in Keys : Cache(g, i)' = Cache(g, i)
        /\ \A g \in Hosts : request'[g] = request[g] \/ request'[g] = NoRequest
        /\ \A g \in Hosts, i \in Keys :
               versions'[g][i] = IF g = h /\ i = request[h].key THEN Answer(h) ELSE versions[g][i]
        /\ request[h] # NoRequest /\ h \in up
    BY <1>7 DEF Learned
  <2>2. ASSUME NEW g \in Hosts, NEW i \in Keys PROVE One(g, i)' /\ Ask(g, i)'
    <3>1. CASE ~(g = h /\ i = request[h].key)
      BY <1>2, <1>3, <2>1, <3>1
    <3>2. CASE g = h /\ i = request[h].key
      <4>1. Live(Val(i))' => Ver(i)' > 0
        BY <1>2, <2>1 DEF Live, Val, Ver
      <4>2. /\ Val(i)' = Val(i) /\ Ver(i)' = Ver(i) /\ (Live(Val(i))' <=> Live(Val(i)))
            /\ Past(Cache(g, i))' = Past(Cache(g, i))
        BY <2>1 DEF Val, Ver, Live, Past
      <4>3. One(g, i)'
        <5>1. CASE request[h].live
          BY <1>0, <1>2, <2>1, <3>2, <4>2, <5>1 DEF Answer
        <5>2. CASE ~request[h].live
          BY <1>2, <2>1, <3>2, <4>1, <5>2 DEF Answer
        <5> QED BY <5>1, <5>2
      <4> QED BY <1>2, <1>3, <2>1, <4>3
    <3> QED BY <3>1, <3>2
  <2> QED BY <1>1, <2>2
<1>8. ASSUME NEW h \in Hosts, Started(h) PROVE Basis'
  <2>1. /\ UNCHANGED <<remote, past, gone, request>> /\ up' = up \cup {h} /\ h \notin up
        /\ \A g \in Hosts, i \in Keys :
               /\ g # h => Cache(g, i)' = Cache(g, i) /\ versions'[g][i] = versions[g][i]
               /\ Cache(h, i)' = Pulled(h, i) /\ versions'[h][i] = LiveVersion(i)
    BY <1>8 DEF Started
  <2>2. request[h] = NoRequest
    BY <2>1 DEF TypeOK
  <2>3. \A g \in Hosts \ {h}, i \in Keys : One(g, i)' /\ Ask(g, i)'
    BY <1>2, <1>3, <2>1
  <2>4. ASSUME NEW i \in Keys PROVE One(h, i)' /\ Ask(h, i)'
    <3>1. LiveVersion(i) <= remote.counter
      BY <1>2 DEF LiveVersion, Val, Ver
    <3>2. ASSUME Live(Val(i)) PROVE Val(i) = Pulled(h, i) /\ Val(i) \in Past(Val(i))
      <4>1. Listed(i)
        BY <3>2 DEF Copies, Sound, Listed, Live, Val
      <4>2. Val(i) \in Past(Val(i))
        BY <1>2, <3>2, PastRules DEF Live
      <4> QED BY <4>1, <4>2 DEF Pulled, Val
    <3>3. (Live(Val(i))' <=> Live(Val(i))) /\ Val(i)' = Val(i)
      BY <2>1 DEF Val, Live
    <3>4. Live(Val(i))' => Val(i)' \in Past(Cache(h, i))'
      BY <2>1, <3>2, <3>3 DEF Past
    <3> QED BY <1>2, <2>1, <2>2, <3>1, <3>4
  <2> QED BY <1>1, <2>3, <2>4
<1>9. ASSUME NEW h \in Hosts,
             \/ \E r \in Keys \X Values : Sent(h, r)
             \/ Begun(h) \/ GivenUp(h) \/ Ended(h)
      PROVE  Basis'
  <2>1. /\ UNCHANGED <<past, gone>> /\ remote'.rec = remote.rec
        /\ remote'.counter \in Nat /\ remote'.counter >= remote.counter
        /\ \A g \in Hosts, i \in Keys : Cache(g, i)' = Cache(g, i)
    BY <1>2, <1>9 DEF Sent, Begun, GivenUp, Ended, Cache
  <2>2. \A g \in Hosts, i \in Keys :
            /\ g \in up' => g \in up /\ versions'[g][i] = versions[g][i]
            /\ request'[g] = request[g] \/ request'[g] = NoRequest
    BY <1>9 DEF Sent, Begun, GivenUp, Ended
  <2> QED BY <1>1, <1>3, <2>1, <2>2
<1>10. ASSUME NEW h \in Hosts, Emptied(h) PROVE Basis'
  <2>1. \A g \in Hosts \ {h}, i \in Keys : One(g, i)' /\ Ask(g, i)'
    BY <1>2, <1>3, <1>10 DEF Emptied
  <2>2. h \notin up' /\ request'[h] = NoRequest
    BY <1>10 DEF Emptied
  <2> QED BY <1>1, <2>1, <2>2
<1>11. CASE Reaped \/ Quiet
  BY <1>1, <1>2, <1>3, <1>11 DEF Reaped, Quiet, Cache
<1>12. ~WentBack
  BY DEF WentBack, Never
<1> QED
  BY <1>4, <1>5, <1>6, <1>7, <1>8, <1>9, <1>10, <1>11, <1>12, Effects

\* A value is made from its record's own.
LEMMA ApartStep == TypeOK /\ AllMade /\ Pasts /\ Apart /\ [Next]_vars => Apart'
<1> SUFFICES ASSUME TypeOK, AllMade, Pasts, Apart, [Next]_vars PROVE Apart'
  OBVIOUS
<1>0. \A i \in Keys : \A x \in Around(i) : x \in Nat /\ x <= made
  BY StateTypes DEF Around, AllMade, Val
<1>1. ASSUME UNCHANGED past, \A i \in Keys : Around(i)' \subseteq Around(i) \cup {NoValue}
      PROVE  Apart'
  <2>1. \A x : Past(x)' = Past(x)
    BY <1>1 DEF Past
  <2>2. Past(NoValue) = {}
    BY DEF Past
  <2>3. ASSUME NEW i \in Keys, NEW k \in Keys, i # k,
               NEW x \in Around(i)', NEW y \in Around(k)'
        PROVE  Past(x)' \cap Past(y)' = {}
    <3>1. x \in Around(i) \cup {NoValue} /\ y \in Around(k) \cup {NoValue}
      BY <1>1
    <3> QED BY <2>1, <2>2, <2>3, <3>1 DEF Apart
  <2> QED BY <2>3 DEF Apart
<1>2. ASSUME UNCHANGED <<remote, backup>>, \A g \in Hosts, i \in Keys : Cache(g, i)' = Cache(g, i)
      PROVE  \A i \in Keys : Around(i)' = Around(i)
  BY <1>2 DEF Around, Val
<1>3. ASSUME NEW h \in Hosts, NEW k \in Keys, NEW deletes \in BOOLEAN, Changed(h, k, deletes)
      PROVE  Apart'
  <2>1. PICK m : m = made + 1
    OBVIOUS
  <2>2. PICK c \in Nat : c = Cache(h, k) /\ c <= made /\ c \in Around(k)
    BY <1>0 DEF Around
  <2>3. Past(m)' = Past(c) \cup {m}
    BY <1>3, <2>1, <2>2, PastOfNew
  <2>4. \A i \in Keys : Around(i)' \subseteq IF i = k THEN Around(i) \cup {m} ELSE Around(i)
    <3>1. UNCHANGED <<remote, backup>>
          /\ \A g \in Hosts, i \in Keys :
                 Cache(g, i)' = IF g = h /\ i = k THEN m ELSE Cache(g, i)
      BY <1>3, <2>1 DEF Changed
    <3> QED BY <3>1 DEF Around, Val
  <2>5. \A i \in Keys : \A x \in Around(i) : Past(x)' = Past(x) /\ m \notin Past(x)
    <3> TAKE i \in Keys
    <3> TAKE x \in Around(i)
    <3>1. x \in Nat /\ x <= made
      BY <1>0
    <3>2. Past(x)' = Past(x)
      BY <1>3, <3>1, PastKept
    <3>3. m \notin Past(x)
      BY <2>1, <3>1, PastRules, StateTypes
    <3> QED BY <3>2, <3>3
  <2>6. ASSUME NEW i \in Keys, NEW j \in Keys, i # j,
               NEW x \in Around(i)', NEW y \in Around(j)'
        PROVE  Past(x)' \cap Past(y)' = {}
    <3>1. CASE x # m /\ y # m
      <4>1. x \in Around(i) /\ y \in Around(j)
        BY <2>4, <3>1
      <4> QED BY <2>5, <2>6, <4>1 DEF Apart
    <3>2. CASE x = m
      <4>0. i = k \/ x \in Around(i)
        BY <2>4
      <4>1. i = k
        <5>1. m \notin Around(i)
          BY <1>0, <2>1, StateTypes
        <5> QED BY <3>2, <4>0, <5>1
      <4>2. y \in Around(j)
        BY <2>4, <2>6, <4>1
      <4>3. Past(c) \cap Past(y) = {}
        BY <2>2, <2>6, <4>1, <4>2 DEF Apart
      <4> QED BY <2>3, <2>5, <3>2, <4>2, <4>3
    <3>3. CASE y = m
      <4>0. j = k \/ y \in Around(j)
        BY <2>4
      <4>1. j = k
        <5>1. m \notin Around(j)
          BY <1>0, <2>1, StateTypes
        <5> QED BY <3>3, <4>0, <5>1
      <4>2. x \in Around(i)
        BY <2>4, <2>6, <4>1
      <4>3. Past(x) \cap Past(c) = {}
        BY <2>2, <2>6, <4>1, <4>2 DEF Apart
      <4> QED BY <2>3, <2>5, <3>3, <4>2, <4>3
    <3> QED BY <3>1, <3>2, <3>3
  <2> QED BY <2>6 DEF Apart
<1>4. ASSUME NEW h \in Hosts, NEW k \in Keys, Written(h, k) PROVE Apart'
  <2>1. /\ UNCHANGED <<backup, disk, past>>
        /\ \A i \in Keys : Val(i)' = IF i = k THEN Cache(h, k) ELSE Val(i)
    BY <1>4 DEF Written, Val
  <2>2. \A i \in Keys : Around(i)' \subseteq Around(i)
    BY <2>1 DEF Around, Cache
  <2> QED BY <1>1, <2>1, <2>2
<1>5. ASSUME NEW h \in Hosts,
             \/ \E r \in Keys \X Values : Sent(h, r)
             \/ \E k \in Keys : Skipped(h, k)
             \/ GivenUp(h) \/ Learned(h) \/ Ended(h)
      PROVE  Apart'
  <2>1. /\ UNCHANGED <<remote, backup, past>>
        /\ \A g \in Hosts, i \in Keys : Cache(g, i)' = Cache(g, i)
    BY <1>5 DEF Sent, Skipped, GivenUp, Learned, Ended, Cache
  <2> QED BY <1>1, <1>2, <2>1
<1>6. ASSUME NEW h \in Hosts, Begun(h) PROVE Apart'
  BY <1>1, <1>6 DEF Begun, Around, Val, Cache
<1>7. ASSUME NEW h \in Hosts, Started(h) PROVE Apart'
  <2>1. /\ UNCHANGED <<remote, backup, past>>
        /\ \A g \in Hosts, i \in Keys :
               Cache(g, i)' = IF g = h THEN Pulled(h, i) ELSE Cache(g, i)
    BY <1>7 DEF Started
  <2>2. \A i \in Keys : Pulled(h, i) \in Around(i)
    BY DEF Pulled, Around, Val
  <2>3. \A i \in Keys : Around(i)' \subseteq Around(i)
    BY <2>1, <2>2 DEF Around, Val
  <2> QED BY <1>1, <2>1, <2>3
<1>8. ASSUME NEW h \in Hosts, Emptied(h) PROVE Apart'
  <2>1. /\ UNCHANGED <<remote, backup, past>>
        /\ \A g \in Hosts, i \in Keys :
               Cache(g, i)' = IF g = h THEN NoValue ELSE Cache(g, i)
    BY <1>8 DEF Emptied
  <2>2. \A i \in Keys : Around(i)' \subseteq Around(i) \cup {NoValue}
    BY <2>1 DEF Around, Val
  <2> QED BY <1>1, <2>1, <2>2
<1>9. CASE Reaped
  BY <1>1, <1>9 DEF Reaped, Around, Val, Cache
<1>10. CASE WentBack \/ Quiet
  BY <1>1, <1>10 DEF WentBack, Quiet, Around, Val, Cache
<1> QED BY <1>3, <1>4, <1>5, <1>6, <1>7, <1>8, <1>9, <1>10, Effects

\* A bridge alone builds upon what it has, and deletes what it has built.
LEMMA BuiltStep ==
    TypeOK /\ AllMade /\ Pasts /\ Apart /\ Copies /\ Built /\ [Next]_vars => Built'
<1> SUFFICES ASSUME TypeOK, AllMade, Pasts, Apart, Copies, Built, [Next]_vars,
                    Never({"restore"})', Alone'
             PROVE  Built'
  BY DEF Built
<1> DEFINE Based(g, i) == g \in up /\ Live(Val(i)) => Val(i) \in Past(Cache(g, i))
           New(g, i) == Live(Cache(g, i)) /\ ~Live(Val(i)) =>
                            \A d \in gone : Cache(g, i) \notin Past(d)
<1>0. /\ plan' = plan /\ Alone /\ plan.hosts \subseteq Hosts
      /\ \A g \in plan.hosts, i \in Keys : Based(g, i) /\ New(g, i)
  <2>1. plan' = plan /\ Alone /\ Never({"restore"})
    BY NeverBefore, AloneBefore DEF Mishaps
  <2>2. plan.hosts \subseteq Hosts
    BY PlanAssumption DEF TypeOK
  <2> QED BY <2>1, <2>2 DEF Built
<1>1. (\A g \in plan.hosts, i \in Keys : Based(g, i)' /\ New(g, i)') => Built'
  BY <1>0 DEF Built
<1>2. /\ up \subseteq plan.hosts /\ \A g, h \in plan.hosts : g = h
      /\ \A i \in Keys : Val(i) \in Nat /\ Val(i) <= made
      /\ \A g \in Hosts, i \in Keys : Cache(g, i) \in Nat /\ Cache(g, i) <= made
  BY <1>0, StateTypes DEF TypeOK, AllMade, Alone, Val
<1>3. ASSUME NEW g \in plan.hosts, NEW i \in Keys, UNCHANGED <<past, gone>>,
             Cache(g, i)' = Cache(g, i), remote'.rec[i] = remote.rec[i]
      PROVE  (g \in up' => g \in up) => Based(g, i)' /\ New(g, i)'
  <2>1. /\ Val(i)' = Val(i) /\ (Live(Val(i))' <=> Live(Val(i)))
        /\ Past(Cache(g, i))' = Past(Cache(g, i))
        /\ Live(Cache(g, i))' <=> Live(Cache(g, i))
        /\ \A d : Past(d)' = Past(d)
    BY <1>3 DEF Val, Live, Past
  <2> QED BY <1>0, <1>3, <2>1
<1>4. ASSUME NEW h \in Hosts, NEW k \in Keys, NEW deletes \in BOOLEAN, Changed(h, k, deletes)
      PROVE  Built'
  <2>1. PICK m : m = made + 1
    OBVIOUS
  <2>2. PICK c \in Nat : c = Cache(h, k) /\ c <= made /\ c \in Around(k)
    BY <1>2 DEF Around
  <2>3. Past(m)' = Past(c) \cup {m}
    BY <1>4, <2>1, <2>2, PastOfNew
  <2>4. /\ UNCHANGED <<remote, up>> /\ h \in plan.hosts
        /\ gone' = IF deletes THEN gone \cup {m} ELSE gone
        /\ \A g \in Hosts, i \in Keys :
               Cache(g, i)' = IF g = h /\ i = k THEN m ELSE Cache(g, i)
    BY <1>2, <1>4, <2>1 DEF Changed
  <2>5. \A v \in Nat : v <= made =>
            Past(v)' = Past(v) /\ (Live(v)' <=> Live(v)) /\ m \notin Past(v)
    <3> TAKE v \in Nat
    <3> HAVE v <= made
    <3>1. Past(v)' = Past(v) /\ (Live(v)' <=> Live(v))
      BY <1>4, PastKept
    <3>2. m \notin Past(v)
      BY <2>1, PastRules, StateTypes
    <3> QED BY <3>1, <3>2
  <2>6. \A d \in gone : Past(d)' = Past(d) /\ m \notin Past(d)
    BY <2>5, GoneRules
  <2>7. ASSUME NEW g \in plan.hosts, NEW i \in Keys PROVE Based(g, i)' /\ New(g, i)'
    <3>1. PICK w \in Nat : w = Val(i) /\ w <= made
      BY <1>2
    <3>2. Val(i)' = w /\ (Live(w)' <=> Live(w))
      BY <2>4, <2>5, <3>1 DEF Val
    <3>3. CASE i = k
      <4>1. g = h /\ Cache(g, i)' = m
        BY <1>0, <1>2, <2>4, <3>3
      <4>2. Based(g, i)'
        BY <1>0, <2>2, <2>3, <2>4, <3>1, <3>2, <3>3, <4>1 DEF Live, Past
      <4>3. New(g, i)'
        BY <2>4, <2>6, <4>1 DEF Live, Past
      <4> QED BY <4>2, <4>3
    <3>4. CASE i # k
      <4>1. PICK a \in Nat : a = Cache(g, i) /\ a <= made /\ a \in Around(i)
        BY <1>0, <1>2 DEF Around
      <4>2. Cache(g, i)' = a /\ Past(a)' = Past(a) /\ (Live(a)' <=> Live(a))
        BY <1>0, <2>4, <2>5, <3>4, <4>1
      <4>3. Based(g, i)'
        BY <1>0, <2>4, <3>1, <3>2, <4>1, <4>2 DEF Live, Past
      <4>4. Live(a) => a \notin Past(m)'
        <5>1. HAVE Live(a)
        <5>2. a \in Past(a)
          BY <4>1, <5>1, PastRules DEF Live
        <5>3. a \notin Past(c)
          BY <2>2, <3>4, <4>1, <5>2 DEF Apart
        <5>4. a # m
          BY <2>1, <4>1, StateTypes
        <5> QED BY <2>3, <5>3, <5>4
      <4>5. New(g, i)'
        <5>1. SUFFICES ASSUME Live(a), ~Live(w), NEW d \in gone' PROVE a \notin Past(d)'
          BY <3>2, <4>2 DEF Live, Past
        <5>2. CASE d \in gone
          BY <1>0, <2>6, <3>1, <4>1, <5>1, <5>2
        <5>3. CASE d = m
          BY <4>4, <5>1, <5>3 DEF Past
        <5> QED BY <2>4, <5>2, <5>3
      <4> QED BY <4>3, <4>5
    <3> QED BY <3>3, <3>4
  <2> QED BY <1>1, <2>7
<1>5. ASSUME NEW h \in Hosts, NEW k \in Keys, Written(h, k) PROVE Built'
  <2>1. /\ UNCHANGED <<disk, up, past, gone>> /\ h \in plan.hosts
        /\ \A i \in Keys : Val(i)' = IF i = k THEN Cache(h, k) ELSE Val(i)
        /\ \A g \in Hosts, i \in Keys : Cache(g, i)' = Cache(g, i)
    BY <1>2, <1>5 DEF Written, Val, Cache
  <2>2. ASSUME NEW g \in plan.hosts, NEW i \in Keys PROVE Based(g, i)' /\ New(g, i)'
    <3>1. \A x : (Live(x)' <=> Live(x)) /\ Past(x)' = Past(x)
      BY <2>1 DEF Live, Past
    <3>2. g = h
      BY <1>2, <2>1
    <3>3. PICK a \in Nat : a = Cache(g, i) /\ a <= made /\ Cache(g, i)' = a
      BY <1>0, <1>2, <2>1
    <3>4. CASE i = k
      <4>1. Val(i)' = a
        BY <2>1, <3>2, <3>3, <3>4
      <4>2. Live(a) => a \in Past(a)
        BY <3>3, PastRules DEF Live
      <4> QED BY <2>1, <3>3, <4>1, <4>2 DEF Live, Past
    <3>5. CASE i # k
      <4>1. Val(i)' = Val(i)
        BY <2>1, <3>5
      <4> QED BY <1>0, <2>1, <3>3, <4>1 DEF Live, Past
    <3> QED BY <3>4, <3>5
  <2> QED BY <1>1, <2>2
<1>6. ASSUME UNCHANGED <<past, gone>>, remote'.rec = remote.rec, up' \subseteq up,
             \A g \in Hosts, i \in Keys : Cache(g, i)' = Cache(g, i)
      PROVE  Built'
  BY <1>0, <1>1, <1>3, <1>6
<1>7. ASSUME NEW h \in Hosts,
             \/ \E r \in Keys \X Values : Sent(h, r)
             \/ \E k \in Keys : Skipped(h, k)
             \/ Begun(h) \/ GivenUp(h) \/ Learned(h) \/ Ended(h)
      PROVE  Built'
  <2>1. /\ UNCHANGED <<past, gone>> /\ remote'.rec = remote.rec /\ up' \subseteq up
        /\ \A g \in Hosts, i \in Keys : Cache(g, i)' = Cache(g, i)
    BY <1>7 DEF Sent, Skipped, Begun, GivenUp, Learned, Ended, Cache
  <2> QED BY <1>6, <2>1
<1>8. ASSUME NEW h \in Hosts, Started(h) PROVE Built'
  <2>1. /\ UNCHANGED <<remote, past, gone>> /\ h \in plan.hosts
        /\ \A i \in Keys : Cache(h, i)' = Pulled(h, i)
    BY <1>8 DEF Started
  <2>2. ASSUME NEW g \in plan.hosts, NEW i \in Keys PROVE Based(g, i)' /\ New(g, i)'
    <3>1. \A x : (Live(x)' <=> Live(x)) /\ Past(x)' = Past(x)
      BY <2>1 DEF Live, Past
    <3>2. g = h /\ Val(i)' = Val(i) /\ Cache(g, i)' = Pulled(h, i)
      BY <1>2, <2>1 DEF Val
    <3>3. Live(Val(i)) => Pulled(h, i) = Val(i) /\ Val(i) \in Past(Val(i))
      <4>1. Live(Val(i)) => Listed(i)
        BY DEF Copies, Sound, Listed, Live, Val
      <4>2. Live(Val(i)) => Val(i) \in Past(Val(i))
        BY <1>2, PastRules DEF Live
      <4> QED BY <4>1, <4>2 DEF Pulled, Val
    <3>4. Pulled(h, i) = Val(i) \/ Pulled(h, i) = Cache(h, i)
      BY DEF Pulled, Val
    <3>5. Based(g, i)'
      BY <3>2, <3>3, <2>1 DEF Live, Past
    <3>6. New(g, i)'
      BY <1>0, <2>1, <3>2, <3>4 DEF Live, Past
    <3> QED BY <3>5, <3>6
  <2> QED BY <1>1, <2>2
<1>9. ASSUME NEW h \in Hosts, Emptied(h) PROVE Built'
  <2>1. /\ UNCHANGED <<remote, past, gone>> /\ up' = up \ {h}
        /\ \A g \in Hosts, i \in Keys :
               Cache(g, i)' = IF g = h THEN NoValue ELSE Cache(g, i)
    BY <1>9 DEF Emptied
  <2>2. ASSUME NEW g \in plan.hosts, NEW i \in Keys PROVE Based(g, i)' /\ New(g, i)'
    <3>1. CASE g = h
      BY <1>0, <2>1, <3>1 DEF Live
    <3>2. CASE g # h
      BY <1>0, <1>3, <2>1, <3>2
    <3> QED BY <3>1, <3>2
  <2> QED BY <1>1, <2>2
<1>10. CASE Reaped \/ Quiet
  <2>1. /\ UNCHANGED <<past, gone>> /\ remote'.rec = remote.rec /\ up' \subseteq up
        /\ \A g \in Hosts, i \in Keys : Cache(g, i)' = Cache(g, i)
    BY <1>10 DEF Reaped, Quiet, Cache
  <2> QED BY <1>6, <2>1
<1>11. ~WentBack
  BY DEF WentBack, Never
<1> QED
  BY <1>4, <1>5, <1>7, <1>8, <1>9, <1>10, <1>11, Effects

\* What is reported, or is to be, is a record's value.
LEMMA PairTypes ==
    ASSUME TypeOK, NEW g \in Hosts, NEW r \in Outbox(g) \cup knows[g] \cup reported
    PROVE  r[1] \in Keys /\ r[2] \in Values /\ r = <<r[1], r[2]>>
<1>1. r \in Pairs
  BY StateTypes DEF TypeOK, Outbox, Disks
<1> QED BY <1>1 DEF Pairs

\* A write the VTA takes undoes nothing that stands there: it is made over the
\* live record it was compared with, or over none.
LEMMA WriteBuilds ==
    ASSUME TypeOK, AllMade, Pasts, Copies, Books, Basis, Built, Calm,
           NEW h \in Hosts, NEW k \in Keys, Written(h, k),
           NEW v, Stands(v, Val(k))
    PROVE  Stands(v, Cache(h, k))
<1>1. PICK c \in Nat : c = Cache(h, k) /\ c <= made
  BY StateTypes DEF AllMade
<1>2. PICK x \in Nat : x = Val(k)
  BY StateTypes
<1>3. /\ h \in up /\ h \in plan.hosts /\ k \in Pending(h) /\ c # NoValue
      /\ Live(c) \/ LiveVersion(k) # 0
      /\ versions[h][k] = LiveVersion(k) \/ (~Live(c) /\ versions[h][k] = 0)
  <2>1. h \in up /\ k \in Pending(h)
    BY DEF Written, Pending
  <2>2. h \in plan.hosts
    BY <2>1 DEF TypeOK
  <2>3. c # NoValue
    BY <1>1, <2>1 DEF Books
  <2>4. /\ Live(c) \/ LiveVersion(k) # 0
        /\ versions[h][k] = LiveVersion(k) \/ (~Live(c) /\ versions[h][k] = 0)
    BY <1>1 DEF Written, Accepts
  <2> QED BY <2>1, <2>2, <2>3, <2>4
<1>4. Never({"restore"}) /\ (Alone \/ gone = {})
  BY DEF Calm, Never, Pasts
<1>5. /\ Live(x) => LiveVersion(k) = Ver(k) /\ LiveVersion(k) # 0
      /\ ~Live(x) => LiveVersion(k) = 0
  <2>1. Val(k) # NoValue => Ver(k) > 0
    BY DEF Copies, Sound, Val, Ver
  <2>2. LiveVersion(k) = IF Live(x) THEN Ver(k) ELSE 0
    BY <1>2 DEF LiveVersion, Val, Ver
  <2> QED BY <1>2, <2>1, <2>2, StateTypes DEF Live
<1>6. CASE Live(x)
  <2>1. x \in Past(c)
    <3>1. CASE versions[h][k] = LiveVersion(k)
      BY <1>1, <1>2, <1>3, <1>4, <1>5, <1>6, <3>1 DEF Basis
    <3>2. CASE ~Live(c)
      <4>1. Alone
        BY <1>3, <1>4, <3>2 DEF Live
      <4> QED BY <1>1, <1>2, <1>3, <1>4, <1>6, <4>1 DEF Built
    <3> QED BY <1>3, <3>1, <3>2
  <2> QED BY <1>1, <1>2, <1>6, <2>1, StandsBuilt
<1>7. CASE ~Live(x)
  <2>1. Live(c) /\ \A d \in gone : c \notin Past(d)
    BY <1>1, <1>2, <1>3, <1>4, <1>5, <1>7 DEF Built
  <2> QED BY <1>1, <1>2, <1>7, <2>1, StandsDead
<1> QED BY <1>6, <1>7

\* A change undoes nothing: not where it is not made,
LEMMA StandsKept ==
    ASSUME TypeOK, Pasts, NEW h \in Hosts, NEW k \in Keys, NEW deletes \in BOOLEAN,
           Changed(h, k, deletes), NEW x \in Nat, x <= made,
           NEW v, Stands(v, x)
    PROVE  Stands(v, x)'
<1>1. Past(x)' = Past(x) /\ (Live(x)' <=> Live(x))
  BY PastKept
<1>2. \A d \in gone : d \in gone' /\ Past(d)' = Past(d)
  BY GoneRules, PastKept DEF Changed
<1> QED BY <1>1, <1>2 DEF Stands

\* and not where it is.
LEMMA StandsOn ==
    ASSUME TypeOK, AllMade, Pasts, NEW h \in Hosts, NEW k \in Keys, NEW deletes \in BOOLEAN,
           Changed(h, k, deletes), NEW m, m = made + 1
    PROVE  /\ Stands(m, m)'
           /\ \A v : Stands(v, Cache(h, k)) => Stands(v, m)'
<1>1. PICK c \in Nat : c = Cache(h, k) /\ c <= made
  BY StateTypes DEF AllMade
<1>2. Past(m)' = Past(c) \cup {m}
  BY <1>1, PastOfNew
<1>3. \A d \in gone : d \in gone' /\ Past(d)' = Past(d) /\ m \notin Past(d)
  <2> TAKE d \in gone
  <2>1. d \in Nat /\ d <= made
    BY GoneRules
  <2>2. m \notin Past(d)
    BY <2>1, PastRules, StateTypes
  <2> QED BY <2>1, <2>2, PastKept DEF Changed
<1>4. Stands(m, m)'
  BY <1>2 DEF Stands
<1>5. ASSUME NEW v, Stands(v, c) PROVE Stands(v, m)'
  BY <1>2, <1>3, <1>5 DEF Stands
<1> QED BY <1>1, <1>4, <1>5

\* What is excepted now was excepted before.
LEMMA CalmBefore ==
    ASSUME TypeOK, [Next]_vars
    PROVE  /\ Calm' => Calm /\ count'["crash"] = 0 /\ count'["restore"] = 0
           /\ Restored' => Restored /\ count'["crash"] = 0
<1>1. \A ms \in SUBSET Mishaps : Never(ms)' => Never(ms)
  BY NeverBefore
<1>2. /\ Never({"restore", "crash"})' => count'["crash"] = 0 /\ count'["restore"] = 0
      /\ Never({"crash", "deletion"})' => count'["crash"] = 0
  BY DEF Never
<1> QED BY <1>1, <1>2, AloneBefore DEF Calm, Restored, Mishaps

\* The VTA undoes nothing that was reported.
LEMMA ReportedStep ==
    /\ TypeOK /\ AllMade /\ Pasts /\ Copies /\ Books /\ Basis /\ Built
    /\ ReportedStands /\ Queued /\ [Next]_vars
    => ReportedStands'
<1> SUFFICES ASSUME TypeOK, AllMade, Pasts, Copies, Books, Basis, Built,
                    ReportedStands, Queued, [Next]_vars, Calm'
             PROVE  ReportsHeld'
  BY DEF ReportedStands, Calm
<1>0. Calm /\ ReportsHeld /\ count'["restore"] = 0
  BY CalmBefore DEF ReportedStands, Calm
<1>1. \A r \in reported : r[1] \in Keys
  BY DEF TypeOK, Pairs
<1>2. ASSUME UNCHANGED <<past, gone, reported>>, remote'.rec = remote.rec
      PROVE  ReportsHeld'
  BY <1>0, <1>2 DEF ReportsHeld, Stands, Past, Live
<1>3. ASSUME NEW h \in Hosts, NEW k \in Keys, NEW deletes \in BOOLEAN, Changed(h, k, deletes)
      PROVE  ReportsHeld'
  <2>1. UNCHANGED <<remote, reported>>
    BY <1>3 DEF Changed
  <2>2. ASSUME NEW r \in reported, r[1] \notin Big PROVE Stands(r[2], remote.rec[r[1]].value)'
    <3>1. PICK x \in Nat : x = remote.rec[r[1]].value /\ x <= made
      BY <1>1, StateTypes DEF AllMade, Val
    <3>2. Stands(r[2], x)'
      BY <1>0, <1>3, <2>2, <3>1, StandsKept DEF ReportsHeld
    <3> QED BY <2>1, <3>1, <3>2 DEF Stands, Past, Live
  <2> QED BY <2>1, <2>2 DEF ReportsHeld
<1>4. ASSUME NEW h \in Hosts, NEW r \in Keys \X Values, Sent(h, r) PROVE ReportsHeld'
  <2>1. r \in Outbox(h) /\ Pending(h) = {} /\ reported' = reported \cup {r}
        /\ UNCHANGED <<remote, past, gone>>
    BY <1>4 DEF Sent
  <2>2. r[1] \notin Big => Stands(r[2], remote.rec[r[1]].value)
    BY <1>0, <2>1 DEF Queued, Unsent, Pending, Val
  <2> QED BY <1>0, <2>1, <2>2 DEF ReportsHeld, Stands, Past, Live
<1>5. ASSUME NEW h \in Hosts, NEW k \in Keys, Written(h, k) PROVE ReportsHeld'
  <2>1. /\ UNCHANGED <<past, gone, reported>>
        /\ \A i \in Keys : remote'.rec[i].value = IF i = k THEN Cache(h, k) ELSE Val(i)
    BY <1>5 DEF Written, Val
  <2>2. ASSUME NEW r \in reported, r[1] \notin Big
        PROVE  Stands(r[2], remote'.rec[r[1]].value)
    <3>1. Stands(r[2], Val(r[1]))
      BY <1>0, <2>2 DEF ReportsHeld, Val
    <3>2. r[1] = k => Stands(r[2], Cache(h, k))
      BY <1>0, <1>5, <3>1, WriteBuilds
    <3> QED BY <1>1, <2>1, <3>1, <3>2
  <2> QED BY <2>1, <2>2 DEF ReportsHeld, Stands, Past, Live
<1>6. ASSUME NEW h \in Hosts,
             \/ \E k \in Keys : Skipped(h, k)
             \/ Begun(h) \/ GivenUp(h) \/ Learned(h) \/ Started(h) \/ Ended(h) \/ Emptied(h)
      PROVE  ReportsHeld'
  BY <1>2, <1>6 DEF Skipped, Begun, GivenUp, Learned, Started, Ended, Emptied
<1>7. CASE Reaped \/ Quiet
  BY <1>2, <1>7 DEF Reaped, Quiet
<1>8. ~WentBack
  BY <1>0 DEF WentBack
<1> QED
  BY <1>3, <1>4, <1>5, <1>6, <1>7, <1>8, Effects

\* What is queued and sent to the VTA stands there.
LEMMA QueuedStep ==
    /\ TypeOK /\ AllMade /\ Pasts /\ Copies /\ Books /\ Basis /\ Built
    /\ Queued /\ Remembered /\ [Next]_vars
    => Queued'
<1> SUFFICES ASSUME TypeOK, AllMade, Pasts, Copies, Books, Basis, Built,
                    Queued, Remembered, [Next]_vars, Calm'
             PROVE  Queued'
  BY DEF Queued
<1> DEFINE At(g, r) == r[1] \notin Big /\ ~Unsent(g, r[1]) => Stands(r[2], Val(r[1]))
<1>0. /\ Calm /\ count'["crash"] = 0 /\ count'["restore"] = 0
      /\ \A g \in Hosts : \A r \in Outbox(g) : At(g, r)
      /\ \A g \in Hosts : \A r \in Outbox(g) : r[1] \notin Big => Stands(r[2], Cache(g, r[1]))
  BY CalmBefore DEF Queued, Remembered
<1>1. (\A g \in Hosts : \A r \in Outbox(g)' : At(g, r)') => Queued'
  BY DEF Queued
<1>2. \A g \in Hosts : \A r \in Outbox(g) : r[1] \in Keys /\ r[2] \in Values
  BY PairTypes
<1>3. ASSUME NEW g \in Hosts, NEW r \in Outbox(g), UNCHANGED <<past, gone>>,
             remote'.rec[r[1]] = remote.rec[r[1]],
             Unsent(g, r[1]) => Unsent(g, r[1])'
      PROVE  At(g, r)'
  <2>1. Val(r[1])' = Val(r[1])
    BY <1>3 DEF Val
  <2>2. Stands(r[2], Val(r[1])) => Stands(r[2], Val(r[1]))'
    BY <1>3, <2>1 DEF Stands, Past, Live
  <2> QED BY <1>0, <1>3, <2>2
<1>4. ASSUME NEW h \in Hosts, NEW k \in Keys, NEW deletes \in BOOLEAN, Changed(h, k, deletes)
      PROVE  Queued'
  <2>1. PICK m : m = made + 1
    OBVIOUS
  <2>2. /\ UNCHANGED <<remote, batch, request>> /\ h \in up
        /\ \A g \in Hosts : /\ Outbox(g)' = IF g = h THEN Outbox(g) \cup {<<k, m>>} ELSE Outbox(g)
                            /\ dirty'[g] = IF g = h THEN dirty[g] \cup {k} ELSE dirty[g]
    BY <1>4, <2>1 DEF Changed
  <2>3. ASSUME NEW g \in Hosts, NEW r \in Outbox(g)' PROVE At(g, r)'
    <3>1. CASE g = h /\ r = <<k, m>>
      BY <2>2, <3>1 DEF Unsent
    <3>2. CASE r \in Outbox(g)
      <4>1. Unsent(g, r[1]) => Unsent(g, r[1])'
        BY <2>2 DEF Unsent
      <4>2. PICK x \in Nat : x = Val(r[1]) /\ x <= made
        BY <1>2, <3>2, StateTypes DEF AllMade, Val
      <4>3. Stands(r[2], x) => Stands(r[2], x)'
        BY <1>4, <4>2, StandsKept
      <4>4. Val(r[1])' = x
        BY <2>2, <4>2 DEF Val
      <4>5. Stands(r[2], x)' => Stands(r[2], Val(r[1]))'
        BY <4>4 DEF Stands, Past, Live
      <4> QED BY <1>0, <3>2, <4>1, <4>2, <4>3, <4>5
    <3> QED BY <2>2, <3>1, <3>2
  <2> QED BY <1>1, <2>3
<1>5. ASSUME NEW h \in Hosts, NEW k \in Keys, Written(h, k) PROVE Queued'
  <2>1. /\ UNCHANGED <<past, gone, disk, dirty, batch>>
        /\ \A i \in Keys : Val(i)' = IF i = k THEN Cache(h, k) ELSE Val(i)
        /\ request[h] = NoRequest /\ request'[h].key = k
        /\ \A g \in Hosts \ {h} : request'[g] = request[g]
    BY <1>5 DEF Written, Val
  <2>2. ASSUME NEW g \in Hosts, NEW r \in Outbox(g), r[1] \notin Big, ~Unsent(g, r[1])'
        PROVE  Stands(r[2], Val(r[1])')
    <3>1. CASE r[1] = k
      <4>1. CASE g = h
        BY <1>0, <1>2, <2>1, <2>2, <3>1, <4>1
      <4>2. CASE g # h
        <5>1. ~Unsent(g, k)
          BY <2>1, <2>2, <3>1, <4>2 DEF Unsent
        <5>2. Stands(r[2], Val(k))
          BY <1>0, <2>2, <3>1, <5>1
        <5>3. Stands(r[2], Cache(h, k))
          BY <1>0, <1>5, <5>2, WriteBuilds
        <5> QED BY <2>1, <3>1, <5>3
      <4> QED BY <4>1, <4>2
    <3>2. CASE r[1] # k
      <4>1. ~Unsent(g, r[1])
        BY <2>1, <2>2, <3>2 DEF Unsent
      <4> QED BY <1>0, <1>2, <2>1, <2>2, <3>2, <4>1
    <3> QED BY <3>1, <3>2
  <2>3. \A g \in Hosts : Outbox(g)' = Outbox(g)
    BY <2>1 DEF Outbox
  <2>4. \A v, x : Stands(v, x) => Stands(v, x)'
    BY <2>1 DEF Stands, Past, Live
  <2>5. ASSUME NEW g \in Hosts, NEW r \in Outbox(g), r[1] \notin Big, ~Unsent(g, r[1])'
        PROVE  Stands(r[2], Val(r[1]))'
    <3>1. PICK x : x = Val(r[1])'
      OBVIOUS
    <3>2. Stands(r[2], x)'
      BY <2>2, <2>4, <2>5, <3>1
    <3> QED BY <3>1, <3>2 DEF Stands, Past, Live
  <2> QED BY <1>1, <2>3, <2>5
<1>6. ASSUME NEW h \in Hosts, NEW k \in Keys, Skipped(h, k) PROVE Queued'
  <2>0. k \in Big \/ (~Live(Cache(h, k)) /\ LiveVersion(k) = 0)
    BY <1>6 DEF Skipped
  <2>1. /\ UNCHANGED <<remote, past, gone, dirty, request>>
        /\ \A g \in Hosts : Outbox(g)' = Outbox(g)
        /\ \A g \in Hosts : batch'[g] = IF g = h THEN batch[g] \ {k} ELSE batch[g]
    BY <1>6 DEF Skipped
  <2>2. ASSUME NEW g \in Hosts, NEW r \in Outbox(g), r[1] \notin Big PROVE At(g, r)'
    <3>1. CASE g = h /\ r[1] = k
      <4>1. ~Live(Cache(h, k)) /\ LiveVersion(k) = 0
        BY <2>0, <2>2, <3>1
      <4>2. ~Live(Val(k))
        <5>1. Val(k) # NoValue => Ver(k) > 0
          BY DEF Copies, Sound, Val, Ver
        <5>2. LiveVersion(k) = IF Live(Val(k)) THEN Ver(k) ELSE 0
          BY DEF LiveVersion, Val, Ver
        <5> QED BY <4>1, <5>1, <5>2, StateTypes DEF Live
      <4>3. Stands(r[2], Val(k))
        BY <1>0, <2>2, <3>1, <4>1, <4>2, StandsDead
      <4>4. Val(k)' = Val(k)
        BY <2>1 DEF Val
      <4> QED BY <2>1, <3>1, <4>3, <4>4 DEF Stands, Past, Live
    <3>2. CASE ~(g = h /\ r[1] = k)
      <4>1. Unsent(g, r[1]) => Unsent(g, r[1])'
        BY <2>1, <3>2 DEF Unsent
      <4> QED BY <1>3, <2>1, <4>1
    <3> QED BY <3>1, <3>2
  <2> QED BY <1>1, <2>1, <2>2
<1>7. ASSUME NEW h \in Hosts, Started(h) \/ Ended(h) PROVE Queued'
  <2>1. /\ UNCHANGED <<remote, past, gone>>
        /\ \A g \in Hosts : Outbox(g)' = Outbox(g)
        /\ \A g \in Hosts \ {h} : /\ dirty'[g] = dirty[g] /\ batch'[g] = batch[g]
                                  /\ request'[g] = request[g]
    BY <1>7 DEF Started, Ended, Outbox
  <2>2. Pending(h) = {}
    <3>1. CASE Started(h)
      BY <3>1 DEF Started, Books, TypeOK, Pending
    <3>2. CASE Ended(h)
      BY <1>0, <3>2 DEF Ended
    <3> QED BY <1>7, <3>1, <3>2
  <2>3. ASSUME NEW g \in Hosts, NEW r \in Outbox(g) PROVE At(g, r)'
    <3>1. Unsent(g, r[1]) => Unsent(g, r[1])'
      BY <2>1, <2>2 DEF Unsent, Pending
    <3> QED BY <1>3, <2>1, <3>1
  <2> QED BY <1>1, <2>1, <2>3
<1>8. ASSUME NEW h \in Hosts,
             (\E r \in Keys \X Values : Sent(h, r)) \/ Begun(h) \/ GivenUp(h) \/ Emptied(h)
      PROVE  Queued'
  <2>1. /\ UNCHANGED <<past, gone>> /\ remote'.rec = remote.rec
        /\ \A g \in Hosts : Outbox(g)' \subseteq Outbox(g)
    BY <1>8 DEF Sent, Begun, GivenUp, Emptied, Outbox
  <2>2. ASSUME NEW g \in Hosts, NEW i \in Keys, Unsent(g, i), Outbox(g)' # {}
        PROVE  Unsent(g, i)'
    BY <1>8, <2>2 DEF Sent, Begun, GivenUp, Emptied, Unsent, Pending
  <2> QED BY <1>1, <1>2, <1>3, <2>1, <2>2
<1>9. ASSUME NEW h \in Hosts, Learned(h) PROVE Queued'
  <2>1. /\ UNCHANGED <<remote, past, gone, dirty>>
        /\ \A g \in Hosts : /\ Outbox(g)' = Outbox(g)
                            /\ batch'[g] = IF g = h THEN batch[g] \ {request[h].key} ELSE batch[g]
                            /\ request'[g] = IF g = h THEN NoRequest ELSE request[g]
        /\ request[h] # NoRequest
    BY <1>9 DEF Learned
  <2>2. \A g \in Hosts, i \in Keys : Unsent(g, i) => Unsent(g, i)'
    BY <2>1 DEF Unsent
  <2> QED BY <1>1, <1>2, <1>3, <2>1, <2>2
<1>10. CASE Reaped \/ Quiet
  <2>1. /\ UNCHANGED <<past, gone, dirty, batch, request>> /\ remote'.rec = remote.rec
        /\ \A g \in Hosts : Outbox(g)' = Outbox(g)
    BY <1>10 DEF Reaped, Quiet, Outbox
  <2>2. \A g \in Hosts, i \in Keys : Unsent(g, i) => Unsent(g, i)'
    BY <2>1 DEF Unsent
  <2> QED BY <1>1, <1>2, <1>3, <2>1, <2>2
<1>11. ~WentBack
  BY <1>0 DEF WentBack
<1> QED
  BY <1>4, <1>5, <1>6, <1>7, <1>8, <1>9, <1>10, <1>11, Effects

\* Where nothing is deleted, what stands is built upon; and what a data
\* directory told is in the VTA it starts on, or pull refuses it.
LEMMA StandsIn ==
    ASSUME TypeOK, Pasts, Restored
    PROVE  gone = {} /\ \A v, x : Stands(v, x) <=> v \in Past(x)
<1>1. gone = {}
  BY DEF Restored, Never, Pasts
<1> QED BY <1>1 DEF Stands

LEMMA PullKeeps ==
    ASSUME TypeOK, Pasts, Copies, Books, Restored, HasTold(remote), ToldIsMirrored,
           NEW h \in plan.hosts, h \notin up, ~RolledBack(h), NEW i \in Keys \ Big,
           NEW v \in Told(h, i)
    PROVE  /\ v \in Past(Val(i)) /\ Live(Val(i))
           /\ Mirrored(h, i) > 0 /\ Ver(i) >= Mirrored(h, i)
<1>1. /\ h \in Hosts /\ i \in Keys /\ Mirrored(h, i) \in Nat
      /\ Ver(i) \in Nat /\ remote.counter \in Nat
  BY StateTypes, PlanAssumption DEF TypeOK
<1>2. gone = {} /\ remote.reaped = {}
  BY StandsIn DEF Copies, Sound, TypeOK, Remotes
<1>3. Mirrored(h, i) > 0
  BY DEF ToldIsMirrored
<1>4. /\ ~(Mirrored(h, i) > 0 /\ ~Listed(i) /\ ~Snapshot)
      /\ ~(Listed(i) /\ Ver(i) < Mirrored(h, i))
  BY <1>1 DEF RolledBack, Mirrored, Ver
<1>5. Listed(i)
  BY <1>2, <1>3, <1>4 DEF Snapshot
<1>6. Ver(i) >= Mirrored(h, i)
  BY <1>1, <1>4, <1>5
<1>7. v \in Past(Val(i))
  BY <1>6 DEF HasTold, Has, Val, Ver
<1>8. Live(Val(i))
  BY <1>2, <1>5 DEF Listed, Live, Val
<1> QED BY <1>3, <1>6, <1>7, <1>8

\* A data directory keeps what it reported, whatever it is pulled onto.
LEMMA RememberedStep ==
    /\ TypeOK /\ AllMade /\ Pasts /\ Copies /\ Books
    /\ ReportedStands /\ Queued /\ Remembered /\ HasTold(remote) /\ ToldIsMirrored
    /\ [Next]_vars
    => Remembered'
<1> SUFFICES ASSUME TypeOK, AllMade, Pasts, Copies, Books, ReportedStands, Queued,
                    Remembered, HasTold(remote), ToldIsMirrored, [Next]_vars,
                    Calm' \/ Restored'
             PROVE  Remembered'
  BY DEF Remembered
<1> DEFINE Kept(g, r) == r[1] \notin Big => Stands(r[2], Cache(g, r[1]))
<1>0. /\ Calm \/ Restored
      /\ \A g \in Hosts : \A r \in Outbox(g) \cup knows[g] : Kept(g, r)
  BY CalmBefore DEF Remembered
<1>1. (\A g \in Hosts : \A r \in Outbox(g)' \cup knows'[g] : Kept(g, r)') => Remembered'
  BY DEF Remembered
<1>2. \A g \in Hosts : \A r \in Outbox(g) \cup knows[g] : r[1] \in Keys /\ r[2] \in Values
  BY PairTypes
<1>3. ASSUME NEW g \in Hosts, NEW r \in Outbox(g) \cup knows[g], UNCHANGED <<past, gone>>,
             Cache(g, r[1])' = Cache(g, r[1])
      PROVE  Kept(g, r)'
  <2>1. Stands(r[2], Cache(g, r[1])) => Stands(r[2], Cache(g, r[1]))'
    BY <1>3 DEF Stands, Past, Live
  <2> QED BY <1>0, <2>1
<1>4. ASSUME NEW h \in Hosts, NEW k \in Keys, NEW deletes \in BOOLEAN, Changed(h, k, deletes)
      PROVE  Remembered'
  <2>1. PICK m : m = made + 1
    OBVIOUS
  <2>2. /\ UNCHANGED knows
        /\ \A g \in Hosts : Outbox(g)' = IF g = h THEN Outbox(g) \cup {<<k, m>>} ELSE Outbox(g)
        /\ \A g \in Hosts, i \in Keys :
               Cache(g, i)' = IF g = h /\ i = k THEN m ELSE Cache(g, i)
    BY <1>4, <2>1 DEF Changed
  <2>3. Stands(m, m)' /\ \A v : Stands(v, Cache(h, k)) => Stands(v, m)'
    BY <1>4, <2>1, StandsOn
  <2>4. ASSUME NEW g \in Hosts, NEW r \in Outbox(g)' \cup knows'[g] PROVE Kept(g, r)'
    <3>1. CASE g = h /\ r = <<k, m>>
      <4>1. Cache(g, r[1])' = m /\ r[2] = m
        BY <2>2, <3>1
      <4> QED BY <2>3, <4>1 DEF Stands, Past, Live
    <3>2. CASE r \in Outbox(g) \cup knows[g]
      <4>1. CASE g = h /\ r[1] = k
        <5>1. Cache(g, r[1])' = m
          BY <2>2, <4>1
        <5>2. r[1] \notin Big => Stands(r[2], m)'
          BY <1>0, <2>3, <3>2, <4>1
        <5> QED BY <5>1, <5>2 DEF Stands, Past, Live
      <4>2. CASE ~(g = h /\ r[1] = k)
        <5>1. PICK x \in Nat : x = Cache(g, r[1]) /\ x <= made
          BY <1>2, <3>2, StateTypes DEF AllMade
        <5>2. Cache(g, r[1])' = x
          BY <1>2, <2>2, <3>2, <4>2, <5>1
        <5>3. Stands(r[2], x) => Stands(r[2], x)'
          BY <1>4, <5>1, StandsKept
        <5>4. Stands(r[2], x)' => Stands(r[2], Cache(g, r[1]))'
          BY <5>2 DEF Stands, Past, Live
        <5> QED BY <1>0, <3>2, <5>1, <5>3, <5>4
      <4> QED BY <4>1, <4>2
    <3> QED BY <2>2, <3>1, <3>2
  <2> QED BY <1>1, <2>4
<1>5. ASSUME NEW h \in Hosts, NEW r \in Keys \X Values, Sent(h, r) PROVE Remembered'
  <2>1. /\ UNCHANGED <<past, gone>>
        /\ \A g \in Hosts, i \in Keys : Cache(g, i)' = Cache(g, i)
        /\ \A g \in Hosts : Outbox(g)' \cup knows'[g] \subseteq Outbox(g) \cup knows[g]
    BY <1>5 DEF Sent
  <2> QED BY <1>1, <1>2, <1>3, <2>1
<1>6. ASSUME NEW h \in Hosts, Started(h) PROVE Remembered'
  <2>1. /\ UNCHANGED <<remote, past, gone, knows>> /\ h \in plan.hosts /\ h \notin up
        /\ ~RolledBack(h)
        /\ \A g \in Hosts : Outbox(g)' = Outbox(g)
        /\ \A g \in Hosts, i \in Keys :
               Cache(g, i)' = IF g = h THEN Pulled(h, i) ELSE Cache(g, i)
    BY <1>6 DEF Started
  <2>2. ASSUME NEW r \in Outbox(h) \cup knows[h], r[1] \notin Big
        PROVE  Stands(r[2], Pulled(h, r[1]))
    <3>1. CASE Calm
      <4>1. ~Unsent(h, r[1])
        BY <1>2, <2>1, <2>2 DEF Books, Unsent, Pending
      <4>2. Stands(r[2], Val(r[1]))
        <5>1. CASE r \in Outbox(h)
          BY <2>2, <3>1, <4>1, <5>1 DEF Queued
        <5>2. CASE r \in knows[h]
          <6>1. r \in reported
            BY <5>2 DEF Pasts
          <6> QED BY <2>2, <3>1, <6>1 DEF ReportedStands, Calm, ReportsHeld, Val
        <5> QED BY <5>1, <5>2
      <4>3. Stands(r[2], Cache(h, r[1]))
        BY <1>0, <2>2
      <4> QED BY <4>2, <4>3 DEF Pulled, Val
    <3>2. CASE Restored
      <4>1. r[1] \in Keys \ Big /\ r[2] \in Values /\ r = <<r[1], r[2]>>
        BY <2>2, PairTypes
      <4>2. r[2] \in Told(h, r[1])
        BY <2>1, <2>2, <4>1 DEF Told, Books
      <4>3. r[2] \in Past(Val(r[1]))
        BY <2>1, <3>2, <4>1, <4>2, PullKeeps
      <4>4. Stands(r[2], Cache(h, r[1])) /\ Stands(r[2], Val(r[1]))
        BY <1>0, <2>2, <3>2, <4>3, StandsIn
      <4> QED BY <4>4 DEF Pulled, Val
    <3> QED BY <1>0, <3>1, <3>2
  <2>3. ASSUME NEW g \in Hosts, NEW r \in Outbox(g)' \cup knows'[g] PROVE Kept(g, r)'
    <3>1. r \in Outbox(g) \cup knows[g]
      BY <2>1
    <3>2. CASE g = h
      <4>1. Cache(g, r[1])' = Pulled(h, r[1])
        BY <1>2, <2>1, <3>1, <3>2
      <4>2. Stands(r[2], Pulled(h, r[1])) => Stands(r[2], Cache(g, r[1]))'
        BY <2>1, <4>1 DEF Stands, Past, Live
      <4> QED BY <2>2, <3>1, <3>2, <4>2
    <3>3. CASE g # h
      BY <1>2, <1>3, <2>1, <3>1, <3>3
    <3> QED BY <3>2, <3>3
  <2> QED BY <1>1, <2>3
<1>7. ASSUME NEW h \in Hosts, Emptied(h) PROVE Remembered'
  <2>1. /\ UNCHANGED <<past, gone>>
        /\ \A g \in Hosts \ {h}, i \in Keys : Cache(g, i)' = Cache(g, i)
        /\ \A g \in Hosts : /\ Outbox(g)' = IF g = h THEN {} ELSE Outbox(g)
                            /\ knows'[g] = IF g = h THEN {} ELSE knows[g]
    BY <1>7 DEF Emptied
  <2> QED BY <1>1, <1>2, <1>3, <2>1
<1>8. ASSUME NEW h \in Hosts,
             \/ \E k \in Keys : Written(h, k) \/ Skipped(h, k)
             \/ Begun(h) \/ GivenUp(h) \/ Learned(h) \/ Ended(h)
      PROVE  Remembered'
  <2>1. /\ UNCHANGED <<past, gone, knows>>
        /\ \A g \in Hosts, i \in Keys : Cache(g, i)' = Cache(g, i)
        /\ \A g \in Hosts : Outbox(g)' = Outbox(g)
    BY <1>8 DEF Written, Skipped, Begun, GivenUp, Learned, Ended, Cache, Outbox
  <2> QED BY <1>1, <1>2, <1>3, <2>1
<1>9. CASE Reaped \/ WentBack \/ Quiet
  <2>1. /\ UNCHANGED <<past, gone, knows>>
        /\ \A g \in Hosts, i \in Keys : Cache(g, i)' = Cache(g, i)
        /\ \A g \in Hosts : Outbox(g)' = Outbox(g)
    BY <1>9 DEF Reaped, WentBack, Quiet, Cache, Outbox
  <2> QED BY <1>1, <1>2, <1>3, <2>1
<1> QED
  BY <1>4, <1>5, <1>6, <1>7, <1>8, <1>9, Effects

\* What a bridge tells of a record is in every copy of the VTA that is not older
\* than what it mirrored of it.
LEMMA ToldStep ==
    /\ TypeOK /\ AllMade /\ Pasts /\ Copies /\ Books /\ Remembered
    /\ HasTold(remote) /\ HasTold(backup) /\ ToldIsMirrored /\ [Next]_vars
    => HasTold(remote)' /\ HasTold(backup)' /\ ToldIsMirrored'
<1> SUFFICES ASSUME TypeOK, AllMade, Pasts, Copies, Books, Remembered,
                    HasTold(remote), HasTold(backup), ToldIsMirrored, [Next]_vars, Restored'
             PROVE  HasTold(remote)' /\ HasTold(backup)' /\ ToldIsMirrored'
  BY DEF HasTold, ToldIsMirrored
<1> DEFINE New(g, i) == Has(Ver(i), Val(i), g, i)
           Old(g, i) == Has(backup.rec[i].version, backup.rec[i].value, g, i)
           Put(g, i) == Told(g, i) # {} => Mirrored(g, i) > 0
<1>0. /\ Restored /\ count'["crash"] = 0 /\ plan' = plan /\ plan.hosts \subseteq Hosts
      /\ \A g \in plan.hosts, i \in Keys \ Big : New(g, i) /\ Old(g, i) /\ Put(g, i)
      /\ \A g \in plan.hosts : \A h \in up : g = h
  <2>1. Restored /\ count'["crash"] = 0 /\ plan' = plan
    BY CalmBefore, AloneBefore
  <2>2. plan.hosts \subseteq Hosts
    BY PlanAssumption DEF TypeOK
  <2>3. \A g \in plan.hosts, i \in Keys \ Big : New(g, i) /\ Old(g, i) /\ Put(g, i)
    BY <2>1 DEF HasTold, ToldIsMirrored, Val, Ver
  <2>4. \A g \in plan.hosts : \A h \in up : g = h
    BY <2>1 DEF Restored, Alone, TypeOK
  <2> QED BY <2>1, <2>2, <2>3, <2>4
<1>1. (\A g \in plan.hosts, i \in Keys \ Big : New(g, i)' /\ Old(g, i)' /\ Put(g, i)')
          => HasTold(remote)' /\ HasTold(backup)' /\ ToldIsMirrored'
  BY <1>0 DEF HasTold, ToldIsMirrored, Val, Ver
<1>2. gone = {} /\ \A v, x : Stands(v, x) <=> v \in Past(x)
  BY <1>0, StandsIn
<1>3. /\ \A i \in Keys : Val(i) \in Nat /\ Val(i) <= made /\ Ver(i) \in Nat
      /\ \A i \in Keys : /\ backup.rec[i].value \in Nat /\ backup.rec[i].value <= made
                         /\ backup.rec[i].version \in Nat
      /\ \A g \in Hosts, i \in Keys : Cache(g, i) \in Nat /\ Mirrored(g, i) \in Nat
      /\ \A g \in Hosts : request[g] # NoRequest => request[g].version \in Nat
      /\ remote.counter \in Nat /\ backup.counter \in Nat
  BY StateTypes DEF AllMade, Val, TypeOK
\* A copy still has what was told, if no more is.
<1>4. ASSUME NEW g \in plan.hosts, NEW i \in Keys \ Big, NEW n, NEW x,
             Has(n, x, g, i), Past(x)' = Past(x), Mirrored(g, i)' = Mirrored(g, i),
             Told(g, i)' \subseteq Told(g, i),
             \/ request'[g] = NoRequest
             \/ request'[g] = request[g] /\ Telling(g, i)' \subseteq Telling(g, i)
      PROVE  Has(n, x, g, i)'
  BY <1>4 DEF Has
<1>5. ASSUME NEW g \in plan.hosts, NEW i \in Keys \ Big,
             UNCHANGED backup, remote'.rec[i] = remote.rec[i],
             \A x \in Nat : x <= made => Past(x)' = Past(x),
             Mirrored(g, i)' = Mirrored(g, i),
             Told(g, i)' \subseteq Told(g, i),
             \/ request'[g] = NoRequest
             \/ request'[g] = request[g] /\ Telling(g, i)' \subseteq Telling(g, i)
      PROVE  New(g, i)' /\ Old(g, i)' /\ Put(g, i)'
  <2>1. PICK n, x, o, y : /\ n = Ver(i) /\ x = Val(i)
                          /\ o = backup.rec[i].version /\ y = backup.rec[i].value
    OBVIOUS
  <2>2. Has(n, x, g, i)' /\ Has(o, y, g, i)'
    BY <1>0, <1>3, <1>4, <1>5, <2>1
  <2>3. /\ Ver(i)' = n /\ Val(i)' = x
        /\ backup'.rec[i].version = o /\ backup'.rec[i].value = y
    BY <1>5, <2>1 DEF Val, Ver
  <2>4. New(g, i)' /\ Old(g, i)'
    BY <2>2, <2>3 DEF Has, Past
  <2>5. Put(g, i)'
    BY <1>0, <1>5
  <2> QED BY <2>4, <2>5
<1>6. ASSUME NEW h \in Hosts, NEW k \in Keys, NEW deletes \in BOOLEAN, Changed(h, k, deletes)
      PROVE  HasTold(remote)' /\ HasTold(backup)' /\ ToldIsMirrored'
  <2>1. /\ UNCHANGED <<remote, backup, batch, request, knows>>
        /\ \A g \in Hosts :
               /\ Outbox(g)' = IF g = h THEN Outbox(g) \cup {<<k, made + 1>>} ELSE Outbox(g)
               /\ dirty'[g] = IF g = h THEN dirty[g] \cup {k} ELSE dirty[g]
        /\ \A g \in Hosts, i \in Keys : Mirrored(g, i)' = Mirrored(g, i)
    BY <1>6 DEF Changed
  <2>2. \A g \in Hosts, i \in Keys : Told(g, i)' \subseteq Told(g, i)
                                     /\ Telling(g, i)' \subseteq Telling(g, i)
    BY <2>1 DEF Told, Telling, Pending
  <2>3. \A x \in Nat : x <= made => Past(x)' = Past(x)
    BY <1>6, PastKept
  <2> QED BY <1>0, <1>1, <1>5, <2>1, <2>2, <2>3
<1>7. ASSUME NEW h \in Hosts, NEW k \in Keys, Written(h, k)
      PROVE  HasTold(remote)' /\ HasTold(backup)' /\ ToldIsMirrored'
  <2>1. /\ UNCHANGED <<backup, disk, dirty, batch, past, knows>>
        /\ h \in up /\ k \in batch[h] /\ request[h] = NoRequest
        /\ \A i \in Keys \ {k} : remote'.rec[i].value = remote.rec[i].value
                                 /\ remote'.rec[i].version = remote.rec[i].version
        /\ remote'.rec[k].value = Cache(h, k)
        /\ request'[h].key = k /\ request'[h].version = remote.counter + 1
    BY <1>7 DEF Written
  <2>2. /\ \A g \in Hosts, i \in Keys : /\ Told(g, i)' = Told(g, i)
                                        /\ Telling(g, i)' = Telling(g, i)
                                        /\ Mirrored(g, i)' = Mirrored(g, i)
        /\ \A x : Past(x)' = Past(x)
    BY <2>1 DEF Told, Telling, Mirrored, Outbox, Pending, Past
  <2>3. ASSUME NEW g \in plan.hosts, NEW i \in Keys \ Big PROVE New(g, i)'
    <3>1. g = h
      BY <1>0, <2>1
    <3>2. CASE i = k
      <4>1. Told(h, k) \cup Telling(h, k) \subseteq Past(Cache(h, k))
        <5>1. ASSUME NEW v, v \in Told(h, k) \cup Telling(h, k) PROVE v \in Past(Cache(h, k))
          <6>1. <<k, v>> \in Outbox(h) \cup knows[h]
            BY <5>1 DEF Told, Telling
          <6>2. Stands(v, Cache(h, k))
            BY <1>0, <3>2, <6>1 DEF Remembered
          <6> QED BY <1>2, <6>2
        <5> QED BY <5>1
      <4>2. PICK c : c = Cache(h, k)
        OBVIOUS
      <4>3. Val(i)' = c /\ Past(c)' = Past(c)
        BY <2>1, <2>2, <3>2, <4>2 DEF Val
      <4>4. Past(Val(i))' = Past(c)
        BY <4>3 DEF Past
      <4> QED BY <2>2, <3>1, <3>2, <4>1, <4>2, <4>4 DEF Has
    <3>3. CASE i # k
      <4>1. Val(i)' = Val(i) /\ Ver(i)' = Ver(i) /\ Past(Val(i))' = Past(Val(i))
        BY <2>1, <3>3 DEF Val, Ver, Past
      <4>2. Ver(i) >= Mirrored(g, i) => Told(g, i) \subseteq Past(Val(i))
        BY <1>0 DEF Has
      <4> QED BY <1>0, <2>1, <2>2, <3>1, <3>3, <4>1, <4>2 DEF Has
    <3> QED BY <3>2, <3>3
  <2>4. ASSUME NEW g \in plan.hosts, NEW i \in Keys \ Big PROVE Old(g, i)'
    <3>1. g = h
      BY <1>0, <2>1
    <3>2. PICK o, y : o = backup.rec[i].version /\ y = backup.rec[i].value
      OBVIOUS
    <3>3. o >= Mirrored(g, i) => Told(g, i) \subseteq Past(y)
      BY <1>0, <3>2 DEF Has
    <3>4. ~(o >= request'[h].version)
      <4>1. o <= backup.counter /\ backup.counter <= remote.counter
        BY <3>2 DEF Copies, Sound
      <4> QED BY <1>3, <2>1, <3>2, <4>1
    <3>5. Has(o, y, g, i)'
      BY <1>0, <2>2, <3>1, <3>3, <3>4 DEF Has
    <3> QED BY <2>1, <3>2, <3>5 DEF Has, Past
  <2>5. \A g \in plan.hosts, i \in Keys \ Big : Put(g, i)'
    BY <1>0, <2>2
  <2> QED BY <1>1, <2>3, <2>4, <2>5
<1>8. ASSUME NEW h \in Hosts, NEW k \in Keys, Skipped(h, k)
      PROVE  HasTold(remote)' /\ HasTold(backup)' /\ ToldIsMirrored'
  <2>1. /\ UNCHANGED <<remote, backup, dirty, request, past, knows>>
        /\ h \in up /\ k \in batch[h] /\ request[h] = NoRequest
        /\ \A g \in Hosts : /\ Outbox(g)' = Outbox(g)
                            /\ batch'[g] = IF g = h THEN batch[g] \ {k} ELSE batch[g]
    BY <1>8 DEF Skipped
  <2>2. k \in Big /\ \A g \in Hosts, i \in Keys : Mirrored(g, i)' = Mirrored(g, i)
    <3>1. Cache(h, k) # NoValue
      BY <2>1 DEF Books, Pending
    <3>2. Live(Cache(h, k))
      BY <1>2, <3>1 DEF Live
    <3> QED BY <1>8, <3>2 DEF Skipped
  <2>3. \A g \in Hosts, i \in Keys \ Big : Told(g, i)' = Told(g, i)
                                           /\ Telling(g, i)' = Telling(g, i)
    BY <2>1, <2>2 DEF Told, Telling, Pending
  <2>4. \A x : Past(x)' = Past(x)
    BY <2>1 DEF Past
  <2> QED BY <1>0, <1>1, <1>5, <2>1, <2>2, <2>3, <2>4
<1>9. ASSUME NEW h \in Hosts, Learned(h)
      PROVE  HasTold(remote)' /\ HasTold(backup)' /\ ToldIsMirrored'
  <2>0. PICK k : k = request[h].key
    OBVIOUS
  <2>1. /\ UNCHANGED <<remote, backup, dirty, past, knows>>
        /\ h \in up /\ request[h] # NoRequest /\ k \in Keys /\ request[h].key = k
        /\ \A g \in Hosts, i \in Keys :
               Mirrored(g, i)' = IF g = h /\ i = k THEN Answer(h) ELSE Mirrored(g, i)
        /\ \A g \in Hosts : /\ Outbox(g)' = Outbox(g)
                            /\ batch'[g] = IF g = h THEN batch[g] \ {k} ELSE batch[g]
                            /\ request'[g] = IF g = h THEN NoRequest ELSE request[g]
    BY <1>9, <2>0 DEF Learned
  <2>2. Answer(h) = request[h].version /\ request[h].version > 0
    <3>1. Never({"deletion"})
      BY <1>0 DEF Restored, Never
    <3>2. request[h].live /\ request[h].version > 0
      BY <2>1, <3>1 DEF Books
    <3> QED BY <3>2 DEF Answer
  <2>3. \A x : Past(x)' = Past(x)
    BY <2>1 DEF Past
  <2>4. Told(h, k)' \subseteq Telling(h, k)
    BY <2>1 DEF Told, Telling, Pending
  <2>5. \A g \in Hosts, i \in Keys : ~(g = h /\ i = k) => Told(g, i)' = Told(g, i)
    BY <2>1 DEF Told, Pending
  <2>6. ASSUME NEW g \in plan.hosts, NEW i \in Keys \ Big PROVE New(g, i)' /\ Old(g, i)' /\ Put(g, i)'
    <3>1. g = h
      BY <1>0, <2>1
    <3>2. CASE i = k
      <4>1. PICK n, x, o, y : /\ n = Ver(i) /\ x = Val(i)
                              /\ o = backup.rec[i].version /\ y = backup.rec[i].value
        OBVIOUS
      <4>2. Has(n, x, g, i) /\ Has(o, y, g, i)
        BY <1>0, <4>1
      <4>3. /\ Mirrored(g, i)' = request[g].version /\ request'[g] = NoRequest
            /\ request[g] # NoRequest /\ request[g].key = i
            /\ Told(g, i)' \subseteq Telling(g, i)
        BY <1>0, <2>1, <2>2, <2>4, <3>1, <3>2
      <4>4. Has(n, x, g, i)' /\ Has(o, y, g, i)'
        BY <2>3, <4>2, <4>3 DEF Has
      <4>5. /\ Ver(i)' = n /\ Val(i)' = x
            /\ backup'.rec[i].version = o /\ backup'.rec[i].value = y
        BY <2>1, <4>1 DEF Val, Ver
      <4>6. New(g, i)' /\ Old(g, i)'
        BY <4>4, <4>5 DEF Has, Past
      <4> QED BY <2>2, <3>1, <4>3, <4>6
    <3>3. CASE i # k
      <4>1. Told(g, i)' = Told(g, i) /\ Mirrored(g, i)' = Mirrored(g, i) /\ request'[g] = NoRequest
        BY <1>0, <2>1, <2>5, <3>1, <3>3
      <4> QED BY <1>5, <2>1, <2>3, <4>1
    <3> QED BY <3>2, <3>3
  <2> QED BY <1>1, <2>6
<1>10. ASSUME NEW h \in Hosts, Started(h)
       PROVE  HasTold(remote)' /\ HasTold(backup)' /\ ToldIsMirrored'
  <2>1. /\ UNCHANGED <<remote, backup, batch, request, past, knows>>
        /\ h \in plan.hosts /\ h \notin up /\ ~RolledBack(h)
        /\ \A i \in Keys : Mirrored(h, i)' = LiveVersion(i)
        /\ \A g \in Hosts : /\ Outbox(g)' = Outbox(g)
                            /\ g # h => dirty'[g] = dirty[g]
    BY <1>10 DEF Started
  <2>2. /\ \A g \in plan.hosts : g = h
        /\ request'[h] = NoRequest
        /\ \A i \in Keys : i \notin Pending(h)
    BY <1>0, <2>1 DEF Restored, Alone, TypeOK, Books
  <2>3. \A x : Past(x)' = Past(x)
    BY <2>1 DEF Past
  <2>4. \A i \in Keys : Told(h, i)' \subseteq Told(h, i)
    BY <2>1, <2>2 DEF Told
  <2>5. ASSUME NEW i \in Keys \ Big, Told(h, i) # {}
        PROVE  Mirrored(h, i)' > 0 /\ Mirrored(h, i)' >= Mirrored(h, i)
    <3>1. PICK v \in Told(h, i) : TRUE
      BY <2>5
    <3>2. Live(Val(i)) /\ Mirrored(h, i) > 0 /\ Ver(i) >= Mirrored(h, i)
      BY <1>0, <2>1, <3>1, PullKeeps
    <3>3. Mirrored(h, i)' = Ver(i)
      BY <2>1, <3>2 DEF LiveVersion, Val, Ver
    <3> QED BY <1>0, <1>3, <2>1, <3>2, <3>3
  <2>6. ASSUME NEW i \in Keys \ Big PROVE New(h, i)' /\ Old(h, i)' /\ Put(h, i)'
    <3>1. CASE Told(h, i) = {}
      BY <2>2, <2>4, <3>1 DEF Has
    <3>2. CASE Told(h, i) # {}
      <4>1. PICK n, x, o, y : /\ n = Ver(i) /\ x = Val(i)
                              /\ o = backup.rec[i].version /\ y = backup.rec[i].value
        OBVIOUS
      <4>2. Has(n, x, h, i) /\ Has(o, y, h, i)
        BY <1>0, <2>1, <4>1
      <4>3. Mirrored(h, i)' >= Mirrored(h, i) /\ Mirrored(h, i)' \in Nat /\ Mirrored(h, i) \in Nat
        BY <1>0, <1>3, <2>1, <2>5, <3>2, LiveVersionType
      <4>4. Has(n, x, h, i)' /\ Has(o, y, h, i)'
        BY <1>3, <2>2, <2>3, <2>4, <4>1, <4>2, <4>3 DEF Has
      <4>5. /\ Ver(i)' = n /\ Val(i)' = x
            /\ backup'.rec[i].version = o /\ backup'.rec[i].value = y
        BY <2>1, <4>1 DEF Val, Ver
      <4>6. New(h, i)' /\ Old(h, i)'
        BY <4>4, <4>5 DEF Has, Past
      <4> QED BY <2>5, <3>2, <4>6
    <3> QED BY <3>1, <3>2
  <2> QED BY <1>1, <2>2, <2>6
<1>11. ASSUME NEW h \in Hosts, Emptied(h)
       PROVE  HasTold(remote)' /\ HasTold(backup)' /\ ToldIsMirrored'
  <2>1. /\ UNCHANGED <<remote, backup, past>>
        /\ \A g \in Hosts : /\ Outbox(g)' = IF g = h THEN {} ELSE Outbox(g)
                            /\ knows'[g] = IF g = h THEN {} ELSE knows[g]
                            /\ dirty'[g] = IF g = h THEN {} ELSE dirty[g]
                            /\ batch'[g] = IF g = h THEN {} ELSE batch[g]
                            /\ request'[g] = IF g = h THEN NoRequest ELSE request[g]
        /\ \A g \in Hosts, i \in Keys : Mirrored(g, i)' = IF g = h THEN 0 ELSE Mirrored(g, i)
    BY <1>11 DEF Emptied
  <2>2. \A i \in Keys : Told(h, i)' = {}
    BY <2>1 DEF Told
  <2>3. ASSUME NEW g \in plan.hosts, NEW i \in Keys \ Big PROVE New(g, i)' /\ Old(g, i)' /\ Put(g, i)'
    <3>1. CASE g = h
      BY <1>0, <2>1, <2>2, <3>1 DEF Has
    <3>2. CASE g # h
      <4>1. Told(g, i)' = Told(g, i) /\ Telling(g, i)' = Telling(g, i)
        BY <1>0, <2>1, <3>2 DEF Told, Telling, Pending
      <4>2. \A x : Past(x)' = Past(x)
        BY <2>1 DEF Past
      <4> QED BY <1>0, <1>5, <2>1, <3>2, <4>1, <4>2
    <3> QED BY <3>1, <3>2
  <2> QED BY <1>1, <2>3
<1>12. ASSUME NEW h \in Hosts,
              (\E r \in Keys \X Values : Sent(h, r)) \/ Begun(h) \/ GivenUp(h) \/ Ended(h)
       PROVE  HasTold(remote)' /\ HasTold(backup)' /\ ToldIsMirrored'
  <2>1. /\ UNCHANGED <<backup, past>> /\ remote'.rec = remote.rec
        /\ \A g \in Hosts, i \in Keys : Mirrored(g, i)' = Mirrored(g, i)
    BY <1>12 DEF Sent, Begun, GivenUp, Ended, Mirrored
  <2>2. ASSUME NEW g \in plan.hosts, NEW i \in Keys \ Big
        PROVE  /\ Told(g, i)' \subseteq Told(g, i)
               /\ \/ request'[g] = NoRequest
                  \/ request'[g] = request[g] /\ Telling(g, i)' \subseteq Telling(g, i)
    <3>1. CASE \E r \in Keys \X Values : Sent(h, r)
      <4>1. PICK r \in Keys \X Values : Sent(h, r)
        BY <3>1
      <4>2. /\ g = h /\ r \in Outbox(g) /\ Pending(g) = {}
            /\ Outbox(g)' = Outbox(g) \ {r} /\ knows'[g] = knows[g] \cup {r}
            /\ UNCHANGED <<dirty, batch, request>>
        BY <1>0, <4>1 DEF Sent
      <4>3. Told(g, i)' \subseteq Told(g, i)
        BY <4>2 DEF Told, Pending
      <4>4. Telling(g, i)' \subseteq Telling(g, i)
        BY <4>2 DEF Telling, Pending
      <4> QED BY <4>2, <4>3, <4>4
    <3>2. CASE Begun(h)
      <4>1. g = h /\ request'[g] = NoRequest
        BY <1>0, <3>2 DEF Begun
      <4> QED BY <1>0, <3>2, <4>1 DEF Begun, Told, Pending, Outbox
    <3>3. CASE GivenUp(h)
      <4>1. g = h /\ request'[g] = NoRequest
        BY <1>0, <3>3 DEF GivenUp
      <4> QED BY <1>0, <3>3, <4>1 DEF GivenUp, Told, Pending, Outbox
    <3>4. CASE Ended(h)
      <4>1. Pending(h) = {} /\ UNCHANGED <<disk, knows>>
        BY <1>0, <3>4 DEF Ended
      <4>2. CASE g = h
        BY <1>0, <3>4, <4>1, <4>2 DEF Ended, Told, Pending, Outbox
      <4>3. CASE g # h
        BY <1>0, <3>4, <4>1, <4>3 DEF Ended, Told, Telling, Pending, Outbox
      <4> QED BY <4>2, <4>3
    <3> QED BY <1>12, <3>1, <3>2, <3>3, <3>4
  <2>3. \A x : Past(x)' = Past(x)
    BY <2>1 DEF Past
  <2> QED BY <1>0, <1>1, <1>5, <2>1, <2>2, <2>3
<1>13. CASE Reaped \/ WentBack \/ Quiet
  <2>1. UNCHANGED <<disk, dirty, batch, request, past, knows>>
    BY <1>13 DEF Reaped, WentBack, Quiet
  <2>2. /\ \A g \in Hosts, i \in Keys : /\ Told(g, i)' = Told(g, i)
                                        /\ Telling(g, i)' = Telling(g, i)
                                        /\ Mirrored(g, i)' = Mirrored(g, i)
        /\ \A x : Past(x)' = Past(x)
    BY <2>1 DEF Told, Telling, Mirrored, Outbox, Pending, Past
  <2>3. \A n, x : \A g \in plan.hosts, i \in Keys : Has(n, x, g, i) => Has(n, x, g, i)'
    BY <1>0, <2>1, <2>2 DEF Has
  <2>4. /\ remote'.rec = remote.rec \/ remote'.rec = backup.rec
        /\ backup'.rec = backup.rec \/ backup'.rec = remote.rec
    BY <1>13 DEF Reaped, WentBack, Quiet
  <2>5. ASSUME NEW g \in plan.hosts, NEW i \in Keys \ Big PROVE New(g, i)' /\ Old(g, i)' /\ Put(g, i)'
    <3>1. PICK n, x, o, y : /\ n = Ver(i) /\ x = Val(i)
                            /\ o = backup.rec[i].version /\ y = backup.rec[i].value
      OBVIOUS
    <3>2. Has(n, x, g, i)' /\ Has(o, y, g, i)'
      BY <1>0, <2>3, <3>1
    <3>3. /\ (Ver(i)' = n /\ Val(i)' = x) \/ (Ver(i)' = o /\ Val(i)' = y)
          /\ \/ backup'.rec[i].version = o /\ backup'.rec[i].value = y
             \/ backup'.rec[i].version = n /\ backup'.rec[i].value = x
      BY <2>4, <3>1 DEF Val, Ver
    <3>4. New(g, i)' /\ Old(g, i)'
      BY <3>2, <3>3 DEF Has, Past
    <3> QED BY <1>0, <2>2, <3>4
  <2> QED BY <1>1, <2>5
<1> QED
  BY <1>6, <1>7, <1>8, <1>9, <1>10, <1>11, <1>12, <1>13, Effects

\* At the start nothing was said, and the VTA holds nothing.
LEMMA InitSaid == Init => KnownInv /\ SaidInv /\ ToldInv
<1> SUFFICES ASSUME Init PROVE KnownInv /\ SaidInv /\ ToldInv
  OBVIOUS
<1>1. TypeOK /\ AllMade
  BY InitTypes, InitAlone DEF AloneInv
<1>2. /\ \A i \in Keys : /\ Val(i) = NoValue /\ Ver(i) = 0
                         /\ backup.rec[i].value = NoValue /\ backup.rec[i].version = 0
      /\ remote.counter = 0 /\ backup.counter = 0 /\ remote.reaped = {} /\ backup.reaped = {}
      /\ \A h \in Hosts : /\ Outbox(h) = {} /\ knows[h] = {} /\ h \notin up
                          /\ dirty[h] = {} /\ batch[h] = {} /\ request[h] = NoRequest
      /\ \A h \in Hosts, i \in Keys : Cache(h, i) = NoValue
      /\ reported = {} /\ gone = {} /\ made = 0 /\ past = [v \in Values |-> {}]
  BY DEF Init, Fresh, Empty, Val, Ver, Outbox, Cache
<1>3. Pasts
  BY <1>2, BoundAssumption DEF Pasts, Values
<1>4. Apart
  <2>1. \A i \in Keys : \A x \in Around(i) : x = NoValue
    BY <1>2 DEF Around
  <2> QED BY <2>1 DEF Apart, Past
<1>5. Copies
  BY <1>2 DEF Copies, Sound, Val, Ver
<1>6. Books
  BY <1>2 DEF Books, Pending
<1>7. Basis /\ Built
  <2>1. plan.hosts \subseteq Hosts
    BY <1>1, PlanAssumption DEF TypeOK
  <2> QED BY <1>2, <2>1 DEF Basis, Built, Live
<1>8. ReportedStands /\ Queued /\ Remembered
  BY <1>2 DEF ReportedStands, ReportsHeld, Queued, Remembered
<1>9. HasTold(remote) /\ HasTold(backup) /\ ToldIsMirrored
  <2>1. plan.hosts \subseteq Hosts
    BY <1>1, PlanAssumption DEF TypeOK
  <2>2. \A h \in plan.hosts, i \in Keys : Told(h, i) = {}
    BY <1>2, <2>1 DEF Told
  <2> QED BY <1>2, <2>1, <2>2 DEF HasTold, Has, ToldIsMirrored
<1> QED BY <1>1, <1>3, <1>4, <1>5, <1>6, <1>7, <1>8, <1>9 DEF KnownInv, SaidInv, ToldInv

\* Whatever the hosts, the records and the bounds, what a bridge said is undone
\* neither in the VTA nor in its own memory of it: send_outbox flushes the
\* mirror first, Mirror::write writes only over the version it last saw, and
\* pull refuses a VTA gone back in time.
THEOREM NothingIsUndone == Spec => []NothingUndone
<1>1. Init => KnownInv /\ SaidInv /\ ToldInv
  BY InitSaid
<1>2. KnownInv /\ SaidInv /\ ToldInv /\ [Next]_vars => (KnownInv /\ SaidInv /\ ToldInv)'
  <2> SUFFICES ASSUME KnownInv, SaidInv, ToldInv, [Next]_vars
               PROVE  KnownInv' /\ SaidInv' /\ ToldInv'
    OBVIOUS
  <2>1. KnownInv'
    BY TypeStep, MadeStep, PastsStep, ApartStep, CopiesStep, BooksStep, BasisStep, BuiltStep
    DEF KnownInv
  <2>2. SaidInv'
    BY ReportedStep, QueuedStep, RememberedStep DEF KnownInv, SaidInv, ToldInv
  <2>3. ToldInv'
    BY ToldStep DEF KnownInv, SaidInv, ToldInv
  <2> QED BY <2>1, <2>2, <2>3
<1>3. KnownInv /\ SaidInv /\ ToldInv => NothingUndone
  <2> SUFFICES ASSUME KnownInv, SaidInv, ToldInv PROVE ReportedStands /\ NoAmnesia
    BY DEF NothingUndone
  <2>1. up \subseteq Hosts
    BY PlanAssumption DEF KnownInv, TypeOK
  <2>2. ASSUME Never({"crash"}),
               \/ Alone /\ (Never({"restore"}) \/ Never({"deletion"}))
               \/ Never({"restore", "deletion"})
        PROVE  Calm \/ Restored
    BY <2>2 DEF Calm, Restored, Never
  <2>3. NoAmnesia
    BY <2>1, <2>2 DEF SaidInv, Remembered, NoAmnesia
  <2> QED BY <2>3 DEF SaidInv
<1> QED BY <1>1, <1>2, <1>3, PTL DEF Spec
=============================================================================
