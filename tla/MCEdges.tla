------------------------------- MODULE MCEdges -------------------------------
(* The bridge's edges, on small instances: a behaviour is of one part.      *)
(* `hooks' is of Webhooks, `sign' of Resign, `keys' of KeyRotation, `mirror'*)
(* of Mirror and `lease' of StateLease.                                     *)
EXTENDS LeaseTimes

CONSTANTS
  o1, o2, x, y, i1, i2, h1, h2, k1, k2,     \* what the instances below are made of
  Parts,                                    \* the parts that behaviours are of
  Owners, Names, Ids, Nothing, HookPlans,   \* of Webhooks
  MaxHeads, MaxSeconds, MaxPushes, Permits, Concurrent, SignPlans,   \* of Resign
  MaxKeys, MaxTicks, Horizon, KeyPlans,     \* of KeyRotation
  Hosts, Records, Big, NoHost, MaxValues, MirrorPlans,   \* of Mirror
  LeaseEnd, LeasePlans                      \* of StateLease

VARIABLES
  part,
  forge, posts, seen, tasks, store, jobs, told, notes,
  branch, ledger, runs, vouched,
  world, kept, run, conn, past,
  remote, backup, lease, disk, up, versions, dirty, batch, request, stopped, made, gone,
  reported, knows,
  now, vta, proc, req,
  plan, count

(* Deliveries are of two parts, and so is a history of what was.            *)
hooks == <<forge, seen, tasks, store, jobs, told, notes>>
signing == <<branch, ledger, runs, vouched>>
rotating == <<world, kept, run, conn>>
mirroring == <<remote, backup, lease, disk, up, versions, dirty, batch, request, stopped,
               made, gone, reported, knows>>
leasing == <<now, vta, proc, req>>
all == <<part, hooks, posts, signing, rotating, past, mirroring, leasing, plan, count>>

(* How often each move happens: what `some' says, and else never.           *)
Only(moves, some) == [m \in moves |-> IF m \in DOMAIN some THEN some[m] ELSE 0]

HookMoves == {"stranger", "rename", "transfer", "delete", "edit", "claim",
              "create", "adopt", "roles", "lose", "again", "crash", "stall"}
HookPlan(given, names, some) ==
  [moves |-> Only(HookMoves, some), names |-> names, given |-> given]
AtX == {<<i1, <<o1, x>>>>}
SomeHookPlans == {
  HookPlan({}, {x}, [create |-> 1, stranger |-> 1, stall |-> 1, delete |-> 1]),
  HookPlan(AtX, {x}, [transfer |-> 2, edit |-> 1, delete |-> 1]),
  HookPlan(AtX, {x}, [transfer |-> 2, adopt |-> 1, lose |-> 1]),
  HookPlan(AtX, {x, y}, [claim |-> 1, transfer |-> 1]),
  HookPlan(AtX, {x, y}, [delete |-> 1, rename |-> 2, roles |-> 1, crash |-> 1, again |-> 1]),
  HookPlan(AtX, {x, y}, [delete |-> 1, rename |-> 1, create |-> 1]),
  HookPlan(AtX \cup {<<i2, <<o2, x>>>>}, {x}, [claim |-> 1, edit |-> 1])}
Hooks == INSTANCE Webhooks WITH Plans <- HookPlans

SignMoves == {"writer", "dependabot", "delete", "lose", "forget", "crash", "fail", "lag"}
SomeSignPlans == {Only(SignMoves, s) : s \in {
  [dependabot |-> 2, writer |-> 1],
  [dependabot |-> 1, writer |-> 1, lose |-> 1],
  [dependabot |-> 1, writer |-> 1, delete |-> 1],
  [dependabot |-> 1, crash |-> 1, lag |-> 1, fail |-> 1],
  [dependabot |-> 1, delete |-> 1, forget |-> 1],
  [dependabot |-> 2, crash |-> 1],
  [dependabot |-> 2, lag |-> 1]}}
Sign == INSTANCE Resign WITH MaxTime <- MaxSeconds, Plans <- SignPlans

KeyMoves == {"mint", "list", "unlist", "withdraw", "tick", "hup", "fail", "drop", "crash"}
SomeKeyPlans == {Only(KeyMoves, s) : s \in {
  [mint |-> 1, list |-> 1, unlist |-> 1, fail |-> 1],
  [mint |-> 1, list |-> 1, withdraw |-> 1, tick |-> 1],
  [mint |-> 1, list |-> 1, tick |-> 2, crash |-> 1],
  [mint |-> 1, list |-> 2, unlist |-> 1, tick |-> 1, crash |-> 1],
  [mint |-> 1, list |-> 1, drop |-> 1],
  [mint |-> 1, list |-> 1, hup |-> 1, tick |-> 2]}}
Rot == INSTANCE KeyRotation WITH MaxTime <- MaxTicks, Plans <- KeyPlans

(* One host on two records, one of them too large for the VTA, that crashes *)
(* at any point, stops once, and once does not reach the VTA.               *)
Mishaps == {"deletion", "stop", "crash", "loss", "restore", "reaping", "failure",
            "lostAnswer"}
SomeMirrorPlans ==
  {[hosts |-> {h1}, keys |-> {k1, k2}, changes |-> 3,
    mishaps |-> Only(Mishaps, [crash |-> 1, stop |-> 1, failure |-> 1])]}
Mir == INSTANCE Mirror WITH Keys <- Records, Plans <- MirrorPlans

LeaseMoves == {"take", "write", "delete", "crash", "fail", "foreign"}
SomeLeasePlans == {Only(LeaseMoves, s) : s \in {
  [take |-> 2, write |-> 1, crash |-> 1],
  [take |-> 2, write |-> 1, fail |-> 1],
  [take |-> 2, write |-> 2],
  [take |-> 1, write |-> 1, foreign |-> 2],
  [take |-> 1, write |-> 2, delete |-> 1]}}
(* One host's clock is ahead.                                               *)
OneAhead == {[p \in {h1, h2} |-> IF p = h1 THEN 0 ELSE 1]}
Hold == INSTANCE StateLease WITH MaxTime <- LeaseEnd, Plans <- LeasePlans

-----------------------------------------------------------------------------
(* What the parts' constants are.  A repository is in one place, and a      *)
(* place has one.                                                           *)
ASSUME HooksAssumption ==
  /\ Nothing \notin Owners \cup Ids \cup (Owners \X Names)
  /\ \A p \in HookPlans :
       /\ p \in [moves : [Hooks!Moves -> Nat], names : SUBSET Names,
                 given : SUBSET (Ids \X (Owners \X Names))]
       /\ \A g, g2 \in p.given : g[1] = g2[1] \/ g[2] = g2[2] => g = g2
ASSUME SignAssumption ==
  /\ MaxHeads \in Nat /\ MaxSeconds \in Nat \ {0} /\ Concurrent \in Nat
  /\ SignPlans \subseteq [Sign!Moves -> Nat]
ASSUME KeysAssumption ==
  /\ MaxKeys \in Nat \ {0} /\ MaxTicks \in Nat /\ Horizon \in Nat
  /\ KeyPlans \subseteq [Rot!Events -> Nat]
ASSUME MirrorAssumption ==
  /\ NoHost \notin Hosts /\ Big \subseteq Records /\ MaxValues \in Nat
  /\ MirrorPlans \subseteq [hosts : SUBSET Hosts, keys : SUBSET Records,
                            changes : 0..MaxValues, mishaps : [Mir!Mishaps -> Nat]]
ASSUME LeaseAssumption == LeasePlans \subseteq [Hold!Moves -> Nat]

-----------------------------------------------------------------------------
(* What a part does not use does not change.                                *)
NoHooks ==
  forge = 0 /\ seen = 0 /\ tasks = 0 /\ store = 0 /\ jobs = 0 /\ told = 0 /\ notes = 0
NoSigning == branch = 0 /\ ledger = 0 /\ runs = 0 /\ vouched = 0
NoRotating == world = 0 /\ kept = 0 /\ run = 0 /\ conn = 0
NoMirroring ==
  /\ remote = 0 /\ backup = 0 /\ lease = 0 /\ disk = 0 /\ up = 0 /\ versions = 0
  /\ dirty = 0 /\ batch = 0 /\ request = 0 /\ stopped = 0 /\ made = 0 /\ gone = 0
  /\ reported = 0 /\ knows = 0
NoLeasing == now = 0 /\ vta = 0 /\ proc = 0 /\ req = 0
Others(p) ==
  /\ p # "hooks" => NoHooks
  /\ p # "sign" => NoSigning
  /\ p \notin {"hooks", "sign"} => posts = 0
  /\ p # "keys" => NoRotating
  /\ p # "mirror" => NoMirroring
  /\ p \notin {"keys", "mirror"} => past = 0
  /\ p # "lease" => NoLeasing

Init ==
  /\ part \in Parts
  /\ \/ part = "hooks" /\ Hooks!Init
     \/ part = "sign" /\ Sign!Init
     \/ part = "keys" /\ Rot!Init
     \/ part = "mirror" /\ Mir!Init
     \/ part = "lease" /\ Hold!Init
  /\ Others(part)

OfHooks ==
  part = "hooks" /\ UNCHANGED <<part, signing, rotating, past, mirroring, leasing>>
OfSign ==
  part = "sign" /\ UNCHANGED <<part, hooks, rotating, past, mirroring, leasing>>
OfKeys ==
  part = "keys" /\ UNCHANGED <<part, hooks, posts, signing, mirroring, leasing>>
OfMirror ==
  part = "mirror" /\ UNCHANGED <<part, hooks, posts, signing, rotating, leasing>>
OfLease ==
  part = "lease" /\ UNCHANGED <<part, hooks, posts, signing, rotating, past, mirroring>>

Next ==
  \/ OfHooks /\ Hooks!Next
  \/ OfSign /\ Sign!Next
  \/ OfKeys /\ Rot!Next
  \/ OfMirror /\ Mir!Next
  \/ OfLease /\ Hold!Next

(* What each part is fair to.  The mirror retries for ever, a process that  *)
(* ended is started again, a lease runs out, and the outbox is sent again   *)
(* on every interval.                                                       *)
One ==
  \/ OfHooks /\ Hooks!Proceed
  \/ OfSign /\ Sign!Receive
  \/ OfKeys /\ Rot!KeyTask
  \/ OfMirror /\ ((\E host \in Hosts : Mir!Pass(host)) \/ Mir!LeaseExpires)
Another ==
  \/ OfSign /\ Sign!Work
  \/ OfKeys /\ Rot!Session
  \/ OfMirror /\ \E host \in Hosts : Mir!Start(host)
Third ==
  OfMirror /\ \E host \in Hosts, r \in Mir!Pairs : Mir!SendReport(host, r)

Spec == Init /\ [][Next]_all /\ WF_all(One) /\ WF_all(Another) /\ WF_all(Third)

-----------------------------------------------------------------------------
TypeOK ==
  /\ part = "hooks" => Hooks!TypeOK
  /\ part = "sign" => Sign!TypeOK
  /\ part = "keys" => Rot!TypeOK
  /\ part = "mirror" => Mir!TypeOK
  /\ part = "lease" => Hold!TypeOK

(* Each conjunct is the property of that name in its module.                *)

(* What the forge delivers is believed no further than it reaches: each     *)
(* once, about the namespace's own repositories, what the bridge makes      *)
(* itself never taken for a stranger's (handle_event and its jobs); and the *)
(* re-sign takes over Dependabot's own heads alone (may_sign, record_push). *)
EventsAreBelieved ==
  /\ part = "hooks" =>
       /\ Hooks!EachOnce /\ Hooks!EventsStayInside
       /\ Hooks!OwnNotStrange /\ Hooks!NothingIsCarried
  /\ part = "sign" => Sign!OnlyDependabots /\ Sign!OwnIsKnown

(* Every copy of the document that a verifier may still hold lists the key  *)
(* the bridge signs with, and a session nobody will tell of a change has    *)
(* the keys in service (SigningPolicy, refresh_keys and lib.rs run).        *)
KeysAreFollowed == part = "keys" => Rot!SignsKnown /\ Rot!SessionFollows

(* One bridge writes the context at a time, by any two clocks within the    *)
(* allowed skew, and every secret it seals opens again (Lease::acquire, its *)
(* renewals and the sealing of a record with its key).                      *)
LeaseIsSole ==
  part = "lease" => Hold!OneWriter /\ Hold!SecretsOpen /\ Hold!SealedAgain

(* An event changes only the records it is about; the signing key moves     *)
(* only on, and a check that took keys up leaves no switch due, so that the *)
(* secrets are not exported at every tick (handle_event, refresh_keys).     *)
StepsAreOwn ==
  [][/\ part = "hooks" => Hooks!OnlyItsOwn
     /\ part = "keys" => Rot!MovesOn /\ Rot!ExportsEnd]_all

(* In the end a repository that was deleted is dropped, a clean head of     *)
(* Dependabot's re-signed, a key that can be had taken up, and what is      *)
(* queued for the VTC sent.                                                 *)
EdgesCatchUp ==
  /\ []<>(part = "hooks" => ~Hooks!LeftBehind)
  /\ []<>(part = "sign" => Sign!Resigned)
  /\ <>[](part = "keys" => Rot!TakenUp)
  /\ []<>(part = "mirror" => Mir!Delivered)

(* What handle_event's module doc says of a late delivery: it costs nothing.*)
LateCostsNothing == [][part = "hooks" => Hooks!LateCostsNothing]_all

(* What the re-sign says of a push while a run is under way: it resumes.    *)
PushResumes == []<>(part = "sign" => Sign!Resumed)

(* What the operators' guide says of a rotation: within a check of its      *)
(* being listed the bridge is on the newest key that it can have.           *)
CurrentInTheEnd == <>[](part = "keys" => Rot!KeysCurrent)
=============================================================================
