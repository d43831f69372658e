---------------------------- MODULE MCEdgesProofs ----------------------------
(* The bridge's edges, for every set of owners, repositories, heads, keys,   *)
(* hosts and records, every bound and every plan of what happens: what       *)
(* MCEdges's run checks of its invariants and of what a step may change.     *)
(*                                                                           *)
(* A behaviour is of one part, so that each part has an inductive invariant  *)
(* of its own: KeyInv of KeyRotation, SignInv of Resign and HookInv of       *)
(* Webhooks here, those of Mirror and StateLease in the proofs about them,   *)
(* of which this module takes an instance.                                   *)
(*                                                                           *)
(* KeyInv    no time is ahead of the clock it was read from, a listed key's  *)
(*           is not before its listing unless that is noted, and the key     *)
(*           that signs was chosen well: so it is in every copy of the       *)
(*           document a verifier may hold;                                   *)
(* SignInv   the ledger, and the deliveries on their way to it, tell what    *)
(*           happened to the branch, a head on record as the bridge's own    *)
(*           is, and a run that got past the judgement has a head no writer  *)
(*           touched;                                                        *)
(* HookInv   a handler that was told of its own namespace is right that the  *)
(*           repository was there, a look holds the namespace's lock, the    *)
(*           managed set and its copy agree, and all is where it was born    *)
(*           until something is transferred or claimed.                      *)
EXTENDS MCEdges, WellFoundedInduction, TLAPS

-----------------------------------------------------------------------------
(* Keys: KeyRotation.                                                        *)

(* Any numbers have a least one.                                            *)
LEMMA LeastNumber ==
    ASSUME NEW T, T \subseteq Nat, T # {}
    PROVE  \E n \in T : \A m \in T : n <= m
<1>1. PICK n \in T : \A m \in T : <<m, n>> \notin OpToRel(<, Nat)
  BY NatLessThanWellFounded, WFMin
<1>2. \A m \in T : ~(m < n)
  BY <1>1 DEF OpToRel
<1> QED BY <1>2

(* ... and those below a bound a greatest.                                  *)
LEMMA GreatestNumber ==
    ASSUME NEW b \in Nat, NEW T, T \subseteq 0..b, T # {}
    PROVE  \E n \in T : \A m \in T : m <= n
<1> DEFINE U == {b - m : m \in T}
<1>1. PICK u \in U : \A v \in U : u <= v
  BY LeastNumber, U \subseteq Nat, U # {}
<1>2. PICK n \in T : u = b - n
  OBVIOUS
<1>3. \A m \in T : b - m \in U
  OBVIOUS
<1> HIDE DEF U
<1> QED BY <1>1, <1>2, <1>3

-----------------------------------------------------------------------------
(* Which key signs.                                                         *)

Firsts == [Rot!Keys -> 0..Rot!Never]

LEMMA HasLatest ==
    ASSUME NEW first \in Firsts, NEW s \in SUBSET Rot!Keys, s # {}
    PROVE  \E k \in s : \A l \in s \ {k} : Rot!Later(first, k, l)
<1>0. /\ MaxKeys \in Nat /\ MaxTicks + 1 \in Nat
      /\ \A l \in s : l \in 0..MaxKeys /\ first[l] \in 0..(MaxTicks + 1)
  BY KeysAssumption DEF Firsts, Rot!Keys, Rot!Never
<1> DEFINE times == {first[l] : l \in s}
           ks(t) == {l \in s : first[l] = t}
<1>1. PICK t \in times : \A u \in times : u <= t
  BY GreatestNumber, <1>0, times \subseteq 0..(MaxTicks + 1), times # {}
<1>2. ks(t) # {}
  BY <1>1
<1>3. PICK k \in ks(t) : \A l \in ks(t) : l <= k
  BY GreatestNumber, <1>0, <1>2, ks(t) \subseteq 0..MaxKeys
<1>4. ASSUME NEW l \in s \ {k} PROVE Rot!Later(first, k, l)
  <2>1. l # k /\ first[k] = t /\ first[l] <= t
    BY <1>1, <1>3
  <2>2. first[l] = t => l <= k
    BY <1>3
  <2>3. k \in 0..MaxKeys /\ l \in 0..MaxKeys /\ first[l] \in 0..(MaxTicks + 1) /\ t \in 0..(MaxTicks + 1)
    BY <1>0, <1>1, <1>3
  <2> QED BY <1>0, <2>1, <2>2, <2>3 DEF Rot!Later
<1>5. k \in s
  BY <1>3
<1> QED BY <1>4, <1>5

LEMMA HasEarliest ==
    ASSUME NEW first \in Firsts, NEW s \in SUBSET Rot!Keys, s # {}
    PROVE  \E k \in s : \A l \in s \ {k} : Rot!Later(first, l, k)
<1>0. /\ MaxKeys \in Nat /\ MaxTicks + 1 \in Nat
      /\ \A l \in s : l \in 0..MaxKeys /\ first[l] \in 0..(MaxTicks + 1)
  BY KeysAssumption DEF Firsts, Rot!Keys, Rot!Never
<1> DEFINE times == {first[l] : l \in s}
           ks(t) == {l \in s : first[l] = t}
<1>1. PICK t \in times : \A u \in times : t <= u
  BY LeastNumber, <1>0, times \subseteq Nat, times # {}
<1>2. ks(t) # {}
  BY <1>1
<1>3. PICK k \in ks(t) : \A l \in ks(t) : k <= l
  BY LeastNumber, <1>0, <1>2, ks(t) \subseteq Nat
<1>4. ASSUME NEW l \in s \ {k} PROVE Rot!Later(first, l, k)
  <2>1. l # k /\ first[k] = t /\ t <= first[l]
    BY <1>1, <1>3
  <2>2. first[l] = t => k <= l
    BY <1>3
  <2>3. k \in 0..MaxKeys /\ l \in 0..MaxKeys /\ first[l] \in 0..(MaxTicks + 1) /\ t \in 0..(MaxTicks + 1)
    BY <1>0, <1>1, <1>3
  <2> QED BY <1>0, <2>1, <2>2, <2>3 DEF Rot!Later
<1>5. k \in s
  BY <1>3
<1> QED BY <1>4, <1>5

(* The key chosen is usable; it is known as long as the horizon and the     *)
(* newest that is, or none is and no usable one was listed earlier.         *)
LEMMA ChoiceIs ==
    ASSUME NEW first \in Firsts, NEW usable \in SUBSET Rot!Keys, usable # {},
           NEW t \in Nat, NEW k, k = Rot!Choice(first, usable, t)
    PROVE  /\ k \in usable
           /\ \/ /\ first[k] + Horizon <= t
                 /\ \A l \in usable : first[l] + Horizon <= t => first[l] <= first[k]
              \/ /\ \A l \in usable : ~(first[l] + Horizon <= t)
                 /\ \A l \in usable : first[k] <= first[l]
<1> USE KeysAssumption DEF Firsts, Rot!Keys, Rot!Never
<1> DEFINE known == {l \in usable : first[l] + Horizon <= t}
<1>1. CASE known # {}
  <2>1. \E l \in known : \A m \in known \ {l} : Rot!Later(first, l, m)
    BY <1>1, HasLatest
  <2>2. k \in known /\ \A m \in known \ {k} : Rot!Later(first, k, m)
    BY <1>1, <2>1 DEF Rot!Choice
  <2>3. \A l \in known : first[l] <= first[k]
    BY <2>2 DEF Rot!Later
  <2> QED BY <2>2, <2>3
<1>2. CASE known = {}
  <2>1. \E l \in usable : \A m \in usable \ {l} : Rot!Later(first, m, l)
    BY HasEarliest
  <2>2. k \in usable /\ \A m \in usable \ {k} : Rot!Later(first, m, k)
    BY <1>2, <2>1 DEF Rot!Choice
  <2>3. \A l \in usable : first[k] <= first[l]
    BY <2>2 DEF Rot!Later
  <2>4. \A l \in usable : ~(first[l] + Horizon <= t)
    BY <1>2
  <2> QED BY <2>2, <2>3, <2>4
<1> QED BY <1>1, <1>2
-----------------------------------------------------------------------------
(* The keys in service.                                                     *)

(* No time is ahead of the clock it was read from.                          *)
TimesInOrder ==
  /\ run.clock <= world.now /\ world.listed \subseteq 1..world.made
  /\ \A k \in Rot!Keys :
       /\ world.since[k] <= world.now
       /\ kept[k] # Rot!Never => kept[k] <= world.now /\ k <= world.made
       /\ run.first[k] # Rot!Never => run.first[k] <= run.clock /\ k <= world.made

(* The first-seen time of a listed key is not before its listing, unless the*)
(* key is known to be in doubt, and what is not listed has none, unless the *)
(* bridge has not seen it go.                                               *)
Dated(times) ==
  /\ \A k \in world.listed \ past.shaky : world.since[k] <= times[k]
  /\ \A k \in Rot!Keys \ (world.listed \cup past.unseen) : times[k] = Rot!Never
WellDated ==
  /\ run.at = "off" => run = Rot!Stopped /\ conn.at = "down" /\ Dated(kept)
  /\ run.at # "off" => Dated(run.first)
  /\ run.at \in {"load", "apply"} =>
       \A k \in world.listed \ past.shaky : world.since[k] <= run.clock

(* A key that signs was the newest one known for the horizon, and is known  *)
(* still; or none was, and those listed earlier the VTA had withdrawn.      *)
Withdrawn(k) == k \notin world.released /\ (run.at = "apply" => k \notin run.asked)
ChosenWell ==
  /\ run.at = "apply" =>
       \A k \in Rot!Keys :
         run.first[k] # Rot!Never => k \in run.asked \/ k \notin world.released
  /\ run.keys.signs # Rot!None =>
       \/ run.first[run.keys.signs] + Horizon <= run.clock
       \/ \A k \in Rot!Keys : run.first[k] < run.first[run.keys.signs] => Withdrawn(k)

(* A session that read other keys than those in service is told, or it read *)
(* them before it listened.                                                 *)
SessionTold ==
  ~past.raced /\ (conn.at = "mark" \/ (conn.at \in {"connect", "up"} /\ ~conn.changed))
    => conn.keys = run.keys

KeyInv ==
  /\ Rot!TypeOK /\ TimesInOrder /\ WellDated /\ ChosenWell /\ SessionTold /\ Rot!SignsKnown

LEMMA KeyInit == Rot!Init => KeyInv
<1> SUFFICES ASSUME Rot!Init PROVE KeyInv
  OBVIOUS
<1> USE KeysAssumption DEF Rot!Init, Rot!Stopped, Rot!Down, Rot!NoKeys, Rot!NoView,
                          Rot!Keys,
      Rot!None, Rot!Never, Rot!Times
<1>1. Rot!TypeOK
  <2>1. plan \in [Rot!Events -> Nat] /\ count \in [Rot!Events -> Nat]
    OBVIOUS
  <2>2. 1 \in Rot!Keys /\ 0 \in Rot!Times /\ Rot!Never \in 0..Rot!Never
    OBVIOUS
  <2> QED BY <2>1, <2>2 DEF Rot!TypeOK, Rot!Steps, Rot!Identities, Rot!Views
<1>2. TimesInOrder /\ SessionTold
  BY DEF TimesInOrder, SessionTold
<1>3. WellDated
  BY DEF WellDated, Dated
<1>4. ChosenWell
  BY DEF ChosenWell
<1> QED BY <1>1, <1>2, <1>3, <1>4 DEF KeyInv, Rot!SignsKnown

(* What a check takes up, key by key.                                       *)
LEMMA Observed ==
    ASSUME NEW first \in Firsts, NEW listed \in SUBSET Rot!Keys, NEW t \in 0..MaxTicks
    PROVE  /\ Rot!Observe(first, listed, t) \in Firsts
           /\ \A k \in Rot!Keys :
                /\ k \notin listed => Rot!Observe(first, listed, t)[k] = Rot!Never
                /\ k \in listed =>
                     /\ Rot!Observe(first, listed, t)[k] # Rot!Never
                     /\ first[k] = Rot!Never => Rot!Observe(first, listed, t)[k] = t
                     /\ first[k] # Rot!Never => Rot!Observe(first, listed, t)[k] = first[k]
  BY KeysAssumption DEF Rot!Observe, Firsts, Rot!Never

(* What a check takes up, as a whole.                                       *)
LEMMA Applied ==
    ASSUME KeyInv, Rot!Apply
    PROVE  /\ run'.first \in Firsts /\ run'.keys \in Rot!Identities
           /\ run'.keys.signs \in Rot!Usable /\ run'.keys.signs \in run'.keys.held
           /\ run'.first = Rot!Observe(run.first, world.listed, run.clock)
           /\ run'.keys.signs = Rot!Choice(run'.first, Rot!Usable, run.clock)
           /\ run' = [run EXCEPT !.at = IF run.why = "start" THEN "link" ELSE "wait",
                                 !.last = run.seen, !.first = run'.first, !.keys = run'.keys]
           /\ UNCHANGED <<world, kept, plan, count>>
<1> DEFINE first == Rot!Observe(run.first, world.listed, run.clock)
           k == Rot!Choice(first, Rot!Usable, run.clock)
           keys == [held |-> Rot!Keep, signs |-> k]
<1>0. /\ run.first \in Firsts /\ world.listed \in SUBSET Rot!Keys /\ run.clock \in 0..MaxTicks
      /\ Rot!Usable \in SUBSET Rot!Keys /\ Rot!Usable # {} /\ Rot!Keep \in SUBSET Rot!Keys
      /\ Rot!Usable \subseteq Rot!Keep
  BY DEF KeyInv, Rot!TypeOK, Rot!Apply, Rot!Usable, Rot!Keep, Firsts, Rot!Times,
     Rot!Identities
<1>1. first \in Firsts
  BY <1>0, Observed
<1>2. k \in Rot!Usable
  <2>1. run.clock \in Nat
    BY <1>0, KeysAssumption
  <2>2. \A f \in Firsts : Rot!Choice(f, Rot!Usable, run.clock) \in Rot!Usable
    BY <1>0, <2>1, ChoiceIs
  <2> HIDE DEF first
  <2> QED BY <1>1, <2>2
<1>3. /\ run' = [run EXCEPT !.at = IF run.why = "start" THEN "link" ELSE "wait",
                            !.last = run.seen, !.first = first, !.keys = keys]
      /\ UNCHANGED <<world, kept, plan, count>>
  BY DEF Rot!Apply, Rot!Quiet
<1>4. run'.first = first /\ run'.keys = keys /\ run'.keys.signs = Rot!Choice(run'.first, Rot!Usable, run.clock)
  <2>1. run'.first = first /\ run'.keys = keys
    <3> HIDE DEF first, keys
    <3> QED BY <1>3 DEF KeyInv, Rot!TypeOK
  <2> QED BY <2>1
<1>5. keys \in Rot!Identities
  BY <1>0, <1>2 DEF Rot!Identities
<1>6. first = Rot!Observe(run.first, world.listed, run.clock)
  OBVIOUS
<1> HIDE DEF first, k
<1> QED BY <1>0, <1>1, <1>2, <1>3, <1>4, <1>5, <1>6
(* The types, variable by variable.                                         *)
Worlds == [made : Rot!Keys, released : SUBSET Rot!Keys, listed : SUBSET Rot!Keys,
           since : [Rot!Keys -> Rot!Times], now : Rot!Times]
Runs == [at : Rot!Steps, why : {"start", "tick", "hup"}, clock : Rot!Times,
         asked : SUBSET Rot!Keys, keys : Rot!Identities, first : Firsts, last : Rot!Views,
         seen : Rot!Views]
Conns == [at : {"down", "mark", "connect", "up"}, keys : Rot!Identities, changed : BOOLEAN]
KeyPasts == [loaded : Rot!Views, blind : BOOLEAN, raced : BOOLEAN, hasty : BOOLEAN,
             unseen : SUBSET Rot!Keys, shaky : SUBSET Rot!Keys]
SignsOwn == run.keys.signs # Rot!None => run.keys.signs \in run.keys.held
KeyCounts == plan \in [Rot!Events -> Nat] /\ count \in [Rot!Events -> Nat]

LEMMA KeyTypes ==
    /\ Rot!TypeOK <=> KeyCounts /\ world \in Worlds /\ kept \in Firsts /\ run \in Runs
                        /\ SignsOwn /\ conn \in Conns /\ past \in KeyPasts
    /\ Rot!TypeOK' <=> KeyCounts' /\ world' \in Worlds /\ kept' \in Firsts /\ run' \in Runs
                         /\ SignsOwn' /\ conn' \in Conns /\ past' \in KeyPasts
  BY DEF Rot!TypeOK, KeyCounts, Worlds, Firsts, Runs, SignsOwn, Conns, KeyPasts

LEMMA KeyHappens ==
    ASSUME KeyCounts, NEW e, Rot!Happens(e) \/ Rot!Quiet
    PROVE  KeyCounts'
  BY DEF KeyCounts, Rot!Happens, Rot!Quiet

LEMMA KeyStart == ASSUME KeyInv, Rot!Start PROVE KeyInv'
<1> USE KeysAssumption DEF Rot!Start, Rot!Keys, Rot!None, Rot!Never, Rot!Times
<1>0. /\ KeyCounts /\ world \in Worlds /\ kept \in Firsts /\ run \in Runs
      /\ SignsOwn /\ conn \in Conns /\ past \in KeyPasts /\ TimesInOrder /\ WellDated
      /\ ChosenWell /\ SessionTold /\ Rot!SignsKnown
  BY KeyTypes DEF KeyInv
<1>1. Rot!TypeOK'
  <2>1. KeyCounts'
    BY <1>0, KeyHappens, Rot!Quiet
  <2>2. run' \in Runs
    BY <1>0 DEF Runs, Rot!Steps, Rot!Identities, Rot!Views, Firsts, Worlds, Rot!Stopped,
       Rot!NoKeys, Rot!NoView
  <2>3. SignsOwn'
    BY <1>0 DEF SignsOwn, Runs, Rot!Stopped, Rot!NoKeys
  <2>4. UNCHANGED <<world, kept, conn, past>>
    OBVIOUS
  <2> QED BY <1>0, <2>1, <2>2, <2>3, <2>4, KeyTypes
<1>2. TimesInOrder'
  BY <1>0 DEF TimesInOrder, Worlds, Runs, Firsts, Rot!Stopped
<1>3. WellDated'
  BY <1>0 DEF WellDated, Dated, TimesInOrder, Worlds, Runs, Firsts, KeyPasts,
     Rot!Stopped, Rot!NoKeys
<1>4. ChosenWell'
  BY <1>0 DEF ChosenWell, Withdrawn, TimesInOrder, WellDated, Rot!Identities, Worlds,
     Runs, Firsts, Rot!Stopped, Rot!NoKeys
<1>5. SessionTold'
  BY <1>0 DEF SessionTold, WellDated, Conns, Runs, KeyPasts, Rot!Stopped
<1>6. Rot!SignsKnown'
  BY <1>0 DEF Rot!SignsKnown, KeyPasts
<1> QED BY <1>1, <1>2, <1>3, <1>4, <1>5, <1>6 DEF KeyInv

LEMMA KeyLoad == ASSUME KeyInv, Rot!Load PROVE KeyInv'
<1> USE KeysAssumption DEF Rot!Load, Rot!Keys, Rot!None, Rot!Never, Rot!Times
<1>0. /\ KeyCounts /\ world \in Worlds /\ kept \in Firsts /\ run \in Runs
      /\ SignsOwn /\ conn \in Conns /\ past \in KeyPasts /\ TimesInOrder /\ WellDated
      /\ ChosenWell /\ SessionTold /\ Rot!SignsKnown
  BY KeyTypes DEF KeyInv
<1>1. Rot!TypeOK'
  <2>1. KeyCounts'
    BY <1>0, KeyHappens, Rot!Quiet
  <2>2. run' \in Runs
    BY <1>0 DEF Runs, Rot!Steps, Rot!Identities, Rot!Views, Firsts, Worlds, Rot!Stopped,
       Rot!NoKeys, Rot!NoView
  <2>3. SignsOwn'
    BY <1>0 DEF SignsOwn, Runs, Rot!Stopped, Rot!NoKeys
  <2>4. UNCHANGED <<world, kept, conn, past>>
    OBVIOUS
  <2> QED BY <1>0, <2>1, <2>2, <2>3, <2>4, KeyTypes
<1>2. TimesInOrder'
  BY <1>0 DEF TimesInOrder, Worlds, Runs, Firsts, Rot!Stopped
<1>3. WellDated'
  BY <1>0 DEF WellDated, Dated, TimesInOrder, Worlds, Runs, Firsts, KeyPasts,
     Rot!Stopped, Rot!NoKeys
<1>4. ChosenWell'
  BY <1>0 DEF ChosenWell, Withdrawn, TimesInOrder, WellDated, Rot!Identities, Worlds,
     Runs, Firsts, Rot!Stopped, Rot!NoKeys
<1>5. SessionTold'
  BY <1>0 DEF SessionTold, WellDated, Conns, Runs, KeyPasts, Rot!Stopped
<1>6. Rot!SignsKnown'
  BY <1>0 DEF Rot!SignsKnown, KeyPasts
<1> QED BY <1>1, <1>2, <1>3, <1>4, <1>5, <1>6 DEF KeyInv

LEMMA KeyRefuse == ASSUME KeyInv, Rot!Refuse PROVE KeyInv'
<1> USE KeysAssumption DEF Rot!Refuse, Rot!Again, Rot!Keys, Rot!None, Rot!Never, Rot!Times
<1>0. /\ KeyCounts /\ world \in Worlds /\ kept \in Firsts /\ run \in Runs
      /\ SignsOwn /\ conn \in Conns /\ past \in KeyPasts /\ TimesInOrder /\ WellDated
      /\ ChosenWell /\ SessionTold /\ Rot!SignsKnown
  BY KeyTypes DEF KeyInv
<1>1. Rot!TypeOK'
  <2>1. KeyCounts'
    BY <1>0, KeyHappens, Rot!Quiet
  <2>2. run' \in Runs
    BY <1>0 DEF Runs, Rot!Steps, Rot!Identities, Rot!Views, Firsts, Worlds, Rot!Stopped,
       Rot!NoKeys, Rot!NoView
  <2>3. SignsOwn'
    BY <1>0 DEF SignsOwn, Runs, Rot!Stopped, Rot!NoKeys
  <2>4. UNCHANGED <<world, kept, conn, past>>
    OBVIOUS
  <2> QED BY <1>0, <2>1, <2>2, <2>3, <2>4, KeyTypes
<1>2. TimesInOrder'
  BY <1>0 DEF TimesInOrder, Worlds, Runs, Firsts, Rot!Stopped
<1>3. WellDated'
  BY <1>0 DEF WellDated, Dated, TimesInOrder, Worlds, Runs, Firsts, KeyPasts,
     Rot!Stopped, Rot!NoKeys
<1>4. ChosenWell'
  BY <1>0 DEF ChosenWell, Withdrawn, TimesInOrder, WellDated, Rot!Identities, Worlds,
     Runs, Firsts, Rot!Stopped, Rot!NoKeys
<1>5. SessionTold'
  BY <1>0 DEF SessionTold, WellDated, Conns, Runs, KeyPasts, Rot!Stopped
<1>6. Rot!SignsKnown'
  BY <1>0 DEF Rot!SignsKnown, KeyPasts
<1> QED BY <1>1, <1>2, <1>3, <1>4, <1>5, <1>6 DEF KeyInv

LEMMA KeyFail == ASSUME KeyInv, Rot!Fail PROVE KeyInv'
<1> USE KeysAssumption DEF Rot!Fail, Rot!Again, Rot!Keys, Rot!None, Rot!Never, Rot!Times
<1>0. /\ KeyCounts /\ world \in Worlds /\ kept \in Firsts /\ run \in Runs
      /\ SignsOwn /\ conn \in Conns /\ past \in KeyPasts /\ TimesInOrder /\ WellDated
      /\ ChosenWell /\ SessionTold /\ Rot!SignsKnown
  BY KeyTypes DEF KeyInv
<1>1. Rot!TypeOK'
  <2>1. KeyCounts'
    BY <1>0, KeyHappens, Rot!Happens("fail")
  <2>2. run' \in Runs
    BY <1>0 DEF Runs, Rot!Steps, Rot!Identities, Rot!Views, Firsts, Worlds, Rot!Stopped,
       Rot!NoKeys, Rot!NoView
  <2>3. SignsOwn'
    BY <1>0 DEF SignsOwn, Runs, Rot!Stopped, Rot!NoKeys
  <2>4. UNCHANGED <<world, kept, conn, past>>
    OBVIOUS
  <2> QED BY <1>0, <2>1, <2>2, <2>3, <2>4, KeyTypes
<1>2. TimesInOrder'
  BY <1>0 DEF TimesInOrder, Worlds, Runs, Firsts, Rot!Stopped
<1>3. WellDated'
  BY <1>0 DEF WellDated, Dated, TimesInOrder, Worlds, Runs, Firsts, KeyPasts,
     Rot!Stopped, Rot!NoKeys
<1>4. ChosenWell'
  BY <1>0 DEF ChosenWell, Withdrawn, TimesInOrder, WellDated, Rot!Identities, Worlds,
     Runs, Firsts, Rot!Stopped, Rot!NoKeys
<1>5. SessionTold'
  BY <1>0 DEF SessionTold, WellDated, Conns, Runs, KeyPasts, Rot!Stopped
<1>6. Rot!SignsKnown'
  BY <1>0 DEF Rot!SignsKnown, KeyPasts
<1> QED BY <1>1, <1>2, <1>3, <1>4, <1>5, <1>6 DEF KeyInv

LEMMA KeyWake == ASSUME KeyInv, NEW why \in {"tick", "hup"}, Rot!Wake(why) PROVE KeyInv'
<1> USE KeysAssumption DEF Rot!Wake, Rot!Keys, Rot!None, Rot!Never, Rot!Times
<1>0. /\ KeyCounts /\ world \in Worlds /\ kept \in Firsts /\ run \in Runs
      /\ SignsOwn /\ conn \in Conns /\ past \in KeyPasts /\ TimesInOrder /\ WellDated
      /\ ChosenWell /\ SessionTold /\ Rot!SignsKnown
  BY KeyTypes DEF KeyInv
<1>1. Rot!TypeOK'
  <2>1. KeyCounts'
    BY <1>0, KeyHappens, Rot!Happens("hup") \/ Rot!Quiet
  <2>2. run' \in Runs
    BY <1>0 DEF Runs, Rot!Steps, Rot!Identities, Rot!Views, Firsts, Worlds, Rot!Stopped,
       Rot!NoKeys, Rot!NoView
  <2>3. SignsOwn'
    BY <1>0 DEF SignsOwn, Runs, Rot!Stopped, Rot!NoKeys
  <2>4. UNCHANGED <<world, kept, conn, past>>
    OBVIOUS
  <2> QED BY <1>0, <2>1, <2>2, <2>3, <2>4, KeyTypes
<1>2. TimesInOrder'
  BY <1>0 DEF TimesInOrder, Worlds, Runs, Firsts, Rot!Stopped
<1>3. WellDated'
  BY <1>0 DEF WellDated, Dated, TimesInOrder, Worlds, Runs, Firsts, KeyPasts,
     Rot!Stopped, Rot!NoKeys
<1>4. ChosenWell'
  BY <1>0 DEF ChosenWell, Withdrawn, TimesInOrder, WellDated, Rot!Identities, Worlds,
     Runs, Firsts, Rot!Stopped, Rot!NoKeys
<1>5. SessionTold'
  BY <1>0 DEF SessionTold, WellDated, Conns, Runs, KeyPasts, Rot!Stopped
<1>6. Rot!SignsKnown'
  BY <1>0 DEF Rot!SignsKnown, KeyPasts
<1> QED BY <1>1, <1>2, <1>3, <1>4, <1>5, <1>6 DEF KeyInv

LEMMA KeyAsk == ASSUME KeyInv, Rot!Ask PROVE KeyInv'
<1> USE KeysAssumption DEF Rot!Ask, Rot!Keys, Rot!None, Rot!Never, Rot!Times
<1>0. /\ KeyCounts /\ world \in Worlds /\ kept \in Firsts /\ run \in Runs
      /\ SignsOwn /\ conn \in Conns /\ past \in KeyPasts /\ TimesInOrder /\ WellDated
      /\ ChosenWell /\ SessionTold /\ Rot!SignsKnown
  BY KeyTypes DEF KeyInv
<1>1. Rot!TypeOK'
  <2>1. KeyCounts'
    BY <1>0, KeyHappens, Rot!Quiet
  <2>2. run' \in Runs
    BY <1>0 DEF Runs, Rot!Steps, Rot!Identities, Rot!Views, Firsts, Worlds, Rot!Stopped,
       Rot!NoKeys, Rot!NoView
  <2>3. SignsOwn'
    BY <1>0 DEF SignsOwn, Runs, Rot!Stopped, Rot!NoKeys
  <2>4. UNCHANGED <<world, kept, conn, past>>
    OBVIOUS
  <2> QED BY <1>0, <2>1, <2>2, <2>3, <2>4, KeyTypes
<1>2. TimesInOrder'
  BY <1>0 DEF TimesInOrder, Worlds, Runs, Firsts, Rot!Stopped
<1>3. WellDated'
  BY <1>0 DEF WellDated, Dated, TimesInOrder, Worlds, Runs, Firsts, KeyPasts,
     Rot!Stopped, Rot!NoKeys
<1>4. ChosenWell'
  BY <1>0 DEF ChosenWell, Withdrawn, TimesInOrder, WellDated, Rot!Identities, Worlds,
     Runs, Firsts, Rot!Stopped, Rot!NoKeys
<1>5. SessionTold'
  BY <1>0 DEF SessionTold, WellDated, Conns, Runs, KeyPasts, Rot!Stopped
<1>6. Rot!SignsKnown'
  BY <1>0 DEF Rot!SignsKnown, KeyPasts
<1> QED BY <1>1, <1>2, <1>3, <1>4, <1>5, <1>6 DEF KeyInv

LEMMA KeyBaseline == ASSUME KeyInv, Rot!Baseline PROVE KeyInv'
<1> USE KeysAssumption DEF Rot!Baseline, Rot!Fingerprint, Rot!Keys, Rot!None, Rot!Never,
                          Rot!Times
<1>0. /\ KeyCounts /\ world \in Worlds /\ kept \in Firsts /\ run \in Runs
      /\ SignsOwn /\ conn \in Conns /\ past \in KeyPasts /\ TimesInOrder /\ WellDated
      /\ ChosenWell /\ SessionTold /\ Rot!SignsKnown
  BY KeyTypes DEF KeyInv
<1>1. Rot!TypeOK'
  <2>1. KeyCounts'
    BY <1>0, KeyHappens, Rot!Quiet
  <2>2. run' \in Runs
    BY <1>0 DEF Runs, Rot!Steps, Rot!Identities, Rot!Views, Firsts, Worlds, Rot!Stopped,
       Rot!NoKeys, Rot!NoView
  <2>3. past' \in KeyPasts
    BY <1>0 DEF KeyPasts, Rot!Views, Runs, Worlds
  <2>4. SignsOwn'
    BY <1>0 DEF SignsOwn, Runs, Rot!Stopped, Rot!NoKeys
  <2>5. UNCHANGED <<world, kept, conn>>
    OBVIOUS
  <2> QED BY <1>0, <2>1, <2>2, <2>3, <2>4, <2>5, KeyTypes
<1>2. TimesInOrder'
  BY <1>0 DEF TimesInOrder, Worlds, Runs, Firsts, Rot!Stopped
<1>3. WellDated'
  BY <1>0 DEF WellDated, Dated, TimesInOrder, Worlds, Runs, Firsts, KeyPasts,
     Rot!Stopped, Rot!NoKeys
<1>4. ChosenWell'
  BY <1>0 DEF ChosenWell, Withdrawn, TimesInOrder, WellDated, Rot!Identities, Worlds,
     Runs, Firsts, Rot!Stopped, Rot!NoKeys
<1>5. SessionTold'
  BY <1>0 DEF SessionTold, WellDated, Conns, Runs, KeyPasts, Rot!Stopped
<1>6. Rot!SignsKnown'
  BY <1>0 DEF Rot!SignsKnown, KeyPasts
<1> QED BY <1>1, <1>2, <1>3, <1>4, <1>5, <1>6 DEF KeyInv

LEMMA KeyCheck == ASSUME KeyInv, Rot!Check PROVE KeyInv'
<1> USE KeysAssumption DEF Rot!Check, Rot!Fingerprint, Rot!Keys, Rot!None, Rot!Never,
                          Rot!Times
<1>0. /\ KeyCounts /\ world \in Worlds /\ kept \in Firsts /\ run \in Runs
      /\ SignsOwn /\ conn \in Conns /\ past \in KeyPasts /\ TimesInOrder /\ WellDated
      /\ ChosenWell /\ SessionTold /\ Rot!SignsKnown
  BY KeyTypes DEF KeyInv
<1>1. Rot!TypeOK'
  <2>1. KeyCounts'
    BY <1>0, KeyHappens, Rot!Quiet
  <2>2. run' \in Runs
    BY <1>0 DEF Runs, Rot!Steps, Rot!Identities, Rot!Views, Firsts, Worlds, Rot!Stopped,
       Rot!NoKeys, Rot!NoView
  <2>3. SignsOwn'
    BY <1>0 DEF SignsOwn, Runs, Rot!Stopped, Rot!NoKeys
  <2>4. UNCHANGED <<world, kept, conn, past>>
    OBVIOUS
  <2> QED BY <1>0, <2>1, <2>2, <2>3, <2>4, KeyTypes
<1>2. TimesInOrder'
  BY <1>0 DEF TimesInOrder, Worlds, Runs, Firsts, Rot!Stopped
<1>3. WellDated'
  BY <1>0 DEF WellDated, Dated, TimesInOrder, Worlds, Runs, Firsts, KeyPasts,
     Rot!Stopped, Rot!NoKeys
<1>4. ChosenWell'
  <2>1. /\ run'.keys = run.keys /\ run'.first = run.first /\ run'.at # "apply"
        /\ run.at # "apply" /\ UNCHANGED world
        /\ run.clock \in Nat /\ run'.clock \in Nat /\ run.clock <= run'.clock
    BY <1>0 DEF Runs, Worlds, TimesInOrder
  <2>2. run.keys.signs # Rot!None => run.keys.signs \in Rot!Keys
    BY <1>0 DEF Runs, Rot!Identities
  <2>3. \A k \in Rot!Keys : run.first[k] \in Nat
    BY <1>0 DEF Runs, Firsts
  <2> QED BY <1>0, <2>1, <2>2, <2>3 DEF ChosenWell, Withdrawn
<1>5. SessionTold'
  BY <1>0 DEF SessionTold, WellDated, Conns, Runs, KeyPasts, Rot!Stopped
<1>6. Rot!SignsKnown'
  BY <1>0 DEF Rot!SignsKnown, KeyPasts
<1> QED BY <1>1, <1>2, <1>3, <1>4, <1>5, <1>6 DEF KeyInv

LEMMA KeyMirrorTimes == ASSUME KeyInv, Rot!MirrorTimes PROVE KeyInv'
<1> USE KeysAssumption DEF Rot!MirrorTimes, Rot!Keys, Rot!None, Rot!Never, Rot!Times
<1>0. /\ KeyCounts /\ world \in Worlds /\ kept \in Firsts /\ run \in Runs
      /\ SignsOwn /\ conn \in Conns /\ past \in KeyPasts /\ TimesInOrder /\ WellDated
      /\ ChosenWell /\ SessionTold /\ Rot!SignsKnown
  BY KeyTypes DEF KeyInv
<1>1. Rot!TypeOK'
  <2>1. KeyCounts'
    BY <1>0, KeyHappens, Rot!Quiet
  <2>2. kept' \in Firsts
    BY <1>0 DEF Runs
  <2>4. UNCHANGED <<world, run, conn, past>>
    OBVIOUS
  <2> QED BY <1>0, <2>1, <2>2, <2>4, KeyTypes DEF SignsOwn
<1>2. TimesInOrder'
  <2>1. run.clock \in Nat /\ world.now \in Nat /\ \A l \in Rot!Keys : run.first[l] \in Nat
    BY <1>0 DEF Worlds, Runs, Firsts
  <2> QED BY <1>0, <2>1 DEF TimesInOrder
<1>3. WellDated'
  BY <1>0 DEF WellDated, Dated, TimesInOrder, Worlds, Runs, Firsts, KeyPasts,
     Rot!Stopped, Rot!NoKeys
<1>4. ChosenWell'
  BY <1>0 DEF ChosenWell, Withdrawn, TimesInOrder, WellDated, Rot!Identities, Worlds,
     Runs, Firsts, Rot!Stopped, Rot!NoKeys
<1>5. SessionTold'
  BY <1>0 DEF SessionTold, WellDated, Conns, Runs, KeyPasts, Rot!Stopped
<1>6. Rot!SignsKnown'
  BY <1>0 DEF Rot!SignsKnown, KeyPasts
<1> QED BY <1>1, <1>2, <1>3, <1>4, <1>5, <1>6 DEF KeyInv

LEMMA KeyReadKeys == ASSUME KeyInv, Rot!ReadKeys PROVE KeyInv'
<1> USE KeysAssumption DEF Rot!ReadKeys, Rot!Keys, Rot!None, Rot!Never, Rot!Times
<1>0. /\ KeyCounts /\ world \in Worlds /\ kept \in Firsts /\ run \in Runs
      /\ SignsOwn /\ conn \in Conns /\ past \in KeyPasts /\ TimesInOrder /\ WellDated
      /\ ChosenWell /\ SessionTold /\ Rot!SignsKnown
  BY KeyTypes DEF KeyInv
<1>1. Rot!TypeOK'
  <2>1. KeyCounts'
    BY <1>0, KeyHappens, Rot!Quiet
  <2>2. conn' \in Conns
    BY <1>0 DEF Conns, Rot!Identities, Rot!NoKeys, Runs
  <2>3. past' \in KeyPasts
    BY <1>0 DEF KeyPasts, Rot!Views, Runs, Worlds
  <2>5. UNCHANGED <<world, kept, run>>
    OBVIOUS
  <2> QED BY <1>0, <2>1, <2>2, <2>3, <2>5, KeyTypes DEF SignsOwn
<1>2. TimesInOrder'
  BY <1>0 DEF TimesInOrder, Worlds, Runs, Firsts, Rot!Stopped
<1>3. WellDated'
  BY <1>0 DEF WellDated, Dated, TimesInOrder, Worlds, Runs, Firsts, KeyPasts,
     Rot!Stopped, Rot!NoKeys
<1>4. ChosenWell'
  BY <1>0 DEF ChosenWell, Withdrawn, TimesInOrder, WellDated, Rot!Identities, Worlds,
     Runs, Firsts, Rot!Stopped, Rot!NoKeys
<1>5. SessionTold'
  BY <1>0 DEF SessionTold, WellDated, Conns, Runs, KeyPasts, Rot!Stopped
<1>6. Rot!SignsKnown'
  BY <1>0 DEF Rot!SignsKnown, KeyPasts
<1> QED BY <1>1, <1>2, <1>3, <1>4, <1>5, <1>6 DEF KeyInv

LEMMA KeyMarkSeen == ASSUME KeyInv, Rot!MarkSeen PROVE KeyInv'
<1> USE KeysAssumption DEF Rot!MarkSeen, Rot!Keys, Rot!None, Rot!Never, Rot!Times
<1>0. /\ KeyCounts /\ world \in Worlds /\ kept \in Firsts /\ run \in Runs
      /\ SignsOwn /\ conn \in Conns /\ past \in KeyPasts /\ TimesInOrder /\ WellDated
      /\ ChosenWell /\ SessionTold /\ Rot!SignsKnown
  BY KeyTypes DEF KeyInv
<1>1. Rot!TypeOK'
  <2>1. KeyCounts'
    BY <1>0, KeyHappens, Rot!Quiet
  <2>2. conn' \in Conns
    BY <1>0 DEF Conns, Rot!Identities, Rot!NoKeys, Runs
  <2>4. UNCHANGED <<world, kept, run, past>>
    OBVIOUS
  <2> QED BY <1>0, <2>1, <2>2, <2>4, KeyTypes DEF SignsOwn
<1>2. TimesInOrder'
  BY <1>0 DEF TimesInOrder, Worlds, Runs, Firsts, Rot!Stopped
<1>3. WellDated'
  BY <1>0 DEF WellDated, Dated, TimesInOrder, Worlds, Runs, Firsts, KeyPasts,
     Rot!Stopped, Rot!NoKeys
<1>4. ChosenWell'
  BY <1>0 DEF ChosenWell, Withdrawn, TimesInOrder, WellDated, Rot!Identities, Worlds,
     Runs, Firsts, Rot!Stopped, Rot!NoKeys
<1>5. SessionTold'
  BY <1>0 DEF SessionTold, WellDated, Conns, Runs, KeyPasts, Rot!Stopped
<1>6. Rot!SignsKnown'
  BY <1>0 DEF Rot!SignsKnown, KeyPasts
<1> QED BY <1>1, <1>2, <1>3, <1>4, <1>5, <1>6 DEF KeyInv

LEMMA KeyConnect == ASSUME KeyInv, Rot!Connect PROVE KeyInv'
<1> USE KeysAssumption DEF Rot!Connect, Rot!Keys, Rot!None, Rot!Never, Rot!Times
<1>0. /\ KeyCounts /\ world \in Worlds /\ kept \in Firsts /\ run \in Runs
      /\ SignsOwn /\ conn \in Conns /\ past \in KeyPasts /\ TimesInOrder /\ WellDated
      /\ ChosenWell /\ SessionTold /\ Rot!SignsKnown
  BY KeyTypes DEF KeyInv
<1>1. Rot!TypeOK'
  <2>1. KeyCounts'
    BY <1>0, KeyHappens, Rot!Quiet
  <2>2. run' \in Runs
    BY <1>0 DEF Runs, Rot!Steps, Rot!Identities, Rot!Views, Firsts, Worlds, Rot!Stopped,
       Rot!NoKeys, Rot!NoView
  <2>3. conn' \in Conns
    BY <1>0 DEF Conns, Rot!Identities, Rot!NoKeys, Runs
  <2>4. SignsOwn'
    BY <1>0 DEF SignsOwn, Runs, Rot!Stopped, Rot!NoKeys
  <2>5. UNCHANGED <<world, kept, past>>
    OBVIOUS
  <2> QED BY <1>0, <2>1, <2>2, <2>3, <2>4, <2>5, KeyTypes
<1>2. TimesInOrder'
  BY <1>0 DEF TimesInOrder, Worlds, Runs, Firsts, Rot!Stopped
<1>3. WellDated'
  BY <1>0 DEF WellDated, Dated, TimesInOrder, Worlds, Runs, Firsts, KeyPasts,
     Rot!Stopped, Rot!NoKeys
<1>4. ChosenWell'
  BY <1>0 DEF ChosenWell, Withdrawn, TimesInOrder, WellDated, Rot!Identities, Worlds,
     Runs, Firsts, Rot!Stopped, Rot!NoKeys
<1>5. SessionTold'
  BY <1>0 DEF SessionTold, WellDated, Conns, Runs, KeyPasts, Rot!Stopped
<1>6. Rot!SignsKnown'
  BY <1>0 DEF Rot!SignsKnown, KeyPasts
<1> QED BY <1>1, <1>2, <1>3, <1>4, <1>5, <1>6 DEF KeyInv

LEMMA KeyReconnect == ASSUME KeyInv, Rot!Reconnect PROVE KeyInv'
<1> USE KeysAssumption DEF Rot!Reconnect, Rot!Keys, Rot!None, Rot!Never, Rot!Times
<1>0. /\ KeyCounts /\ world \in Worlds /\ kept \in Firsts /\ run \in Runs
      /\ SignsOwn /\ conn \in Conns /\ past \in KeyPasts /\ TimesInOrder /\ WellDated
      /\ ChosenWell /\ SessionTold /\ Rot!SignsKnown
  BY KeyTypes DEF KeyInv
<1>1. Rot!TypeOK'
  <2>1. KeyCounts'
    BY <1>0, KeyHappens, Rot!Quiet
  <2>2. conn' \in Conns
    BY <1>0 DEF Conns, Rot!Identities, Rot!NoKeys, Runs
  <2>4. UNCHANGED <<world, kept, run, past>>
    OBVIOUS
  <2> QED BY <1>0, <2>1, <2>2, <2>4, KeyTypes DEF SignsOwn
<1>2. TimesInOrder'
  BY <1>0 DEF TimesInOrder, Worlds, Runs, Firsts, Rot!Stopped
<1>3. WellDated'
  BY <1>0 DEF WellDated, Dated, TimesInOrder, Worlds, Runs, Firsts, KeyPasts,
     Rot!Stopped, Rot!NoKeys
<1>4. ChosenWell'
  BY <1>0 DEF ChosenWell, Withdrawn, TimesInOrder, WellDated, Rot!Identities, Worlds,
     Runs, Firsts, Rot!Stopped, Rot!NoKeys
<1>5. SessionTold'
  BY <1>0 DEF SessionTold, WellDated, Conns, Runs, KeyPasts, Rot!Stopped
<1>6. Rot!SignsKnown'
  BY <1>0 DEF Rot!SignsKnown, KeyPasts
<1> QED BY <1>1, <1>2, <1>3, <1>4, <1>5, <1>6 DEF KeyInv

LEMMA KeyDrop == ASSUME KeyInv, Rot!Drop PROVE KeyInv'
<1> USE KeysAssumption DEF Rot!Drop, Rot!Keys, Rot!None, Rot!Never, Rot!Times
<1>0. /\ KeyCounts /\ world \in Worlds /\ kept \in Firsts /\ run \in Runs
      /\ SignsOwn /\ conn \in Conns /\ past \in KeyPasts /\ TimesInOrder /\ WellDated
      /\ ChosenWell /\ SessionTold /\ Rot!SignsKnown
  BY KeyTypes DEF KeyInv
<1>1. Rot!TypeOK'
  <2>1. KeyCounts'
    BY <1>0, KeyHappens, Rot!Happens("drop")
  <2>2. conn' \in Conns
    BY <1>0 DEF Conns, Rot!Identities, Rot!NoKeys, Runs
  <2>4. UNCHANGED <<world, kept, run, past>>
    OBVIOUS
  <2> QED BY <1>0, <2>1, <2>2, <2>4, KeyTypes DEF SignsOwn
<1>2. TimesInOrder'
  BY <1>0 DEF TimesInOrder, Worlds, Runs, Firsts, Rot!Stopped
<1>3. WellDated'
  BY <1>0 DEF WellDated, Dated, TimesInOrder, Worlds, Runs, Firsts, KeyPasts,
     Rot!Stopped, Rot!NoKeys
<1>4. ChosenWell'
  BY <1>0 DEF ChosenWell, Withdrawn, TimesInOrder, WellDated, Rot!Identities, Worlds,
     Runs, Firsts, Rot!Stopped, Rot!NoKeys
<1>5. SessionTold'
  BY <1>0 DEF SessionTold, WellDated, Conns, Runs, KeyPasts, Rot!Stopped
<1>6. Rot!SignsKnown'
  BY <1>0 DEF Rot!SignsKnown, KeyPasts
<1> QED BY <1>1, <1>2, <1>3, <1>4, <1>5, <1>6 DEF KeyInv

LEMMA KeyMintKey == ASSUME KeyInv, Rot!MintKey PROVE KeyInv'
<1> USE KeysAssumption DEF Rot!MintKey, Rot!Keys, Rot!None, Rot!Never, Rot!Times
<1>0. /\ KeyCounts /\ world \in Worlds /\ kept \in Firsts /\ run \in Runs
      /\ SignsOwn /\ conn \in Conns /\ past \in KeyPasts /\ TimesInOrder /\ WellDated
      /\ ChosenWell /\ SessionTold /\ Rot!SignsKnown
  BY KeyTypes DEF KeyInv
<1>1. Rot!TypeOK'
  <2>1. KeyCounts'
    BY <1>0, KeyHappens, Rot!Happens("mint")
  <2>2. world' \in Worlds
    <3>1. world.made + 1 \in Rot!Keys
      BY <1>0 DEF Worlds
    <3> QED BY <1>0, <3>1 DEF Worlds
  <2>4. UNCHANGED <<kept, run, conn, past>>
    OBVIOUS
  <2> QED BY <1>0, <2>1, <2>2, <2>4, KeyTypes DEF SignsOwn
<1>2. TimesInOrder'
  <2>1. /\ world'.now = world.now /\ world'.since = world.since
        /\ world'.listed = world.listed /\ world'.made = world.made + 1
        /\ world.made \in Nat /\ world.listed \subseteq Nat
    BY <1>0 DEF Worlds
  <2> QED BY <1>0, <2>1 DEF TimesInOrder
<1>3. WellDated'
  BY <1>0 DEF WellDated, Dated, TimesInOrder, Worlds, Runs, Firsts, KeyPasts,
     Rot!Stopped, Rot!NoKeys
<1>4. ChosenWell'
  <2>1. \A l \in Rot!Keys : run.first[l] # Rot!Never => l # world.made + 1
    BY <1>0 DEF TimesInOrder, Worlds
  <2>2. \A l \in Rot!Keys : l # world.made + 1 => (l \in world'.released <=> l \in world.released)
    BY <1>0 DEF Worlds
  <2>3. /\ run.keys.signs # Rot!None => run.keys.signs \in Rot!Keys
        /\ \A l, m \in Rot!Keys : run.first[m] < run.first[l] => run.first[m] # Rot!Never
    BY <1>0 DEF Runs, Rot!Identities, Firsts
  <2> HIDE DEF Rot!Keys, Rot!Never
  <2> QED BY <1>0, <2>1, <2>2, <2>3 DEF ChosenWell, Withdrawn
<1>5. SessionTold'
  BY <1>0 DEF SessionTold, WellDated, Conns, Runs, KeyPasts, Rot!Stopped
<1>6. Rot!SignsKnown'
  BY <1>0 DEF Rot!SignsKnown, KeyPasts
<1> QED BY <1>1, <1>2, <1>3, <1>4, <1>5, <1>6 DEF KeyInv

LEMMA KeyList == ASSUME KeyInv, NEW k \in Rot!Keys, Rot!List(k) PROVE KeyInv'
<1> USE KeysAssumption DEF Rot!List, Rot!Keys, Rot!None, Rot!Never, Rot!Times
<1>0. /\ KeyCounts /\ world \in Worlds /\ kept \in Firsts /\ run \in Runs
      /\ SignsOwn /\ conn \in Conns /\ past \in KeyPasts /\ TimesInOrder /\ WellDated
      /\ ChosenWell /\ SessionTold /\ Rot!SignsKnown
  BY KeyTypes DEF KeyInv
<1>1. Rot!TypeOK'
  <2>1. KeyCounts'
    BY <1>0, KeyHappens, Rot!Happens("list")
  <2>2. world' \in Worlds
    BY <1>0 DEF Worlds
  <2>3. past' \in KeyPasts
    BY <1>0 DEF KeyPasts, Rot!Views, Runs, Worlds
  <2>5. UNCHANGED <<kept, run, conn>>
    OBVIOUS
  <2> QED BY <1>0, <2>1, <2>2, <2>3, <2>5, KeyTypes DEF SignsOwn
<1>2. TimesInOrder'
  <2>1. /\ world'.now = world.now /\ world'.listed = world.listed \cup {k}
        /\ world'.since = [world.since EXCEPT ![k] = world.now]
        /\ world'.made = world.made /\ k \in 1..world.made /\ world.now \in Nat
    BY <1>0 DEF Worlds
  <2>2. \A l \in Rot!Keys : world'.since[l] <= world.now
    BY <1>0, <2>1 DEF TimesInOrder, Worlds
  <2> QED BY <1>0, <2>1, <2>2 DEF TimesInOrder
<1>3. WellDated'
  <2>1. /\ world'.listed = world.listed \cup {k} /\ k \notin world.listed
        /\ world'.since[k] = world.now /\ world.now \in 0..MaxTicks
        /\ \A l \in Rot!Keys \ {k} : world'.since[l] = world.since[l]
    BY <1>0 DEF Worlds
  <2>2. /\ past'.unseen = past.unseen
        /\ \A l \in Rot!Keys \ {k} : l \in past'.shaky <=> l \in past.shaky
        /\ run.at \in {"load", "apply"} \/ k \in past.unseen => k \in past'.shaky
    BY <1>0 DEF KeyPasts
  <2>3. world.listed \subseteq Rot!Keys
    BY <1>0 DEF Worlds
  <2>4. \A times \in Firsts :
          Dated(times) /\ (k \in past.unseen \/ times[k] = Rot!Never)
            => \A l \in world'.listed \ past'.shaky : world'.since[l] <= times[l]
    <3> SUFFICES ASSUME NEW times \in Firsts, Dated(times),
                        k \in past.unseen \/ times[k] = Rot!Never,
                        NEW l \in world'.listed \ past'.shaky
                 PROVE  world'.since[l] <= times[l]
      OBVIOUS
    <3> QED BY <2>1, <2>2, <2>3 DEF Dated
  <2>5. \A times \in Firsts : Dated(times) => Dated(times)'
    <3> SUFFICES ASSUME NEW times \in Firsts, Dated(times) PROVE Dated(times)'
      OBVIOUS
    <3>1. k \in past.unseen \/ times[k] = Rot!Never
      BY <2>1 DEF Dated
    <3> QED BY <2>1, <2>2, <2>3, <2>4, <3>1 DEF Dated
  <2>6. kept \in Firsts /\ run.first \in Firsts /\ kept' = kept /\ run' = run /\ conn' = conn
    BY <1>0 DEF Runs
  <2>7. (run.at = "off" => Dated(kept)') /\ (run.at # "off" => Dated(run.first)')
    BY <1>0, <2>5, <2>6 DEF WellDated
  <2>8. run.at \in {"load", "apply"} =>
          \A l \in world'.listed \ past'.shaky : world'.since[l] <= run.clock
    BY <1>0, <2>1, <2>2, <2>3 DEF WellDated
  <2> QED BY <1>0, <2>6, <2>7, <2>8 DEF WellDated, Dated
<1>4. ChosenWell'
  BY <1>0 DEF ChosenWell, Withdrawn, TimesInOrder, WellDated, Rot!Identities, Worlds,
     Runs, Firsts, Rot!Stopped, Rot!NoKeys
<1>5. SessionTold'
  BY <1>0 DEF SessionTold, WellDated, Conns, Runs, KeyPasts, Rot!Stopped
<1>6. Rot!SignsKnown'
  BY <1>0 DEF Rot!SignsKnown, KeyPasts
<1> QED BY <1>1, <1>2, <1>3, <1>4, <1>5, <1>6 DEF KeyInv

LEMMA KeyUnlist == ASSUME KeyInv, NEW k \in Rot!Keys, Rot!Unlist(k) PROVE KeyInv'
<1> USE KeysAssumption DEF Rot!Unlist, Rot!Keys, Rot!None, Rot!Never, Rot!Times
<1>0. /\ KeyCounts /\ world \in Worlds /\ kept \in Firsts /\ run \in Runs
      /\ SignsOwn /\ conn \in Conns /\ past \in KeyPasts /\ TimesInOrder /\ WellDated
      /\ ChosenWell /\ SessionTold /\ Rot!SignsKnown
  BY KeyTypes DEF KeyInv
<1>1. Rot!TypeOK'
  <2>1. KeyCounts'
    BY <1>0, KeyHappens, Rot!Happens("unlist")
  <2>2. world' \in Worlds
    BY <1>0 DEF Worlds
  <2>3. past' \in KeyPasts
    BY <1>0 DEF KeyPasts, Rot!Views, Runs, Worlds
  <2>5. UNCHANGED <<kept, run, conn>>
    OBVIOUS
  <2> QED BY <1>0, <2>1, <2>2, <2>3, <2>5, KeyTypes DEF SignsOwn
<1>2. TimesInOrder'
  BY <1>0 DEF TimesInOrder, Worlds, Runs, Firsts, Rot!Stopped
<1>3. WellDated'
  BY <1>0 DEF WellDated, Dated, TimesInOrder, Worlds, Runs, Firsts, KeyPasts,
     Rot!Stopped, Rot!NoKeys
<1>4. ChosenWell'
  BY <1>0 DEF ChosenWell, Withdrawn, TimesInOrder, WellDated, Rot!Identities, Worlds,
     Runs, Firsts, Rot!Stopped, Rot!NoKeys
<1>5. SessionTold'
  BY <1>0 DEF SessionTold, WellDated, Conns, Runs, KeyPasts, Rot!Stopped
<1>6. Rot!SignsKnown'
  BY <1>0 DEF Rot!SignsKnown, KeyPasts
<1> QED BY <1>1, <1>2, <1>3, <1>4, <1>5, <1>6 DEF KeyInv

LEMMA KeyWithdraw == ASSUME KeyInv, NEW k \in Rot!Keys, Rot!Withdraw(k) PROVE KeyInv'
<1> USE KeysAssumption DEF Rot!Withdraw, Rot!Keys, Rot!None, Rot!Never, Rot!Times
<1>0. /\ KeyCounts /\ world \in Worlds /\ kept \in Firsts /\ run \in Runs
      /\ SignsOwn /\ conn \in Conns /\ past \in KeyPasts /\ TimesInOrder /\ WellDated
      /\ ChosenWell /\ SessionTold /\ Rot!SignsKnown
  BY KeyTypes DEF KeyInv
<1>1. Rot!TypeOK'
  <2>1. KeyCounts'
    BY <1>0, KeyHappens, Rot!Happens("withdraw")
  <2>2. world' \in Worlds
    BY <1>0 DEF Worlds
  <2>4. UNCHANGED <<kept, run, conn, past>>
    OBVIOUS
  <2> QED BY <1>0, <2>1, <2>2, <2>4, KeyTypes DEF SignsOwn
<1>2. TimesInOrder'
  <2>1. /\ world'.now = world.now /\ world'.since = world.since
        /\ world'.listed = world.listed /\ world'.made = world.made
    BY <1>0 DEF Worlds
  <2> QED BY <1>0, <2>1 DEF TimesInOrder
<1>3. WellDated'
  BY <1>0 DEF WellDated, Dated, TimesInOrder, Worlds, Runs, Firsts, KeyPasts,
     Rot!Stopped, Rot!NoKeys
<1>4. ChosenWell'
  BY <1>0 DEF ChosenWell, Withdrawn, TimesInOrder, WellDated, Rot!Identities, Worlds,
     Runs, Firsts, Rot!Stopped, Rot!NoKeys
<1>5. SessionTold'
  BY <1>0 DEF SessionTold, WellDated, Conns, Runs, KeyPasts, Rot!Stopped
<1>6. Rot!SignsKnown'
  BY <1>0 DEF Rot!SignsKnown, KeyPasts
<1> QED BY <1>1, <1>2, <1>3, <1>4, <1>5, <1>6 DEF KeyInv

LEMMA KeyTick == ASSUME KeyInv, Rot!Tick PROVE KeyInv'
<1> USE KeysAssumption DEF Rot!Tick, Rot!Keys, Rot!None, Rot!Never, Rot!Times
<1>0. /\ KeyCounts /\ world \in Worlds /\ kept \in Firsts /\ run \in Runs
      /\ SignsOwn /\ conn \in Conns /\ past \in KeyPasts /\ TimesInOrder /\ WellDated
      /\ ChosenWell /\ SessionTold /\ Rot!SignsKnown
  BY KeyTypes DEF KeyInv
<1>1. Rot!TypeOK'
  <2>1. KeyCounts'
    BY <1>0, KeyHappens, Rot!Happens("tick")
  <2>2. world' \in Worlds
    <3>1. world.now + 1 \in 0..MaxTicks
      BY <1>0 DEF Worlds
    <3> HIDE DEF Rot!Keys
    <3> QED BY <1>0, <3>1 DEF Worlds
  <2>4. UNCHANGED <<kept, run, conn, past>>
    OBVIOUS
  <2> QED BY <1>0, <2>1, <2>2, <2>4, KeyTypes DEF SignsOwn
<1>2. TimesInOrder'
  <2>1. /\ world'.now = world.now + 1 /\ world.now \in Nat /\ run.clock \in Nat
        /\ world'.since = world.since /\ world'.listed = world.listed
        /\ world'.made = world.made
    BY <1>0 DEF Worlds, Runs
  <2>2. \A k \in Rot!Keys : world.since[k] \in Nat /\ kept[k] \in Nat
    BY <1>0 DEF Worlds, Firsts
  <2> QED BY <1>0, <2>1, <2>2 DEF TimesInOrder
<1>3. WellDated'
  BY <1>0 DEF WellDated, Dated, TimesInOrder, Worlds, Runs, Firsts, KeyPasts,
     Rot!Stopped, Rot!NoKeys
<1>4. ChosenWell'
  BY <1>0 DEF ChosenWell, Withdrawn, TimesInOrder, WellDated, Rot!Identities, Worlds,
     Runs, Firsts, Rot!Stopped, Rot!NoKeys
<1>5. SessionTold'
  BY <1>0 DEF SessionTold, WellDated, Conns, Runs, KeyPasts, Rot!Stopped
<1>6. Rot!SignsKnown'
  BY <1>0 DEF Rot!SignsKnown, KeyPasts
<1> QED BY <1>1, <1>2, <1>3, <1>4, <1>5, <1>6 DEF KeyInv

LEMMA KeyCrash == ASSUME KeyInv, Rot!Crash PROVE KeyInv'
<1> USE KeysAssumption DEF Rot!Crash, Rot!Down, Rot!Keys, Rot!None, Rot!Never, Rot!Times
<1>0. /\ KeyCounts /\ world \in Worlds /\ kept \in Firsts /\ run \in Runs
      /\ SignsOwn /\ conn \in Conns /\ past \in KeyPasts /\ TimesInOrder /\ WellDated
      /\ ChosenWell /\ SessionTold /\ Rot!SignsKnown
  BY KeyTypes DEF KeyInv
<1>1. Rot!TypeOK'
  <2>1. KeyCounts'
    BY <1>0, KeyHappens, Rot!Happens("crash")
  <2>2. run' \in Runs
    <3>1. /\ [k \in Rot!Keys |-> Rot!Never] \in Firsts /\ 0 \in Rot!Times
          /\ Rot!NoKeys \in Rot!Identities /\ Rot!NoView \in Rot!Views
      BY DEF Firsts, Rot!Identities, Rot!NoKeys, Rot!NoView, Rot!Views
    <3>2. run' = Rot!Stopped
      OBVIOUS
    <3> HIDE DEF Rot!Keys, Rot!Never, Rot!Times
    <3> QED BY <3>1, <3>2 DEF Runs, Rot!Stopped, Rot!Steps
  <2>3. conn' \in Conns
    BY <1>0 DEF Conns, Rot!Identities, Rot!NoKeys, Runs
  <2>4. past' \in KeyPasts
    <3>1. /\ past.unseen \cup {k \in Rot!Keys : kept[k] # Rot!Never /\ k \notin world.listed} \in SUBSET Rot!Keys
          /\ past.shaky \cup {k \in world.listed : kept[k] < world.since[k]} \in SUBSET Rot!Keys
      BY <1>0 DEF KeyPasts, Worlds
    <3> HIDE DEF Rot!Keys, Rot!Never
    <3> QED BY <1>0, <3>1 DEF KeyPasts
  <2>5. SignsOwn'
    BY <1>0 DEF SignsOwn, Runs, Rot!Stopped, Rot!NoKeys
  <2>6. UNCHANGED <<world, kept>>
    OBVIOUS
  <2> QED BY <1>0, <2>1, <2>2, <2>3, <2>4, <2>5, <2>6, KeyTypes
<1>2. TimesInOrder'
  <2>1. /\ run'.clock = 0 /\ \A k \in Rot!Keys : run'.first[k] = Rot!Never
        /\ UNCHANGED <<world, kept>>
    BY DEF Rot!Stopped
  <2>2. 0 <= world.now
    BY <1>0 DEF Worlds
  <2> QED BY <1>0, <2>1, <2>2 DEF TimesInOrder
<1>3. WellDated'
  BY <1>0 DEF WellDated, Dated, TimesInOrder, Worlds, Runs, Firsts, KeyPasts,
     Rot!Stopped, Rot!NoKeys
<1>4. ChosenWell'
  BY <1>0 DEF ChosenWell, Withdrawn, TimesInOrder, WellDated, Rot!Identities, Worlds,
     Runs, Firsts, Rot!Stopped, Rot!NoKeys
<1>5. SessionTold'
  BY <1>0 DEF SessionTold, WellDated, Conns, Runs, KeyPasts, Rot!Stopped
<1>6. Rot!SignsKnown'
  BY <1>0 DEF Rot!SignsKnown, KeyPasts
<1> QED BY <1>1, <1>2, <1>3, <1>4, <1>5, <1>6 DEF KeyInv

(* What a check that took keys up leaves.                                   *)
LEMMA TakesUp ==
    ASSUME KeyInv, Rot!Apply
    PROVE  /\ \A k \in Rot!Keys :
                /\ k \notin world.listed => run'.first[k] = Rot!Never
                /\ k \in world.listed =>
                     /\ run'.first[k] # Rot!Never
                     /\ run.first[k] = Rot!Never => run'.first[k] = run.clock
                     /\ run.first[k] # Rot!Never => run'.first[k] = run.first[k]
           /\ \/ /\ run'.first[run'.keys.signs] + Horizon <= run.clock
                 /\ \A l \in Rot!Usable : run'.first[l] + Horizon <= run.clock
                                            => run'.first[l] <= run'.first[run'.keys.signs]
              \/ /\ \A l \in Rot!Usable : ~(run'.first[l] + Horizon <= run.clock)
                 /\ \A l \in Rot!Usable : run'.first[run'.keys.signs] <= run'.first[l]
<1> DEFINE signs == run'.keys.signs
<1>0. /\ KeyCounts /\ world \in Worlds /\ kept \in Firsts /\ run \in Runs
      /\ SignsOwn /\ conn \in Conns /\ past \in KeyPasts /\ TimesInOrder /\ WellDated
      /\ ChosenWell /\ SessionTold /\ Rot!SignsKnown
  BY KeyTypes DEF KeyInv
<1>1. /\ run.at = "apply" /\ Rot!Usable # {}
      /\ Rot!Replace(run'.keys, run'.first)
  BY <1>0 DEF Rot!Apply, Runs
<1>2. /\ run'.first \in Firsts /\ run'.keys \in Rot!Identities
      /\ signs \in Rot!Usable /\ signs \in run'.keys.held
      /\ run'.first = Rot!Observe(run.first, world.listed, run.clock)
      /\ signs = Rot!Choice(run'.first, Rot!Usable, run.clock)
      /\ run' = [run EXCEPT !.at = IF run.why = "start" THEN "link" ELSE "wait",
                            !.last = run.seen, !.first = run'.first, !.keys = run'.keys]
      /\ UNCHANGED <<world, kept, plan, count>>
  BY Applied
<1>4. /\ run.first \in Firsts /\ world.listed \in SUBSET Rot!Keys
      /\ run.clock \in 0..MaxTicks /\ run.clock \in Nat /\ world.now \in Nat
      /\ MaxKeys \in Nat /\ MaxTicks \in Nat /\ Horizon \in Nat
  BY <1>0, KeysAssumption DEF Runs, Worlds, Rot!Times
<1>5. \A k \in Rot!Keys :
        /\ k \notin world.listed => run'.first[k] = Rot!Never
        /\ k \in world.listed =>
             /\ run'.first[k] # Rot!Never
             /\ run.first[k] = Rot!Never => run'.first[k] = run.clock
             /\ run.first[k] # Rot!Never => run'.first[k] = run.first[k]
  BY <1>2, <1>4, Observed
<1>6. \/ /\ run'.first[signs] + Horizon <= run.clock
         /\ \A l \in Rot!Usable : run'.first[l] + Horizon <= run.clock => run'.first[l] <= run'.first[signs]
      \/ /\ \A l \in Rot!Usable : ~(run'.first[l] + Horizon <= run.clock)
         /\ \A l \in Rot!Usable : run'.first[signs] <= run'.first[l]
  <2>1. Rot!Usable \in SUBSET Rot!Keys
    BY <1>4 DEF Rot!Usable
  <2> QED BY <1>1, <1>2, <1>4, <2>1, ChoiceIs
<1> QED BY <1>5, <1>6

LEMMA KeyApply == ASSUME KeyInv, Rot!Apply PROVE KeyInv'
<1> DEFINE signs == run'.keys.signs
<1>0. /\ KeyCounts /\ world \in Worlds /\ kept \in Firsts /\ run \in Runs
      /\ SignsOwn /\ conn \in Conns /\ past \in KeyPasts /\ TimesInOrder /\ WellDated
      /\ ChosenWell /\ SessionTold /\ Rot!SignsKnown
  BY KeyTypes DEF KeyInv
<1>1. /\ run.at = "apply" /\ Rot!Usable # {}
      /\ Rot!Replace(run'.keys, run'.first)
  BY <1>0 DEF Rot!Apply, Runs
<1>2. /\ run'.first \in Firsts /\ run'.keys \in Rot!Identities
      /\ signs \in Rot!Usable /\ signs \in run'.keys.held
      /\ run'.first = Rot!Observe(run.first, world.listed, run.clock)
      /\ signs = Rot!Choice(run'.first, Rot!Usable, run.clock)
      /\ run' = [run EXCEPT !.at = IF run.why = "start" THEN "link" ELSE "wait",
                            !.last = run.seen, !.first = run'.first, !.keys = run'.keys]
      /\ UNCHANGED <<world, kept, plan, count>>
  BY Applied
<1>3. /\ run'.at \in {"link", "wait"} /\ run'.clock = run.clock
      /\ run'.asked = run.asked
  BY <1>0, <1>2 DEF Runs
<1>4. /\ run.first \in Firsts /\ world.listed \in SUBSET Rot!Keys
      /\ run.clock \in 0..MaxTicks /\ run.clock \in Nat /\ world.now \in Nat
      /\ MaxKeys \in Nat /\ MaxTicks \in Nat /\ Horizon \in Nat
  BY <1>0, KeysAssumption DEF Runs, Worlds, Rot!Times
<1>5. \A k \in Rot!Keys :
        /\ k \notin world.listed => run'.first[k] = Rot!Never
        /\ k \in world.listed =>
             /\ run'.first[k] # Rot!Never
             /\ run.first[k] = Rot!Never => run'.first[k] = run.clock
             /\ run.first[k] # Rot!Never => run'.first[k] = run.first[k]
  BY TakesUp
<1>6. \/ /\ run'.first[signs] + Horizon <= run.clock
         /\ \A l \in Rot!Usable : run'.first[l] + Horizon <= run.clock => run'.first[l] <= run'.first[signs]
      \/ /\ \A l \in Rot!Usable : ~(run'.first[l] + Horizon <= run.clock)
         /\ \A l \in Rot!Usable : run'.first[signs] <= run'.first[l]
  BY TakesUp
<1>7. /\ past' \in KeyPasts /\ conn' \in Conns
      /\ past'.shaky = past.shaky /\ past'.unseen = past.unseen \cap world.listed
  BY <1>0, <1>1, <1>2 DEF Rot!Replace, KeyPasts, Conns, Rot!Views, Runs, Worlds
<1>8. Rot!TypeOK'
  <2>1. KeyCounts'
    BY <1>0, <1>2 DEF KeyCounts
  <2>2. run' \in Runs
    BY <1>0, <1>2 DEF Runs, Rot!Steps
  <2>3. SignsOwn'
    BY <1>2 DEF SignsOwn
  <2> QED BY <1>0, <1>2, <1>7, <2>1, <2>2, <2>3, KeyTypes
<1>9. TimesInOrder'
  <2>1. \A k \in Rot!Keys : run'.first[k] # Rot!Never => run'.first[k] <= run.clock /\ k <= world.made
    <3> SUFFICES ASSUME NEW k \in Rot!Keys, run'.first[k] # Rot!Never
                 PROVE  run'.first[k] <= run.clock /\ k <= world.made
      OBVIOUS
    <3>1. k \in world.listed /\ k <= world.made
      BY <1>0, <1>5 DEF TimesInOrder
    <3> QED BY <1>0, <1>4, <1>5, <3>1 DEF TimesInOrder
  <2> QED BY <1>0, <1>2, <1>3, <2>1 DEF TimesInOrder
<1>10. /\ \A k \in world.listed \ past.shaky : world.since[k] <= run'.first[k]
       /\ \A k \in Rot!Keys \ (world.listed \cup past'.unseen) : run'.first[k] = Rot!Never
  BY <1>0, <1>1, <1>4, <1>5 DEF WellDated, Dated
<1>11. WellDated'
  BY <1>2, <1>3, <1>7, <1>10 DEF WellDated, Dated
<1>12. ChosenWell'
  <2>1. ASSUME NEW k \in Rot!Keys, run'.first[k] < run'.first[signs],
               \A l \in Rot!Usable : run'.first[signs] <= run'.first[l]
        PROVE  k \notin world.released
    <3>1. /\ run'.first[k] \in Nat /\ run'.first[signs] \in 0..Rot!Never /\ signs \in Rot!Keys
          /\ signs \in world.listed
      BY <1>2, <1>4 DEF Firsts, Rot!Never, Rot!Usable
    <3>2. k \notin Rot!Usable /\ run'.first[k] # Rot!Never
      BY <1>4, <2>1, <3>1 DEF Rot!Never
    <3>3. k \in world.listed /\ k \notin run.asked
      BY <1>5, <3>2 DEF Rot!Usable
    <3>4. run'.first[signs] <= run.clock
      BY <1>0, <1>4, <1>5, <3>1 DEF TimesInOrder
    <3>5. run.first[k] # Rot!Never
      BY <1>4, <1>5, <2>1, <3>1, <3>3, <3>4
    <3> QED BY <1>0, <1>1, <3>3, <3>5 DEF ChosenWell
  <2> QED BY <1>2, <1>3, <1>6, <2>1 DEF ChosenWell, Withdrawn
<1>13. SessionTold'
  BY <1>0, <1>1, <1>2 DEF SessionTold, Rot!Replace, Conns, KeyPasts
<1>14. Rot!SignsKnown'
  <2> SUFFICES ASSUME past'.hasty PROVE FALSE
    BY DEF Rot!SignsKnown
  <2>1. /\ signs \notin past.shaky /\ ~Rot!Known(signs)
        /\ \E k \in Rot!Usable : run'.first[k] + Horizon <= run.clock
    BY <1>0, <1>1 DEF Rot!Replace, KeyPasts
  <2>2. signs \in world.listed /\ signs \in Rot!Keys
    BY <1>2, <1>4 DEF Rot!Usable
  <2>3. world.since[signs] <= run'.first[signs] /\ run'.first[signs] + Horizon <= run.clock
    BY <1>6, <1>10, <2>1, <2>2
  <2>4. /\ world.since[signs] \in Nat /\ run'.first[signs] \in Nat /\ run.clock <= world.now
    BY <1>0, <1>2, <1>4, <2>2 DEF Worlds, Firsts, Rot!Times, Rot!Never, TimesInOrder
  <2> QED BY <1>4, <2>1, <2>2, <2>3, <2>4 DEF Rot!Known
<1> QED BY <1>8, <1>9, <1>11, <1>12, <1>13, <1>14 DEF KeyInv

(* Every step of the keys keeps what is known of them.                      *)
LEMMA KeyNext == ASSUME KeyInv, Rot!Next PROVE KeyInv'
<1>1. CASE Rot!KeyTask
  BY <1>1, KeyStart, KeyLoad, KeyApply, KeyRefuse, KeyWake, KeyAsk, KeyBaseline, KeyCheck
  DEF Rot!KeyTask
<1>2. CASE Rot!Session
  BY <1>2, KeyReadKeys, KeyMarkSeen, KeyConnect, KeyReconnect DEF Rot!Session
<1>3. CASE Rot!Wake("hup") \/ Rot!Fail \/ Rot!MirrorTimes \/ Rot!Drop
  BY <1>3, KeyWake, KeyFail, KeyMirrorTimes, KeyDrop
<1>4. CASE \/ Rot!MintKey \/ Rot!Tick \/ Rot!Crash
           \/ \E k \in Rot!Keys : Rot!List(k) \/ Rot!Unlist(k) \/ Rot!Withdraw(k)
  BY <1>4, KeyMintKey, KeyList, KeyUnlist, KeyWithdraw, KeyTick, KeyCrash
<1> QED BY <1>1, <1>2, <1>3, <1>4 DEF Rot!Next

(* The session reads the keys in service, or it is told that they changed.  *)
LEMMA KeyFollows == KeyInv => Rot!SessionFollows
  BY DEF KeyInv, SessionTold, Rot!SessionFollows

(* The signing key only moves on: its first-seen time never falls.          *)
LEMMA KeyMovesOn == ASSUME KeyInv, Rot!Next PROVE Rot!MovesOn
<1>0. run \in Runs /\ world \in Worlds /\ TimesInOrder /\ ChosenWell
  BY KeyTypes DEF KeyInv
<1>1. CASE Rot!Apply
  <2> DEFINE old == run.keys.signs
             new == run'.keys.signs
  <2> SUFFICES ASSUME old # Rot!None, old \in Rot!Usable PROVE run'.first[new] >= run'.first[old]
    BY DEF Rot!MovesOn
  <2>1. /\ run'.first \in Firsts /\ new \in Rot!Usable /\ run.first \in Firsts
        /\ Rot!Usable \subseteq Rot!Keys /\ Rot!Usable \subseteq world.listed
        /\ Rot!Usable \subseteq run.asked
        /\ run.clock \in 0..MaxTicks /\ Horizon \in Nat /\ MaxTicks \in Nat
        /\ run.at = "apply"
    BY <1>0, <1>1, Applied, KeysAssumption
    DEF Runs, Worlds, Rot!Times, Rot!Usable, Rot!Apply
  <2> SUFFICES ASSUME run'.first[new] < run'.first[old] PROVE FALSE
    BY <2>1 DEF Firsts, Rot!Never
  <2>2. \A k \in {old, new} :
          /\ run'.first[k] \in Nat /\ run.first[k] \in Nat
          /\ run.first[k] = Rot!Never => run'.first[k] = run.clock
          /\ run.first[k] # Rot!Never => run'.first[k] = run.first[k] /\ run.first[k] <= run.clock
    BY <1>0, <1>1, <2>1, TakesUp DEF Firsts, Rot!Never, TimesInOrder
  <2>3. ~(run'.first[old] + Horizon <= run.clock)
    BY <1>1, <2>1, <2>2, TakesUp
  <2>4. ~(run.first[old] + Horizon <= run.clock)
    BY <2>1, <2>2, <2>3 DEF Rot!Never
  <2>5. run.first[new] < run.first[old] => new \notin run.asked
    BY <1>0, <2>1, <2>4 DEF ChosenWell, Withdrawn
  <2>6. run.first[new] >= run.first[old]
    BY <2>1, <2>2, <2>5
  <2> QED BY <2>1, <2>2, <2>6 DEF Rot!Never
<1>2. CASE Rot!Crash
  BY <1>2 DEF Rot!Crash, Rot!Stopped, Rot!NoKeys, Rot!MovesOn
<1>3. ASSUME ~Rot!Apply, ~Rot!Crash PROVE run'.keys = run.keys
  BY <1>0, <1>3 DEF Runs, Rot!Next, Rot!KeyTask, Rot!Session, Rot!Start, Rot!Load,
     Rot!Refuse,
    Rot!Again, Rot!Fail, Rot!Wake, Rot!Ask, Rot!Baseline, Rot!Check, Rot!MirrorTimes,
    Rot!ReadKeys, Rot!MarkSeen, Rot!Connect, Rot!Reconnect, Rot!Drop, Rot!MintKey, Rot!List,
    Rot!Unlist, Rot!Withdraw, Rot!Tick
<1> QED BY <1>1, <1>2, <1>3 DEF Rot!MovesOn

(* What was just taken up is due for no switch.                             *)
LEMMA KeyExportsEnd == ASSUME KeyInv PROVE Rot!ExportsEnd
<1> DEFINE signs == run'.keys.signs
<1> SUFFICES ASSUME Rot!Apply, world.listed \subseteq run.asked,
                    NEW k \in Rot!Keys, run'.first[k] # Rot!Never,
                    run'.first[k] > run'.first[signs], run'.first[k] + Horizon <= run.clock
             PROVE  FALSE
  BY DEF Rot!ExportsEnd, Rot!SwitchDue
<1>1. k \in Rot!Usable
  BY TakesUp DEF Rot!Usable
<1>2. run'.first[k] \in Nat /\ run'.first[signs] \in Nat
  <2>1. run'.first \in Firsts /\ signs \in Rot!Usable /\ Rot!Usable \subseteq Rot!Keys
    BY Applied, KeyTypes DEF KeyInv, Worlds, Rot!Usable
  <2> QED BY <2>1, KeysAssumption DEF Firsts, Rot!Never
<1> QED BY <1>1, <1>2, TakesUp

-----------------------------------------------------------------------------
(* The re-sign.                                                             *)

(* The types, variable by variable.                                         *)
Branches == [head : 0..MaxHeads, holds : [Sign!Heads -> SUBSET Sign!Who], next : 1..(MaxHeads + 1),
             pull : Nat, before : 0..MaxHeads, life : Nat, now : 1..MaxSeconds]
SignPosts == [kind : {"push"}, push : Sign!Pushes, at : 1..MaxSeconds]
               \cup [kind : {"gone"}, at : 1..MaxSeconds] \cup [kind : {"pull"}, pull : Nat]
Ledgers == [kept : BOOLEAN, pushes : SUBSET Sign!Pushes, own : SUBSET (Sign!Heads \X Sign!Heads),
            pull : Nat, last : 0..MaxSeconds, over : BOOLEAN]
SignRuns == [n : 1..Concurrent, pull : Nat, head : 0..MaxHeads, new : 0..MaxHeads,
             at : {"read", "judge", "permit", "held", "record", "send"}]
Vouchers == [heads : SUBSET Sign!Heads, turned : BOOLEAN, erased : BOOLEAN,
             lost : SUBSET (Sign!Heads \X Sign!Heads)]
SignCounts == plan \in [Sign!Moves -> Nat]

LEMMA SignTypes ==
    /\ Sign!TypeOK <=> SignCounts /\ branch \in Branches /\ posts \in SUBSET SignPosts
                         /\ ledger \in Ledgers /\ runs \in SUBSET SignRuns /\ vouched \in Vouchers
    /\ Sign!TypeOK' <=> SignCounts' /\ branch' \in Branches /\ posts' \in SUBSET SignPosts
                          /\ ledger' \in Ledgers /\ runs' \in SUBSET SignRuns /\ vouched' \in Vouchers
<1>1. posts \in SUBSET SignPosts <=> \A d \in posts : d \in SignPosts
  OBVIOUS
<1>2. runs \in SUBSET SignRuns <=> \A r \in runs : r \in SignRuns
  OBVIOUS
<1>3. posts' \in SUBSET SignPosts <=> \A d \in posts' : d \in SignPosts
  OBVIOUS
<1>4. runs' \in SUBSET SignRuns <=> \A r \in runs' : r \in SignRuns
  OBVIOUS
<1>5. Sign!TypeOK <=> SignCounts /\ branch \in Branches /\ (\A d \in posts : d \in SignPosts)
                        /\ ledger \in Ledgers /\ (\A r \in runs : r \in SignRuns) /\ vouched \in Vouchers
  BY DEF Sign!TypeOK, SignCounts, Branches, SignPosts, Ledgers, SignRuns, Vouchers
<1>6. Sign!TypeOK' <=> SignCounts' /\ branch' \in Branches /\ (\A d \in posts' : d \in SignPosts)
                        /\ ledger' \in Ledgers /\ (\A r \in runs' : r \in SignRuns) /\ vouched' \in Vouchers
  BY DEF Sign!TypeOK, SignCounts, Branches, SignPosts, Ledgers, SignRuns, Vouchers
<1> QED BY <1>1, <1>2, <1>3, <1>4, <1>5, <1>6

LEMMA SignHappens ==
    ASSUME SignCounts, NEW e, Sign!Happens(e) \/ Sign!Quiet
    PROVE  SignCounts'
  BY DEF SignCounts, Sign!Happens, Sign!Quiet

(* A push that is told of is one that was: a head once pushed holds the     *)
(* same ever after, and what Dependabot pushed adds but its own.            *)
Told(p) ==
  /\ p.after < branch.next /\ p.before < branch.next
  /\ p.created <=> p.before = Sign!None
  /\ p.who = "dependabot" =>
       branch.holds[p.after] \subseteq
         {"dependabot"} \cup (IF p.created THEN {} ELSE branch.holds[p.before])

(* The bridge's own is on record, or the record was erased.                 *)
OnRecord(o) == o \in ledger.own \cup vouched.lost
Vouched(p) == p.who = "bridge" => OnRecord(<<p.before, p.after>>)

Pushed(h) == h \in Sign!Heads /\ h < branch.next
BridgeHead(h) == Pushed(h) /\ branch.holds[h] = {"bridge"}

HeadsWere ==
  /\ branch.head # Sign!None => Pushed(branch.head)
  /\ branch.before # Sign!None => Pushed(branch.before)
  /\ \A h \in Sign!Heads : h < branch.next => branch.holds[h] # {}
  /\ \A h \in vouched.heads : Pushed(h)

RunKnows(r) ==
  /\ r.at # "read" => Pushed(r.head)
  /\ r.at \in {"permit", "held", "record", "send"} => "writer" \notin branch.holds[r.head]
  /\ r.at \in {"record", "send"} =>
       "bridge" \notin branch.holds[r.head] /\ BridgeHead(r.new)
  /\ r.at = "send" => OnRecord(<<r.head, r.new>>)

PostsTold == \A d \in posts : d.kind = "push" => Told(d.push) /\ Vouched(d.push)
LedgerTold == \A p \in ledger.pushes : Told(p) /\ Vouched(p)
OwnAreOwn == \A o \in ledger.own : BridgeHead(o[2])
RunsKnow == \A r \in runs : RunKnows(r)

SignInv ==
  /\ Sign!TypeOK /\ HeadsWere /\ PostsTold /\ LedgerTold /\ OwnAreOwn /\ RunsKnow
  /\ Sign!OnlyDependabots

LEMMA SignInit == Sign!Init => SignInv
<1> SUFFICES ASSUME Sign!Init PROVE SignInv
  OBVIOUS
<1> USE SignAssumption DEF Sign!Init, Sign!NoLedger, Sign!None
<1>1. Sign!TypeOK
  BY SignTypes DEF SignCounts, Branches, Ledgers, Vouchers, Sign!Heads
<1>2. HeadsWere /\ PostsTold /\ LedgerTold /\ OwnAreOwn /\ RunsKnow /\ Sign!OnlyDependabots
  BY DEF HeadsWere, PostsTold, LedgerTold, OwnAreOwn, RunsKnow, Sign!OnlyDependabots,
     Sign!Heads
<1> QED BY <1>1, <1>2 DEF SignInv

(* A branch judged clean holds no writer's commit: were there one in its    *)
(* head, the walk back would stay among heads that hold it, and the         *)
(* creation it ends at was Dependabot's.                                    *)
LEMMA CleanIsClean ==
    ASSUME SignInv, NEW h, Pushed(h), Sign!Clean(h)
    PROVE  "writer" \notin branch.holds[h]
<1> SUFFICES ASSUME "writer" \in branch.holds[h] PROVE FALSE
  OBVIOUS
<1> DEFINE W == {a \in Sign!Heads : "writer" \in branch.holds[a]}
<1>0. ledger \in Ledgers /\ branch \in Branches /\ MaxHeads \in Nat
  BY SignTypes, SignAssumption DEF SignInv
<1>1. \A p \in ledger.pushes : p \in Sign!Pushes /\ Told(p) /\ (p.who = "dependabot" \/ Sign!Own(p))
  BY <1>0 DEF Sign!Clean, Sign!Foreign, SignInv, LedgerTold, Ledgers
<1>2. ASSUME NEW l \in Sign!Links, l[2] \in W PROVE l[1] \in W
  <2>1. l \notin ledger.own
    BY <1>2 DEF SignInv, OwnAreOwn, BridgeHead
  <2>2. PICK p \in ledger.pushes : ~p.created /\ l = <<p.before, p.after>>
    BY <2>1 DEF Sign!Links
  <2>3. p.who = "dependabot"
    BY <1>1, <2>1, <2>2 DEF Sign!Own
  <2>4. p.before \in Sign!Heads
    BY <1>0, <1>1, <2>2 DEF Told, Sign!Pushes, Sign!None, Sign!Heads
  <2>5. "writer" \in branch.holds[p.before]
    BY <1>1, <1>2, <2>2, <2>3 DEF Told
  <2> QED BY <2>2, <2>4, <2>5
<1>3. Sign!Walks(W)
  BY <1>2 DEF Sign!Walks
<1>4. h \in W /\ W \in SUBSET (0..MaxHeads)
  BY <1>0 DEF Pushed, Sign!Heads
<1> HIDE DEF W
<1>5. Sign!Back(h) \subseteq W
  BY <1>3, <1>4 DEF Sign!Back
<1>6. PICK p \in ledger.pushes : p.created /\ p.who = "dependabot" /\ p.after \in Sign!Back(h)
  BY DEF Sign!Clean
<1>7. "writer" \in branch.holds[p.after]
  BY <1>5, <1>6 DEF W
<1> QED BY <1>1, <1>6, <1>7 DEF Told

(* What a step has to show: what was pushed stays as it was, what was on    *)
(* record stays there, and what is new is as it should be.                  *)
Grows == \A h : Pushed(h) => Pushed(h)' /\ branch'.holds[h] = branch.holds[h]
NewHeads ==
  /\ branch'.head # Sign!None => Pushed(branch.head)'
  /\ branch'.before # Sign!None => Pushed(branch.before)'
  /\ \A h \in Sign!Heads : h < branch'.next /\ ~Pushed(h) => branch'.holds[h] # {}
NewTold ==
  /\ \A d \in posts' : d \notin posts /\ d.kind = "push" => Told(d.push)' /\ Vouched(d.push)'
  /\ \A p \in ledger'.pushes : p \in ledger.pushes \/ (Told(p)' /\ Vouched(p)')
  /\ \A o \in ledger'.own : o \in ledger.own \/ BridgeHead(o[2])'
  /\ \A o : OnRecord(o) => OnRecord(o)'
NewRuns == \A r \in runs' : r \in runs \/ RunKnows(r)'
NewVouched ==
  \A h \in vouched'.heads :
    h \in vouched.heads \/ (Pushed(h)' /\ branch'.holds[h] = {"dependabot"})

LEMMA SignStep ==
    ASSUME SignInv, Sign!TypeOK', Grows, NewHeads, NewTold, NewRuns, NewVouched
    PROVE  SignInv'
<1>0. branch \in Branches /\ branch' \in Branches /\ MaxHeads \in Nat /\ ledger \in Ledgers
      /\ posts \in SUBSET SignPosts
  BY SignTypes, SignAssumption DEF SignInv
<1>1. \A p \in Sign!Pushes : Told(p) => Told(p)'
  <2> SUFFICES ASSUME NEW p \in Sign!Pushes, Told(p) PROVE Told(p)'
    OBVIOUS
  <2>1. Pushed(p.after) /\ (~p.created => Pushed(p.before)) /\ (p.before = 0 \/ Pushed(p.before))
    BY <1>0 DEF Told, Pushed, Sign!Pushes, Sign!Heads, Sign!None, Branches
  <2>2. p.after < branch'.next /\ p.before < branch'.next
    BY <1>0, <2>1 DEF Grows, Pushed, Branches
  <2> QED BY <2>1, <2>2 DEF Told, Grows
<1>2. \A h : BridgeHead(h) => BridgeHead(h)'
  BY DEF BridgeHead, Grows
<1>3. \A p : Vouched(p) => Vouched(p)'
  BY DEF Vouched, NewTold
<1>4. \A r : RunKnows(r) => RunKnows(r)'
  <2> SUFFICES ASSUME NEW r, RunKnows(r) PROVE RunKnows(r)'
    OBVIOUS
  <2>1. r.at # "read" => Pushed(r.head)' /\ branch'.holds[r.head] = branch.holds[r.head]
    BY DEF RunKnows, Grows
  <2>2. r.at = "send" => OnRecord(<<r.head, r.new>>)'
    BY DEF RunKnows, NewTold
  <2> QED BY <1>2, <2>1, <2>2 DEF RunKnows
<1>5. HeadsWere'
  <2>1. \A h \in Sign!Heads : h < branch'.next => branch'.holds[h] # {}
    BY DEF SignInv, HeadsWere, Grows, NewHeads, Pushed
  <2>2. \A h \in vouched'.heads : Pushed(h)'
    BY DEF SignInv, HeadsWere, Grows, NewVouched
  <2> QED BY <2>1, <2>2 DEF HeadsWere, NewHeads
<1>6. PostsTold'
  <2>1. \A d \in posts : d.kind = "push" => d.push \in Sign!Pushes
    BY <1>0 DEF SignPosts
  <2> QED BY <1>1, <1>3, <2>1 DEF SignInv, PostsTold, NewTold
<1>7. LedgerTold'
  <2>1. \A p \in ledger.pushes : p \in Sign!Pushes
    BY <1>0 DEF Ledgers
  <2> QED BY <1>1, <1>3, <2>1 DEF SignInv, LedgerTold, NewTold
<1>8. OwnAreOwn'
  BY <1>2 DEF SignInv, OwnAreOwn, NewTold
<1>9. RunsKnow'
  BY <1>4 DEF SignInv, RunsKnow, NewRuns
<1>10. Sign!OnlyDependabots'
  BY DEF SignInv, HeadsWere, Grows, NewVouched, Sign!OnlyDependabots
<1> QED BY <1>5, <1>6, <1>7, <1>8, <1>9, <1>10 DEF SignInv

(* A step that leaves the branch alone.                                     *)
LEMMA SignStill ==
    ASSUME SignInv, Sign!TypeOK', UNCHANGED branch, NewTold, NewRuns, NewVouched
    PROVE  SignInv'
<1>1. Grows /\ NewHeads
  BY DEF Grows, NewHeads, Pushed, SignInv, HeadsWere
<1> QED BY <1>1, SignStep

(* A branch with some of its fields changed.                                *)
LEMMA BranchWith ==
    ASSUME NEW A, NEW B, NEW C, NEW D, NEW E, NEW F, NEW G,
           NEW b \in [head : A, holds : B, next : C, pull : D, before : E, life : F, now : G],
           NEW h \in A, NEW o, NEW s, [b.holds EXCEPT ![s] = o] \in B, NEW n \in C,
           NEW p \in D, NEW e \in E, NEW l \in F, NEW t \in G, NEW c
    PROVE  /\ c = [b EXCEPT !.head = h, !.holds[s] = o, !.next = n, !.now = t, !.before = e,
                            !.life = l, !.pull = p] =>
                /\ c \in [head : A, holds : B, next : C, pull : D, before : E, life : F, now : G]
                /\ c.head = h /\ c.holds = [b.holds EXCEPT ![s] = o] /\ c.next = n
                /\ c.before = e
           /\ c = [b EXCEPT !.head = h, !.before = e, !.pull = p] =>
                /\ c \in [head : A, holds : B, next : C, pull : D, before : E, life : F, now : G]
                /\ c.head = h /\ c.holds = b.holds /\ c.next = b.next /\ c.before = e
           /\ c = [b EXCEPT !.holds[s] = o, !.next = n] =>
                /\ c \in [head : A, holds : B, next : C, pull : D, before : E, life : F, now : G]
                /\ c.head = b.head /\ c.holds = [b.holds EXCEPT ![s] = o] /\ c.next = n
                /\ c.before = b.before
           /\ c = [b EXCEPT !.head = h, !.before = e] =>
                /\ c \in [head : A, holds : B, next : C, pull : D, before : E, life : F, now : G]
                /\ c.head = h /\ c.holds = b.holds /\ c.next = b.next /\ c.before = e
  OBVIOUS

LEMMA SignPushes ==
    ASSUME SignInv, SignCounts', NEW who \in {"dependabot", "writer"},
           NEW holds \in SUBSET Sign!Who, holds # {},
           who = "dependabot" => holds \subseteq {"dependabot"} \cup
             (IF branch.head = Sign!None THEN {} ELSE branch.holds[branch.head]),
           Sign!Moves2(who, holds), UNCHANGED <<ledger, runs, vouched>>
    PROVE  SignInv'
<1>0. branch \in Branches /\ posts \in SUBSET SignPosts /\ ledger \in Ledgers
      /\ runs \in SUBSET SignRuns /\ vouched \in Vouchers /\ MaxHeads \in Nat /\ HeadsWere
  BY SignTypes, SignAssumption DEF SignInv
<1> PICK h, b : h = branch.next /\ b = branch.head
  OBVIOUS
<1>1. PICK t \in {branch.now, branch.now + 1} \cap 1..MaxSeconds :
        /\ h \in Sign!Heads
        /\ branch' = [branch EXCEPT
             !.head = h, !.holds[h] = holds, !.next = @ + 1, !.now = t,
             !.before = IF branch.head = Sign!None THEN h ELSE branch.head,
             !.life = IF branch.head = Sign!None THEN @ + 1 ELSE @,
             !.pull = IF branch.head = Sign!None THEN branch.life + 1 ELSE @]
        /\ posts' = posts \cup {Sign!Post(b, h, who, t)} \cup {Sign!Pull(branch'.pull)}
  BY DEF Sign!Moves2
<1>2. /\ branch' \in Branches /\ branch'.head = h /\ branch'.next = h + 1
      /\ branch'.holds = [branch.holds EXCEPT ![h] = holds]
      /\ branch'.before = IF b = Sign!None THEN h ELSE b
  <2> DEFINE e == IF branch.head = Sign!None THEN h ELSE branch.head
             l == IF branch.head = Sign!None THEN branch.life + 1 ELSE branch.life
             p == IF branch.head = Sign!None THEN branch.life + 1 ELSE branch.pull
  <2>1. branch.head \in 0..MaxHeads /\ branch.holds \in [Sign!Heads -> SUBSET Sign!Who]
        /\ h \in 1..MaxHeads /\ branch.life \in Nat /\ branch.pull \in Nat
    BY <1>0, <1>1 DEF Branches, Sign!Heads
  <2>2. /\ h \in 0..MaxHeads /\ h + 1 \in 1..(MaxHeads + 1) /\ e \in 0..MaxHeads
        /\ l \in Nat /\ p \in Nat /\ t \in 1..MaxSeconds
        /\ [branch.holds EXCEPT ![h] = holds] \in [Sign!Heads -> SUBSET Sign!Who]
    BY <1>0, <1>1, <2>1
  <2>3. branch' = [branch EXCEPT !.head = h, !.holds[h] = holds, !.next = h + 1, !.now = t,
                                 !.before = e, !.life = l, !.pull = p]
    BY <1>1, Zenon
  <2> HIDE DEF e, l, p
  <2>4. branch' \in Branches /\ branch'.head = h /\ branch'.next = h + 1
        /\ branch'.holds = [branch.holds EXCEPT ![h] = holds] /\ branch'.before = e
    BY <1>0, <2>2, <2>3, BranchWith DEF Branches
  <2> QED BY <2>4 DEF e
<1>3. Sign!Post(b, h, who, t) \in SignPosts /\ Sign!Pull(branch'.pull) \in SignPosts
  BY <1>0, <1>1, <1>2 DEF Branches, SignPosts, Sign!Post, Sign!Pull, Sign!Pushes,
     Sign!Who, Sign!Heads
<1>4. Sign!TypeOK'
  BY <1>0, <1>1, <1>2, <1>3, SignTypes
<1>5. Grows
  BY <1>0, <1>1, <1>2 DEF Grows, Pushed, Branches, Sign!Heads
<1>6. /\ Pushed(h)' /\ branch'.holds[h] = holds /\ ~Pushed(h)
      /\ b # Sign!None => Pushed(b)' /\ branch'.holds[b] = branch.holds[b]
      /\ b < branch'.next
  <2>1. h \in Nat /\ branch.holds \in [Sign!Heads -> SUBSET Sign!Who] /\ b \in Nat
    BY <1>0, <1>1 DEF Branches, Sign!Heads
  <2>2. b # Sign!None => Pushed(b)
    BY <1>0 DEF HeadsWere
  <2> QED BY <1>1, <1>2, <1>5, <2>1, <2>2 DEF Pushed, Grows, Sign!None
<1>7. NewHeads
  <2>1. branch'.next = h + 1 /\ h \in Nat /\ h = branch.next
    BY <1>1, <1>2 DEF Sign!Heads
  <2>2. \A g \in Sign!Heads : g < branch'.next /\ ~Pushed(g) => g = h
    BY <2>1 DEF Pushed, Sign!Heads
  <2> QED BY <1>2, <1>6, <2>2 DEF NewHeads
<1>8. PICK d0 : d0 = Sign!Post(b, h, who, t)
  OBVIOUS
<1>9. Told(d0.push)' /\ Vouched(d0.push)'
  <2>1. /\ d0.push.before = b /\ d0.push.after = h /\ d0.push.who = who
        /\ d0.push.created = (b = Sign!None)
    BY <1>8 DEF Sign!Post
  <2>2. h < branch'.next
    BY <1>0, <1>1, <1>2 DEF Branches, Sign!Heads
  <2> QED BY <1>6, <2>1, <2>2 DEF Told, Vouched
<1>10. NewTold
  <2>1. \A o : OnRecord(o) => OnRecord(o)'
    BY DEF OnRecord
  <2>2. \A d \in posts' : d \notin posts /\ d.kind = "push" => d = d0
    BY <1>1, <1>8 DEF Sign!Pull
  <2> QED BY <1>9, <2>1, <2>2 DEF NewTold
<1>11. NewRuns /\ NewVouched
  BY DEF NewRuns, NewVouched
<1> QED BY <1>4, <1>5, <1>7, <1>10, <1>11, SignStep

LEMMA SignDependabotPushes ==
    ASSUME SignInv, NEW over, Sign!DependabotPushes(over) PROVE SignInv'
<1>0. branch \in Branches /\ HeadsWere /\ SignCounts'
  BY SignTypes, SignHappens DEF SignInv, Sign!DependabotPushes
<1> DEFINE holds == {"dependabot"} \cup IF over THEN {} ELSE branch.holds[branch.head]
<1>1. holds \in SUBSET Sign!Who /\ holds # {}
      /\ holds \subseteq {"dependabot"} \cup
           (IF branch.head = Sign!None THEN {} ELSE branch.holds[branch.head])
  BY <1>0 DEF Sign!DependabotPushes, HeadsWere, Pushed, Branches, Sign!Who
<1>2. Sign!Moves2("dependabot", holds) /\ UNCHANGED <<ledger, runs, vouched>>
  BY DEF Sign!DependabotPushes
<1> HIDE DEF holds
<1> QED BY <1>0, <1>1, <1>2, SignPushes

LEMMA SignWriterPushes == ASSUME SignInv, Sign!WriterPushes PROVE SignInv'
<1>0. branch \in Branches /\ HeadsWere /\ SignCounts'
  BY SignTypes, SignHappens DEF SignInv, Sign!WriterPushes
<1> DEFINE holds == {"writer"} \cup
             IF branch.head = Sign!None THEN {} ELSE branch.holds[branch.head]
<1>1. holds \in SUBSET Sign!Who /\ holds # {}
  BY <1>0 DEF HeadsWere, Pushed, Branches, Sign!Who
<1>2. Sign!Moves2("writer", holds) /\ UNCHANGED <<ledger, runs, vouched>>
  BY DEF Sign!WriterPushes
<1> HIDE DEF holds
<1> QED BY <1>0, <1>1, <1>2, SignPushes

LEMMA SignDeleteBranch == ASSUME SignInv, Sign!DeleteBranch PROVE SignInv'
<1>0. branch \in Branches /\ posts \in SUBSET SignPosts /\ ledger \in Ledgers
      /\ runs \in SUBSET SignRuns /\ vouched \in Vouchers /\ SignCounts' /\ MaxHeads \in Nat
  BY SignTypes, SignHappens, SignAssumption DEF SignInv, Sign!DeleteBranch
<1>1. /\ branch' \in Branches /\ branch'.holds = branch.holds /\ branch'.next = branch.next
      /\ branch'.head = Sign!None /\ branch'.before = Sign!None
  <2>1. branch' = [branch EXCEPT !.head = 0, !.before = 0, !.pull = 0]
    BY DEF Sign!DeleteBranch, Sign!None
  <2>2. 0 \in 0..MaxHeads /\ 0 \in Nat
    BY <1>0
  <2> QED BY <1>0, <2>1, <2>2, BranchWith DEF Branches, Sign!None
<1>2. posts' = posts \cup {[kind |-> "gone", at |-> branch.now]} /\ posts' \in SUBSET SignPosts
  BY <1>0 DEF Sign!DeleteBranch, SignPosts, Branches
<1>3. Sign!TypeOK'
  BY <1>0, <1>1, <1>2, SignTypes DEF Sign!DeleteBranch
<1>4. Grows /\ NewHeads
  BY <1>1 DEF Grows, NewHeads, Pushed
<1>5. NewTold /\ NewRuns /\ NewVouched
  <2>1. \A d \in posts' : d \notin posts => d.kind # "push"
    BY <1>2
  <2> QED BY <2>1 DEF NewTold, NewRuns, NewVouched, OnRecord, Sign!DeleteBranch
<1> QED BY <1>3, <1>4, <1>5, SignStep

LEMMA SignLose == ASSUME SignInv, NEW d, Sign!Lose(d) PROVE SignInv'
<1>1. Sign!TypeOK'
  BY SignTypes, SignHappens DEF SignInv, Sign!Lose
<1>2. NewTold /\ NewRuns /\ NewVouched
  BY DEF NewTold, NewRuns, NewVouched, OnRecord, Sign!Lose
<1> QED BY <1>1, <1>2, SignStill DEF Sign!Lose

LEMMA SignSpawn ==
    ASSUME SignInv, NEW n \in Nat, Sign!Spawn(n)
    PROVE  runs' \in SUBSET SignRuns /\ NewRuns
<1>0. runs \in SUBSET SignRuns
  BY SignTypes DEF SignInv
<1>1. \A r \in Sign!Spawned(n) : r \in SignRuns /\ r.at = "read"
  BY SignAssumption DEF Sign!Spawned, SignRuns, Sign!None
<1>2. \A r \in runs' : r \in runs \/ r \in Sign!Spawned(n)
  BY DEF Sign!Spawn
<1>3. NewRuns
  BY <1>1, <1>2 DEF NewRuns, RunKnows
<1> QED BY <1>0, <1>1, <1>2, <1>3

LEMMA SignErases ==
    ASSUME SignInv, Sign!Erases
    PROVE  /\ vouched' \in Vouchers /\ vouched'.heads = vouched.heads
           /\ vouched'.lost = vouched.lost \cup ledger.own
<1>1. ledger \in Ledgers /\ vouched \in Vouchers
  BY SignTypes DEF SignInv
<1> QED BY <1>1 DEF Sign!Erases, Vouchers, Ledgers

(* A record with some of its fields changed.                                *)
LEMMA LedgerWith ==
    ASSUME NEW A, NEW B, NEW C, NEW D, NEW E, NEW F,
           NEW b \in [kept : A, pushes : B, own : C, pull : D, last : E, over : F],
           NEW k \in A, NEW p \in B, NEW n \in D, NEW l \in E, NEW v \in F, NEW c
    PROVE  /\ c = [b EXCEPT !.pull = n, !.last = l] =>
                /\ c \in [kept : A, pushes : B, own : C, pull : D, last : E, over : F]
                /\ c.pushes = b.pushes /\ c.own = b.own
           /\ c = [b EXCEPT !.kept = k, !.last = l, !.over = v, !.pushes = p] =>
                /\ c \in [kept : A, pushes : B, own : C, pull : D, last : E, over : F]
                /\ c.pushes = p /\ c.own = b.own
  OBVIOUS

LEMMA SignOnPush == ASSUME SignInv, NEW d, Sign!OnPush(d) PROVE SignInv'
<1>0. /\ branch \in Branches /\ posts \in SUBSET SignPosts /\ ledger \in Ledgers
      /\ runs \in SUBSET SignRuns /\ vouched \in Vouchers /\ SignCounts' /\ MaxHeads \in Nat
  BY SignTypes, SignHappens, SignAssumption DEF SignInv, Sign!OnPush
<1>1. d \in posts /\ d.push \in Sign!Pushes /\ d.at \in 1..MaxSeconds
  BY <1>0 DEF Sign!OnPush, SignPosts
<1> DEFINE anew == d.push.created /\ Sign!Newest(d.at)
<1>2. PICK l : l = IF anew
                   THEN [Sign!NoLedger EXCEPT !.pull = ledger.pull, !.last = ledger.last]
                   ELSE ledger
  OBVIOUS
<1>3. l \in Ledgers /\ l.pushes \subseteq ledger.pushes
      /\ l.own = IF anew THEN {} ELSE ledger.own
  <2>1. Sign!NoLedger \in Ledgers /\ Sign!NoLedger.pushes = {} /\ Sign!NoLedger.own = {}
    BY SignAssumption DEF Sign!NoLedger, Ledgers, Sign!None
  <2>2. ledger.pull \in Nat /\ ledger.last \in 0..MaxSeconds /\ TRUE \in BOOLEAN
        /\ {} \in SUBSET Sign!Pushes
    BY <1>0 DEF Ledgers
  <2>3. anew => l \in Ledgers /\ l.pushes = {} /\ l.own = {}
    BY <1>2, <2>1, <2>2, LedgerWith DEF Ledgers
  <2>4. ~anew => l = ledger
    BY <1>2
  <2> QED BY <1>0, <2>3, <2>4
<1>4. /\ ledger' \in Ledgers /\ ledger'.own = l.own
      /\ ledger'.pushes \subseteq l.pushes \cup {d.push}
  <2>1. PICK full \in BOOLEAN :
          ledger' = [l EXCEPT !.kept = TRUE,
                              !.last = IF d.at > @ THEN d.at ELSE @,
                              !.over = @ \/ full,
                              !.pushes = IF full THEN @ ELSE @ \cup {d.push}]
    BY <1>2 DEF Sign!OnPush, Sign!WithPush
  <2> DEFINE t == IF d.at > l.last THEN d.at ELSE l.last
             v == l.over \/ full
             ps == IF full THEN l.pushes ELSE l.pushes \cup {d.push}
  <2>2. TRUE \in BOOLEAN /\ t \in 0..MaxSeconds /\ v \in BOOLEAN /\ ps \in SUBSET Sign!Pushes
        /\ ps \subseteq l.pushes \cup {d.push}
    BY <1>1, <1>3 DEF Ledgers
  <2>3. ledger' = [l EXCEPT !.kept = TRUE, !.last = t, !.over = v, !.pushes = ps]
    BY <2>1, Zenon
  <2> HIDE DEF t, v, ps
  <2>4. ledger' \in Ledgers /\ ledger'.pushes = ps /\ ledger'.own = l.own
    BY <1>3, <2>2, <2>3, LedgerWith DEF Ledgers
  <2> QED BY <2>2, <2>4
<1>5. vouched' \in Vouchers /\ vouched'.heads = vouched.heads
      /\ vouched'.lost = IF anew THEN vouched.lost \cup ledger.own ELSE vouched.lost
  BY <1>0, SignErases DEF Sign!OnPush
<1>6. runs' \in SUBSET SignRuns /\ NewRuns
  BY <1>0, SignSpawn DEF Sign!OnPush, Ledgers
<1>7. Sign!TypeOK'
  BY <1>0, <1>4, <1>5, <1>6, SignTypes DEF Sign!OnPush
<1>8. NewTold
  <2>1. \A o : OnRecord(o) => OnRecord(o)'
    BY <1>3, <1>4, <1>5 DEF OnRecord
  <2>2. Told(d.push)' /\ Vouched(d.push)'
    <3>1. Told(d.push) /\ Vouched(d.push)
      BY <1>1 DEF SignInv, PostsTold, Sign!OnPush
    <3> QED BY <3>1, <2>1 DEF Told, Vouched, Sign!OnPush
  <2>3. posts' \subseteq posts
    BY DEF Sign!OnPush
  <2> QED BY <1>3, <1>4, <2>1, <2>2, <2>3 DEF NewTold
<1>9. NewVouched
  BY <1>5 DEF NewVouched
<1> QED BY <1>6, <1>7, <1>8, <1>9, SignStill DEF Sign!OnPush

(* The record is erased, and what the bridge pushed with it on record.      *)
LEMMA SignForgets ==
    ASSUME SignInv, SignCounts', UNCHANGED branch, posts' \subseteq posts, UNCHANGED runs,
           ledger' = Sign!NoLedger, Sign!Erases
    PROVE  SignInv'
<1>1. Sign!NoLedger \in Ledgers
  BY SignAssumption DEF Sign!NoLedger, Ledgers, Sign!None
<1>2. vouched' \in Vouchers /\ vouched'.heads = vouched.heads
      /\ vouched'.lost = vouched.lost \cup ledger.own
  BY SignErases
<1>3. Sign!TypeOK'
  BY <1>1, <1>2, SignTypes DEF SignInv
<1>4. NewTold
  BY <1>2 DEF NewTold, OnRecord, Sign!NoLedger
<1> QED BY <1>2, <1>3, <1>4, SignStill DEF NewRuns, NewVouched

LEMMA SignOnDeletion == ASSUME SignInv, NEW d, Sign!OnDeletion(d) PROVE SignInv'
<1>1. SignCounts' /\ posts' \subseteq posts
  BY SignTypes, SignHappens DEF SignInv, Sign!OnDeletion
<1>2. CASE Sign!Newest(d.at)
  BY <1>1, <1>2, SignForgets DEF Sign!OnDeletion
<1>3. CASE ~Sign!Newest(d.at)
  <2>1. Sign!TypeOK'
    BY <1>1, <1>3, SignTypes DEF SignInv, Sign!OnDeletion
  <2> QED BY <1>1, <1>3, <2>1, SignStill DEF NewTold, NewRuns, NewVouched, OnRecord,
             Sign!OnDeletion
<1> QED BY <1>2, <1>3

LEMMA SignForget == ASSUME SignInv, Sign!Forget PROVE SignInv'
<1>1. SignCounts'
  BY SignTypes, SignHappens DEF SignInv, Sign!Forget
<1> QED BY <1>1, SignForgets DEF Sign!Forget

LEMMA SignOnPullRequest == ASSUME SignInv, NEW d, Sign!OnPullRequest(d) PROVE SignInv'
<1>0. posts \in SUBSET SignPosts /\ SignCounts'
  BY SignTypes, SignHappens DEF SignInv, Sign!OnPullRequest
<1>1. d.pull \in Nat
  BY <1>0 DEF Sign!OnPullRequest, SignPosts
<1>2. runs' \in SUBSET SignRuns /\ NewRuns
  BY <1>1, SignSpawn DEF Sign!OnPullRequest
<1>3. Sign!TypeOK'
  BY <1>0, <1>2, SignTypes DEF SignInv, Sign!OnPullRequest
<1> QED BY <1>2, <1>3, SignStill DEF NewTold, NewVouched, OnRecord, Sign!OnPullRequest

(* A run that ends, or goes on as one that knows what it should.            *)
LEMMA SignGoes ==
    ASSUME SignInv, NEW r, NEW s,
           Sign!Ends(r) \/ (s \in SignRuns /\ RunKnows(s)' /\ Sign!Goes(r, s))
    PROVE  runs' \in SUBSET SignRuns /\ NewRuns
<1>0. runs \in SUBSET SignRuns
  BY SignTypes DEF SignInv
<1> QED BY <1>0 DEF Sign!Ends, Sign!Goes, NewRuns

LEMMA SignRead == ASSUME SignInv, NEW r \in runs, NEW h, Sign!Read(r, h),
                         h = branch.head \/ h = branch.before
                  PROVE SignInv'
<1>0. /\ branch \in Branches /\ ledger \in Ledgers /\ r \in SignRuns /\ vouched \in Vouchers
      /\ SignCounts' /\ HeadsWere
  BY SignTypes, SignHappens DEF SignInv, Sign!Read
<1> DEFINE s == [r EXCEPT !.at = "judge", !.head = h]
<1>1. CASE r.pull = branch.pull /\ h # Sign!None
  <2>1. Pushed(h)
    BY <1>0, <1>1 DEF HeadsWere
  <2>2. s.at = "judge" /\ s.head = h /\ s \in SignRuns
    BY <1>0 DEF SignRuns, Branches
  <2>3. RunKnows(s)'
    BY <2>1, <2>2 DEF RunKnows, Pushed, Sign!Read
  <2>4. ledger' = [ledger EXCEPT !.kept = TRUE, !.pull = r.pull] /\ Sign!Goes(r, s)
    BY <1>1 DEF Sign!Read, Sign!Remembering
  <2>5. ledger' \in Ledgers /\ ledger'.pushes = ledger.pushes /\ ledger'.own = ledger.own
    BY <1>0, <2>4 DEF Ledgers, SignRuns
  <2>6. runs' \in SUBSET SignRuns /\ NewRuns
    BY <2>2, <2>3, <2>4, SignGoes
  <2>7. Sign!TypeOK'
    BY <1>0, <2>5, <2>6, SignTypes DEF SignInv, Sign!Read
  <2> QED BY <2>5, <2>6, <2>7, SignStill DEF NewTold, NewVouched, OnRecord, Sign!Read
<1>2. CASE ~(r.pull = branch.pull /\ h # Sign!None)
  <2>1. runs' \in SUBSET SignRuns /\ NewRuns
    BY <1>2, SignGoes DEF Sign!Read
  <2>2. Sign!TypeOK'
    BY <1>0, <1>2, <2>1, SignTypes DEF SignInv, Sign!Read
  <2> QED BY <1>2, <2>1, <2>2, SignStill DEF NewTold, NewVouched, OnRecord, Sign!Read
<1> QED BY <1>1, <1>2

LEMMA SignJudge == ASSUME SignInv, NEW r \in runs, Sign!Judge(r) PROVE SignInv'
<1>0. r \in SignRuns /\ SignCounts' /\ RunKnows(r)
  BY SignTypes, SignHappens DEF SignInv, RunsKnow, Sign!Judge
<1> DEFINE s == [r EXCEPT !.at = "permit"]
<1>1. s \in SignRuns /\ s.at = "permit" /\ s.head = r.head
  BY <1>0 DEF SignRuns
<1>2. Sign!Clean(r.head) => RunKnows(s)'
  <2>1. Pushed(r.head)
    BY <1>0 DEF RunKnows, Sign!Judge
  <2>2. Sign!Clean(r.head) => "writer" \notin branch.holds[r.head]
    BY <2>1, CleanIsClean
  <2> QED BY <1>1, <2>1, <2>2 DEF RunKnows, Pushed, Sign!Judge
<1>3. runs' \in SUBSET SignRuns /\ NewRuns
  BY <1>1, <1>2, SignGoes DEF Sign!Judge
<1>4. Sign!TypeOK'
  BY <1>0, <1>3, SignTypes DEF SignInv, Sign!Judge
<1> QED BY <1>3, <1>4, SignStill DEF NewTold, NewVouched, OnRecord, Sign!Judge

LEMMA SignHold == ASSUME SignInv, NEW r \in runs, Sign!Hold(r) PROVE SignInv'
<1>0. r \in SignRuns /\ SignCounts' /\ RunKnows(r) /\ vouched \in Vouchers
  BY SignTypes, SignHappens DEF SignInv, RunsKnow, Sign!Hold
<1> DEFINE s == [r EXCEPT !.at = "held"]
<1>1. s \in SignRuns /\ s.at = "held" /\ s.head = r.head
  BY <1>0 DEF SignRuns
<1>2. RunKnows(s)'
  BY <1>0, <1>1 DEF RunKnows, Pushed, Sign!Hold
<1>3. runs' \in SUBSET SignRuns /\ NewRuns
  BY <1>1, <1>2, SignGoes DEF Sign!Hold
<1>4. vouched' \in Vouchers /\ vouched'.heads = vouched.heads /\ vouched'.lost = vouched.lost
  BY <1>0 DEF Sign!Hold, Vouchers
<1>5. Sign!TypeOK'
  BY <1>0, <1>3, <1>4, SignTypes DEF SignInv, Sign!Hold
<1> QED BY <1>3, <1>4, <1>5, SignStill DEF NewTold, NewVouched, OnRecord, Sign!Hold

(* A run with some of its fields changed.                                   *)
LEMMA RunWith ==
    ASSUME NEW A, NEW B, NEW C, NEW D, NEW E,
           NEW b \in [n : A, pull : B, head : C, new : D, at : E], NEW h \in D, NEW a \in E, NEW c
    PROVE  c = [b EXCEPT !.at = a, !.new = h] =>
             /\ c \in [n : A, pull : B, head : C, new : D, at : E]
             /\ c.at = a /\ c.head = b.head /\ c.new = h
  OBVIOUS

LEMMA SignExamine == ASSUME SignInv, NEW r \in runs, Sign!Examine(r) PROVE SignInv'
<1>0. /\ branch \in Branches /\ r \in SignRuns /\ vouched \in Vouchers /\ MaxHeads \in Nat
      /\ SignCounts' /\ RunKnows(r) /\ HeadsWere
  BY SignTypes, SignHappens, SignAssumption DEF SignInv, RunsKnow, Sign!Examine
<1>1. CASE ~(branch.head = r.head /\ "bridge" \notin branch.holds[r.head]
               /\ branch.next \in Sign!Heads)
  <2>1. runs' \in SUBSET SignRuns /\ NewRuns
    BY <1>1, SignGoes DEF Sign!Examine
  <2>2. Sign!TypeOK'
    BY <1>0, <1>1, <2>1, SignTypes DEF SignInv, Sign!Examine
  <2> QED BY <1>1, <2>1, <2>2, SignStill DEF NewTold, NewVouched, OnRecord, Sign!Examine
<1>2. CASE /\ branch.head = r.head /\ "bridge" \notin branch.holds[r.head]
           /\ branch.next \in Sign!Heads
  <2> PICK h : h = branch.next
    OBVIOUS
  <2> DEFINE s == [r EXCEPT !.at = "record", !.new = h]
  <2>1. /\ branch' = [branch EXCEPT !.holds[h] = {"bridge"}, !.next = h + 1]
        /\ Sign!Goes(r, s)
    BY <1>2 DEF Sign!Examine
  <2>2. h \in Sign!Heads /\ branch.holds \in [Sign!Heads -> SUBSET Sign!Who] /\ h \in 1..MaxHeads
    BY <1>0, <1>2 DEF Branches, Sign!Heads
  <2>3. /\ branch' \in Branches /\ branch'.head = branch.head /\ branch'.before = branch.before
        /\ branch'.next = h + 1 /\ branch'.holds = [branch.holds EXCEPT ![h] = {"bridge"}]
    <3>1. [branch.holds EXCEPT ![h] = {"bridge"}] \in [Sign!Heads -> SUBSET Sign!Who]
          /\ h + 1 \in 1..(MaxHeads + 1)
      BY <1>0, <2>2 DEF Sign!Who
    <3>2. branch.head \in 0..MaxHeads /\ branch.pull \in Nat /\ branch.life \in Nat
          /\ branch.now \in 1..MaxSeconds
      BY <1>0 DEF Branches
    <3> QED BY <1>0, <2>1, <3>1, <3>2, BranchWith DEF Branches
  <2>4. Grows /\ BridgeHead(h)'
    <3>1. Grows
      BY <2>2, <2>3 DEF Grows, Pushed, Sign!Heads
    <3>2. h < branch'.next
      BY <2>2, <2>3
    <3>3. branch'.holds[h] = {"bridge"}
      BY <2>2, <2>3, Zenon
    <3> QED BY <2>2, <3>1, <3>2, <3>3 DEF BridgeHead, Pushed
  <2>5. NewHeads
    <3>1. \A g \in Sign!Heads : g < branch'.next /\ ~Pushed(g) => g = h
      BY <2>2, <2>3 DEF Pushed, Sign!Heads
    <3> QED BY <1>0, <2>3, <2>4, <3>1 DEF NewHeads, HeadsWere, Grows, BridgeHead
  <2>6. s \in SignRuns /\ s.at = "record" /\ s.head = r.head /\ s.new = h
    <3>1. h \in 0..MaxHeads /\ "record" \in {"read", "judge", "permit", "held", "record", "send"}
      BY <1>0, <2>2
    <3> QED BY <1>0, <3>1, RunWith DEF SignRuns
  <2>7. RunKnows(s)'
    <3>1. (Pushed(r.head) /\ "writer" \notin branch.holds[r.head]) \/ r.at # "held"
      BY <1>0 DEF RunKnows
    <3>2. r.at = "held"
      BY DEF Sign!Examine
    <3>3. Pushed(r.head)' /\ branch'.holds[r.head] = branch.holds[r.head]
      BY <1>0, <2>4, <3>2 DEF Grows, RunKnows
    <3>4. "writer" \notin branch'.holds[r.head] /\ "bridge" \notin branch'.holds[r.head]
      BY <1>0, <1>2, <3>2, <3>3 DEF RunKnows
    <3> QED BY <2>4, <2>6, <3>3, <3>4 DEF RunKnows
  <2>8. runs' \in SUBSET SignRuns /\ NewRuns
    BY <2>1, <2>6, <2>7, SignGoes
  <2>9. Sign!TypeOK'
    BY <1>0, <2>3, <2>8, SignTypes DEF SignInv, Sign!Examine
  <2> QED BY <2>4, <2>5, <2>8, <2>9, SignStep DEF NewTold, NewVouched, OnRecord,
             Sign!Examine
<1> QED BY <1>1, <1>2

LEMMA SignRecordOwn == ASSUME SignInv, NEW r \in runs, Sign!RecordOwn(r) PROVE SignInv'
<1>0. /\ ledger \in Ledgers /\ r \in SignRuns /\ SignCounts' /\ RunKnows(r) /\ r.at = "record"
      /\ MaxHeads \in Nat
  BY SignTypes, SignHappens, SignAssumption DEF SignInv, RunsKnow, Sign!RecordOwn
<1>1. CASE ledger.kept
  <2> DEFINE s == [r EXCEPT !.at = "send"]
             o == <<r.head, r.new>>
  <2>1. o \in Sign!Heads \X Sign!Heads /\ BridgeHead(r.new)
    BY <1>0 DEF RunKnows, BridgeHead, Pushed
  <2>2. ledger' = [ledger EXCEPT !.own = @ \cup {o}] /\ Sign!Goes(r, s)
    BY <1>1 DEF Sign!RecordOwn, Sign!WithOwn
  <2>3. /\ ledger' \in Ledgers /\ ledger'.pushes = ledger.pushes
        /\ ledger'.own = ledger.own \cup {o}
    <3> HIDE DEF o
    <3> QED BY <1>0, <2>1, <2>2 DEF Ledgers
  <2>4. s \in SignRuns /\ s.at = "send" /\ s.head = r.head /\ s.new = r.new
    BY <1>0 DEF SignRuns
  <2>5. RunKnows(s)'
    BY <1>0, <2>1, <2>3, <2>4 DEF RunKnows, Pushed, BridgeHead, OnRecord, Sign!RecordOwn
  <2>6. runs' \in SUBSET SignRuns /\ NewRuns
    BY <2>2, <2>4, <2>5, SignGoes
  <2>7. Sign!TypeOK'
    BY <1>0, <2>3, <2>6, SignTypes DEF SignInv, Sign!RecordOwn
  <2>8. NewTold
    <3>1. \A q : OnRecord(q) => OnRecord(q)'
      BY <2>3 DEF OnRecord, Sign!RecordOwn
    <3>2. BridgeHead(o[2])'
      BY <2>1 DEF BridgeHead, Pushed, Sign!RecordOwn
    <3> QED BY <2>3, <3>1, <3>2 DEF NewTold, Sign!RecordOwn
  <2> QED BY <2>6, <2>7, <2>8, SignStill DEF NewVouched, Sign!RecordOwn
<1>2. CASE ~ledger.kept
  <2>1. runs' \in SUBSET SignRuns /\ NewRuns
    BY <1>2, SignGoes DEF Sign!RecordOwn
  <2>2. Sign!TypeOK'
    BY <1>0, <1>2, <2>1, SignTypes DEF SignInv, Sign!RecordOwn
  <2> QED BY <1>2, <2>1, <2>2, SignStill DEF NewTold, NewVouched, OnRecord, Sign!RecordOwn
<1> QED BY <1>1, <1>2

(* What is pushed over was Dependabot's alone: no writer's by the verdict,  *)
(* none of the bridge's by the look at the commits, and the lease holds the *)
(* branch to that head.                                                     *)
LEMMA SignSend == ASSUME SignInv, NEW r \in runs, Sign!Send(r) PROVE SignInv'
<1>0. /\ branch \in Branches /\ posts \in SUBSET SignPosts /\ r \in SignRuns
      /\ vouched \in Vouchers /\ MaxHeads \in Nat
      /\ SignCounts' /\ RunKnows(r) /\ HeadsWere /\ r.at = "send"
  BY SignTypes, SignHappens, SignAssumption DEF SignInv, RunsKnow, Sign!Send
<1>1. runs' \in SUBSET SignRuns /\ NewRuns
  BY SignGoes DEF Sign!Send
<1>2. CASE ~Sign!Leased(r)
  <2>1. Sign!TypeOK'
    BY <1>0, <1>1, <1>2, SignTypes DEF SignInv, Sign!Send
  <2> QED BY <1>1, <1>2, <2>1, SignStill DEF NewTold, NewVouched, OnRecord, Sign!Send
<1>3. CASE Sign!Leased(r)
  <2> DEFINE d0 == Sign!Post(r.head, r.new, "bridge", branch.now)
  <2>1. /\ branch' = [branch EXCEPT !.head = r.new, !.before = r.head]
        /\ posts' = posts \cup {d0, Sign!Pull(branch.pull)}
        /\ vouched' = [vouched EXCEPT !.heads = @ \cup {r.head}]
    BY <1>3 DEF Sign!Send
  <2>2. Pushed(r.head) /\ BridgeHead(r.new) /\ branch.holds[r.head] = {"dependabot"}
    <3>1. Pushed(r.head) /\ BridgeHead(r.new) /\ branch.holds[r.head] \subseteq {"dependabot"}
      BY <1>0 DEF RunKnows, Branches, Pushed, Sign!Who
    <3> QED BY <1>0, <3>1 DEF HeadsWere, Pushed
  <2>3. /\ branch' \in Branches /\ branch'.head = r.new /\ branch'.before = r.head
        /\ branch'.next = branch.next /\ branch'.holds = branch.holds
    BY <1>0, <2>1 DEF Branches, SignRuns
  <2>4. Grows /\ NewHeads
    BY <2>2, <2>3 DEF Grows, NewHeads, Pushed, BridgeHead
  <2>5. posts' \in SUBSET SignPosts
    <3>1. d0.push \in Sign!Pushes
      BY <1>0, <2>2 DEF SignRuns, Sign!Post, Sign!Pushes, Sign!Who, BridgeHead, Pushed
    <3>2. d0.kind = "push" /\ d0.at \in 1..MaxSeconds /\ branch.pull \in Nat
      BY <1>0 DEF Sign!Post, Branches
    <3>3. d0 = [kind |-> "push", at |-> d0.at, push |-> d0.push]
      BY DEF Sign!Post
    <3> HIDE DEF d0
    <3> QED BY <1>0, <2>1, <3>1, <3>2, <3>3 DEF SignPosts, Sign!Pull
  <2>6. /\ vouched' \in Vouchers /\ vouched'.lost = vouched.lost
        /\ vouched'.heads = vouched.heads \cup {r.head}
    BY <1>0, <2>1, <2>2 DEF Vouchers, Pushed
  <2>7. Sign!TypeOK'
    BY <1>0, <1>1, <2>3, <2>5, <2>6, SignTypes DEF SignInv, Sign!Send
  <2>8. PICK d : d = d0
    OBVIOUS
  <2>9. Told(d.push)' /\ Vouched(d.push)'
    <3>1. d.push.before = r.head /\ d.push.after = r.new /\ d.push.who = "bridge"
          /\ d.push.created = (r.head = Sign!None)
      BY <2>8 DEF Sign!Post
    <3>2. OnRecord(<<r.head, r.new>>)'
      BY <1>0, <2>6 DEF RunKnows, OnRecord, Sign!Send
    <3>3. r.head < branch'.next /\ r.new < branch'.next
      BY <2>2, <2>3 DEF Pushed, BridgeHead
    <3> QED BY <3>1, <3>2, <3>3 DEF Told, Vouched
  <2>10. NewTold
    <3>1. \A o : OnRecord(o) => OnRecord(o)'
      BY <2>6 DEF OnRecord, Sign!Send
    <3>2. \A c \in posts' : c \notin posts /\ c.kind = "push" => c = d
      BY <2>1, <2>8 DEF Sign!Pull
    <3> QED BY <2>9, <3>1, <3>2 DEF NewTold, Sign!Send
  <2>11. NewVouched
    BY <2>2, <2>3, <2>6 DEF NewVouched, Pushed
  <2> QED BY <1>1, <2>4, <2>7, <2>10, <2>11, SignStep
<1> QED BY <1>2, <1>3

LEMMA SignFail == ASSUME SignInv, NEW r \in runs, Sign!Fail(r) PROVE SignInv'
<1>1. runs' \in SUBSET SignRuns /\ NewRuns
  BY SignGoes DEF Sign!Fail
<1>2. Sign!TypeOK'
  BY <1>1, SignTypes, SignHappens DEF SignInv, Sign!Fail
<1> QED BY <1>1, <1>2, SignStill DEF NewTold, NewVouched, OnRecord, Sign!Fail

LEMMA SignCrash == ASSUME SignInv, Sign!Crash PROVE SignInv'
<1>1. Sign!TypeOK'
  BY SignTypes, SignHappens DEF SignInv, Sign!Crash
<1> QED BY <1>1, SignStill DEF NewTold, NewRuns, NewVouched, OnRecord, Sign!Crash

LEMMA SignNext == ASSUME SignInv, Sign!Next PROVE SignInv'
<1> PICK h, b : h = branch.head /\ b = branch.before
  OBVIOUS
<1>1. CASE \E over \in BOOLEAN : Sign!DependabotPushes(over)
  BY <1>1, SignDependabotPushes
<1>2. CASE Sign!WriterPushes \/ Sign!DeleteBranch \/ Sign!Forget \/ Sign!Crash
  BY <1>2, SignWriterPushes, SignDeleteBranch, SignForget, SignCrash
<1>3. CASE \E d \in posts : Sign!Lose(d)
  BY <1>3, SignLose
<1>4. CASE \E r \in runs : Sign!Read(r, b) \/ Sign!Fail(r)
  BY <1>4, SignRead, SignFail
<1>5. CASE Sign!Receive
  BY <1>5, SignOnPush, SignOnDeletion, SignOnPullRequest DEF Sign!Receive
<1>6. CASE Sign!Work
  <2>1. PICK r \in runs : Sign!Read(r, h) \/ Sign!Judge(r) \/ Sign!Hold(r) \/ Sign!Examine(r)
                            \/ Sign!RecordOwn(r) \/ Sign!Send(r)
    BY <1>6 DEF Sign!Work
  <2> QED BY <2>1, SignRead, SignJudge, SignHold, SignExamine, SignRecordOwn, SignSend
<1> QED BY <1>1, <1>2, <1>3, <1>4, <1>5, <1>6 DEF Sign!Next

(* The branch, the record and the runs' heads alone matter.                 *)
LEMMA SignKnows == SignInv => Sign!OnlyDependabots /\ Sign!OwnIsKnown
<1> SUFFICES ASSUME SignInv, NEW p \in Sign!Foreign, p.who = "bridge"
             PROVE  <<p.before, p.after>> \in vouched.lost
  BY DEF SignInv, Sign!OwnIsKnown
<1>1. OnRecord(<<p.before, p.after>>)
  BY DEF SignInv, LedgerTold, Vouched, Sign!Foreign
<1> QED BY <1>1 DEF OnRecord, Sign!Foreign, Sign!Own

-----------------------------------------------------------------------------
(* Webhooks.                                                                *)

(* The types, variable by variable.                                         *)
Spots == Hooks!Places \cup {Nothing}
Entries == [ns : Owners \cup {Nothing}, at : Spots]
Forges == [place : [Ids -> Spots], born : SUBSET Ids,
           way : [Hooks!Places -> Ids \cup {Nothing}], events : Nat]
Handlers == [post : Hooks!Deliveries, at : {"new", "wait", "confirm", "report", "look", "act"},
             found : Spots, id : Ids \cup {Nothing}, old : Entries]
Stores == [record : [Ids -> Entries], managed : [Owners -> SUBSET Ids],
           listed : [Owners -> SUBSET Ids]]
Job == [at : {"idle", "forge", "manage", "plan", "persist", "roles"}, view : SUBSET Ids,
        kind : {"none", "create", "adopt", "roles"}, id : Ids \cup {Nothing},
        place : Spots, slow : BOOLEAN]
JobsOf == [Owners -> [lock : {"free", "job", "look"}, job : Job]]
HookNotes == [handled : SUBSET Hooks!Deliveries, twice : BOOLEAN, made : SUBSET Ids,
              dropped : SUBSET Ids, caught : SUBSET Ids, astray : SUBSET Ids,
              gone : [Owners -> SUBSET Ids], been : [Ids -> SUBSET Owners]]
HookPlanOf == [moves : [Hooks!Moves -> Nat], names : SUBSET Names,
               given : SUBSET (Ids \X (Owners \X Names))]
HookTyped ==
  /\ plan \in HookPlanOf /\ count \in [Hooks!Moves -> Nat]
  /\ forge \in Forges /\ posts \in SUBSET Hooks!Deliveries /\ seen \in SUBSET Hooks!Deliveries
  /\ tasks \in SUBSET Handlers /\ store \in Stores /\ jobs \in JobsOf
  /\ told \in SUBSET Hooks!Reports /\ notes \in HookNotes

(* What a job knows: the namespace is its own while it runs, and what it    *)
(* has in hand it looked up itself.                                         *)
JobKnows(o) ==
  LET j == jobs[o].job IN
  /\ j.at # "idle" => jobs[o].lock = "job"
  /\ j.at = "idle" => j = Hooks!Resting
  /\ j.at = "forge" => j.id = Nothing /\ Hooks!Inside(j.place, o)
  /\ j.at \notin {"idle", "forge"} => j.id \in Ids
  /\ j.at = "manage" => j.place \in Hooks!Places
  /\ j.kind \in {"create", "roles"} => Hooks!Inside(j.place, o)

(* A look at a repository holds the namespace's lock, and no two do.        *)
Locked ==
  /\ \A t \in tasks : t.at = "act" => jobs[t.post.to].lock = "look"
  /\ \A t, u \in tasks : t.at = "act" /\ u.at = "act" /\ t.post.to = u.post.to => t = u

(* A handler's delivery is in its App's scope.  One that asks GitHub who has*)
(* a repository found it recorded with another owner, and if GitHub answers *)
(* with its own, then the repository was there.                             *)
TaskKnows(t) ==
  /\ Hooks!Admits(t.post)
  /\ t.at \in {"confirm", "report"} =>
       /\ Hooks!Inside(t.post.at, t.post.to)
       /\ t.old.ns \notin {t.post.to, Nothing}
       /\ t.post.id \in notes.astray \/ Hooks!Inside(t.old.at, t.old.ns)
  /\ t.at = "report" /\ Hooks!Inside(t.found, t.post.to) => t.post.to \in notes.been[t.post.id]
  /\ t.at = "act" => t.id \in Ids /\ t.found \in Hooks!Places

RecordsInside ==
  \A i \in Ids \ notes.astray :
    store.record[i] = Hooks!NoRecord \/ Hooks!Inside(store.record[i].at, store.record[i].ns)

(* The managed set and the adapter's copy of it, and a job's view of that.  *)
SetsAgree ==
  \A o \in Owners :
    /\ store.listed[o] \subseteq store.managed[o]
    /\ jobs[o].job.at \in {"plan", "persist"} => store.listed[o] = store.managed[o]
    /\ jobs[o].job.at = "persist" => store.managed[o] \subseteq jobs[o].job.view
    /\ jobs[o].job.view \cap notes.gone[o] \subseteq notes.caught

(* Nothing knows of a repository that is not yet, but a delivery that claims*)
(* one.                                                                     *)
NoPlace(i) == forge.place[i] = Nothing /\ \A p \in Hooks!Places : forge.way[p] # i
NotTaken(i) == \A o \in Owners : jobs[o].job.id # i
NotAsked(t, i) ==
  /\ t.at \in {"confirm", "report"} => t.post.id # i
  /\ t.at = "act" => t.id # i
Unborn(i) ==
  /\ NoPlace(i) /\ store.record[i] = Hooks!NoRecord /\ NotTaken(i)
  /\ \A t \in tasks : NotAsked(t, i)

(* A repository that has been with `q' alone is recorded with no other, and *)
(* no other looks at it.                                                    *)
PlacedWith(i, q) ==
  /\ forge.place[i] # Nothing => Hooks!Inside(forge.place[i], q)
  /\ \A p \in Hooks!Places : forge.way[p] = i => Hooks!Inside(p, q)
Fits(e, q) == e # Hooks!NoRecord => e.ns = q /\ Hooks!Inside(e.at, q)
TakenBy(i, q) ==
  \A o \in Owners : jobs[o].job.id = i => o = q /\ Hooks!Inside(jobs[o].job.place, q)
AskedBy(t, i, q) ==
  /\ t.at \in {"confirm", "report"} /\ t.post.id = i => t.old.ns = q
  /\ t.at = "act" /\ t.id = i => Hooks!Inside(t.found, q)
Native(i, q) ==
  /\ PlacedWith(i, q) /\ Fits(store.record[i], q) /\ TakenBy(i, q)
  /\ \A t \in tasks : AskedBy(t, i, q)

(* What `been' does not tell of: where a repository was born.               *)
Births ==
  /\ \A i \in Ids \ forge.born : Unborn(i)
  /\ \A i \in forge.born, q \in Owners :
       Hooks!Inside(forge.place[i], q) /\ q \notin notes.been[i] => Native(i, q)

(* With no transfer and no claim, each is with the owner it was born with,  *)
(* whose App alone tells of it.                                             *)
Tells == posts \cup {t.post : t \in tasks}
Mail(i, q) == \A d \in Tells : d.id = i => d.to = q
Unmanaged(i) == \E r \in told : r.what = "unmanaged" /\ r.id = i
Calm == count["transfer"] = 0 /\ count["claim"] = 0
EachHome ==
  /\ \A i \in forge.born : \E q \in Owners : Native(i, q) /\ Mail(i, q)
  /\ \A d \in Tells : d.id \in forge.born /\ d.kind # "transferred"
  /\ \A i \in Ids : Unmanaged(i) => i \in forge.born
  /\ \A o \in Owners : LET j == jobs[o].job IN
       j.kind = "create" /\ j.at = "manage" /\ ~j.slow => ~Unmanaged(j.id)
AtHome == Calm => EachHome
Kept == \A i \in notes.made \ notes.dropped : store.record[i] # Hooks!NoRecord

HookInv ==
  /\ HookTyped
  /\ \A o \in Owners : JobKnows(o)
  /\ Locked
  /\ \A t \in tasks : TaskKnows(t)
  /\ RecordsInside /\ SetsAgree /\ Births /\ AtHome /\ Kept
  /\ notes.handled \subseteq seen
  /\ Hooks!EachOnce /\ Hooks!EventsStayInside /\ Hooks!OwnNotStrange /\ Hooks!NothingIsCarried

LEMMA HookTypes == HookTyped => Hooks!TypeOK
<1> SUFFICES ASSUME HookTyped PROVE Hooks!TypeOK
  OBVIOUS
<1>1. /\ plan \in HookPlanOf /\ forge \in Forges
      /\ posts \subseteq Hooks!Deliveries /\ seen \subseteq Hooks!Deliveries
      /\ store \in Stores /\ told \subseteq Hooks!Reports /\ notes \in HookNotes
      /\ \A t \in tasks : t \in Handlers
  BY DEF HookTyped
<1>2. \A o \in Owners : jobs[o].lock \in {"free", "job", "look"} /\ jobs[o].job \in Job
  BY DEF HookTyped, JobsOf
<1> QED BY <1>1, <1>2 DEF Hooks!TypeOK, HookPlanOf, Forges, Stores, HookNotes, Handlers,
           Job, Spots,
                          Entries

LEMMA HookHappens ==
    ASSUME HookTyped, NEW m \in Hooks!Moves, Hooks!Happens(m) \/ Hooks!Quiet
    PROVE  /\ plan' \in HookPlanOf /\ count' \in [Hooks!Moves -> Nat] /\ (Calm' => Calm)
           /\ Hooks!Happens(m) /\ m \in {"transfer", "claim"} => ~Calm'
<1>1. count \in [Hooks!Moves -> Nat] /\ plan \in HookPlanOf
  BY DEF HookTyped
<1>2. "transfer" \in Hooks!Moves /\ "claim" \in Hooks!Moves
  BY DEF Hooks!Moves
<1>3. CASE Hooks!Quiet
  BY <1>1, <1>3 DEF Hooks!Quiet, Calm, Hooks!Happens
<1>4. CASE Hooks!Happens(m)
  <2>1. count' = [count EXCEPT ![m] = @ + 1] /\ plan' = plan
    BY <1>4 DEF Hooks!Happens
  <2>2. \A k \in Hooks!Moves : count'[k] = IF k = m THEN count[k] + 1 ELSE count[k]
    BY <1>1, <2>1
  <2>3. \A k \in Hooks!Moves : count[k] \in Nat
    BY <1>1
  <2> HIDE DEF Hooks!Moves
  <2>4. count' \in [Hooks!Moves -> Nat]
    BY <1>1, <2>1
  <2> QED BY <1>1, <1>2, <2>1, <2>2, <2>3, <2>4 DEF Calm
<1> QED BY <1>3, <1>4

(* Where the repositories are from the start, and what the names lead to.   *)
LEMMA HookGiven ==
    ASSUME Hooks!Init
    PROVE  /\ plan \in HookPlanOf
           /\ \A i \in Ids : \/ /\ forge.place[i] = Nothing /\ Hooks!At(i) = {}
                                /\ i \notin forge.born
                             \/ /\ forge.place[i] \in Hooks!Places /\ Hooks!At(i) # {}
                                /\ i \in forge.born /\ <<i, forge.place[i]>> \in plan.given
           /\ \A p \in Hooks!Places : \/ forge.way[p] = Nothing
                                      \/ forge.way[p] \in Ids /\ <<forge.way[p], p>> \in plan.given
           /\ forge \in Forges
<1>0. plan \in HookPlans /\ plan \in HookPlanOf
  BY HooksAssumption DEF Hooks!Init, HookPlanOf
<1>1. plan.given \in SUBSET (Ids \X Hooks!Places) /\ Nothing \notin Ids \cup Hooks!Places
  BY <1>0, HooksAssumption DEF HookPlanOf, Hooks!Places
<1> DEFINE spot(i) == CHOOSE p \in Hooks!At(i) \cup {Nothing} : Hooks!At(i) # {} => p # Nothing
           lead(p) == CHOOSE i \in Ids \cup {Nothing} :
                        IF \E g \in plan.given : g[2] = p THEN <<i, p>> \in plan.given
                        ELSE i = Nothing
<1>2. /\ forge.place = [i \in Ids |-> spot(i)] /\ forge.way = [p \in Hooks!Places |-> lead(p)]
      /\ forge.born = {g[1] : g \in plan.given} /\ forge.events = 0
      /\ forge = [place |-> forge.place, born |-> forge.born, way |-> forge.way,
                  events |-> forge.events]
  BY DEF Hooks!Init
<1>3. ASSUME NEW i \in Ids
      PROVE  \/ /\ spot(i) = Nothing /\ Hooks!At(i) = {} /\ i \notin forge.born
             \/ /\ spot(i) \in Hooks!Places /\ Hooks!At(i) # {}
                /\ i \in forge.born /\ <<i, spot(i)>> \in plan.given
  <2>1. \A p : p \in Hooks!At(i) <=> p \in Hooks!Places /\ <<i, p>> \in plan.given
    BY <1>1 DEF Hooks!At
  <2>2. CASE Hooks!At(i) = {}
    <3>1. i \notin forge.born
      BY <1>1, <1>2, <2>1, <2>2
    <3>2. spot(i) = Nothing
      BY <2>2
    <3> QED BY <2>2, <3>1, <3>2
  <2>3. CASE Hooks!At(i) # {}
    <3>1. \E p \in Hooks!At(i) \cup {Nothing} : Hooks!At(i) # {} => p # Nothing
      BY <1>1, <2>1, <2>3
    <3>2. spot(i) \in Hooks!At(i) \cup {Nothing} /\ spot(i) # Nothing
      BY <2>3, <3>1
    <3> HIDE DEF spot
    <3>3. <<i, spot(i)>> \in plan.given /\ spot(i) \in Hooks!Places
      BY <2>1, <3>2
    <3>4. i \in forge.born
      BY <1>2, <3>3
    <3> QED BY <2>3, <3>3, <3>4
  <2> QED BY <2>2, <2>3
<1>4. ASSUME NEW p \in Hooks!Places
      PROVE  \/ lead(p) = Nothing
             \/ lead(p) \in Ids /\ <<lead(p), p>> \in plan.given
  <2>1. CASE \E g \in plan.given : g[2] = p
    <3>1. \E i \in Ids \cup {Nothing} :
            IF \E g \in plan.given : g[2] = p THEN <<i, p>> \in plan.given ELSE i = Nothing
      BY <1>1, <2>1
    <3>2. lead(p) \in Ids \cup {Nothing} /\ <<lead(p), p>> \in plan.given
      BY <2>1, <3>1
    <3> QED BY <3>2
  <2>2. CASE ~\E g \in plan.given : g[2] = p
    BY <2>2
  <2> QED BY <2>1, <2>2
<1> HIDE DEF spot, lead
<1>5. forge \in Forges
  <2>1. forge.place \in [Ids -> Spots]
    BY <1>2, <1>3 DEF Spots
  <2>2. forge.way \in [Hooks!Places -> Ids \cup {Nothing}]
    BY <1>2, <1>4
  <2>3. forge.born \in SUBSET Ids
    BY <1>1, <1>2
  <2> QED BY <1>2, <2>1, <2>2, <2>3 DEF Forges
<1> QED BY <1>0, <1>2, <1>3, <1>4, <1>5

LEMMA HookInit == Hooks!Init => HookInv
<1> SUFFICES ASSUME Hooks!Init PROVE HookInv
  OBVIOUS
<1>0. plan \in HookPlanOf /\ forge \in Forges /\ Nothing \notin Owners \cup Ids \cup Hooks!Places
      /\ \A g, g2 \in plan.given : g[1] = g2[1] \/ g[2] = g2[2] => g = g2
  BY HookGiven, HooksAssumption DEF Hooks!Init, Hooks!Places
<1> DEFINE ids == [o \in Owners |-> {i \in Ids : Hooks!Inside(forge.place[i], o)}]
           rec(i) == IF Hooks!At(i) = {} THEN Hooks!NoRecord
                     ELSE [ns |-> forge.place[i][1], at |-> forge.place[i]]
<1>1. /\ posts = {} /\ seen = {} /\ tasks = {} /\ told = {}
      /\ store = [record |-> [i \in Ids |-> rec(i)], managed |-> ids, listed |-> ids]
      /\ jobs = [o \in Owners |-> [lock |-> "free", job |-> Hooks!Resting]]
      /\ notes = [handled |-> {}, twice |-> FALSE, made |-> {}, dropped |-> {},
                  caught |-> {}, astray |-> {}, gone |-> [o \in Owners |-> {}],
                  been |-> [i \in Ids |-> {o \in Owners : Hooks!Inside(forge.place[i], o)}]]
      /\ count = [m \in Hooks!Moves |-> 0]
  BY DEF Hooks!Init
<1>2. \A i \in Ids :
        \/ rec(i) = Hooks!NoRecord /\ i \notin forge.born /\ forge.place[i] = Nothing
        \/ /\ rec(i) \in Entries /\ i \in forge.born /\ rec(i).ns \in Owners
           /\ rec(i).at = forge.place[i] /\ rec(i).ns = forge.place[i][1]
           /\ forge.place[i] \in Hooks!Places
  BY HookGiven DEF Entries, Spots, Hooks!Places
<1>3. HookTyped
  <2>1. Hooks!NoRecord \in Entries
    BY DEF Hooks!NoRecord, Entries, Spots
  <2>2. [i \in Ids |-> rec(i)] \in [Ids -> Entries]
    BY <1>2, <2>1
  <2>3. ids \in [Owners -> SUBSET Ids]
    OBVIOUS
  <2> HIDE DEF ids, rec
  <2>4. store \in Stores
    BY <1>1, <2>2, <2>3 DEF Stores
  <2>5. Hooks!Resting \in Job
    BY DEF Hooks!Resting, Job, Spots
  <2>6. jobs \in JobsOf
    BY <1>1, <2>5 DEF JobsOf
  <2>7. notes \in HookNotes
    BY <1>1 DEF HookNotes
  <2>8. count \in [Hooks!Moves -> Nat]
    BY <1>1
  <2> QED BY <1>0, <1>1, <2>4, <2>6, <2>7, <2>8 DEF HookTyped
<1>4. \A o \in Owners : /\ jobs[o].job = Hooks!Resting /\ jobs[o].job.at = "idle"
                        /\ jobs[o].job.kind = "none" /\ jobs[o].job.id = Nothing
                        /\ jobs[o].job.view = {}
  BY <1>1 DEF Hooks!Resting
<1>5. \A i \in Ids : store.record[i] = rec(i)
  BY <1>1
<1>6. (\A o \in Owners : JobKnows(o)) /\ Locked /\ \A t \in tasks : TaskKnows(t)
  BY <1>1, <1>4 DEF JobKnows, Locked
<1>7. RecordsInside /\ SetsAgree /\ Kept
  <2>1. RecordsInside
    <3>1. \A p \in Hooks!Places : Hooks!Inside(p, p[1])
      BY DEF Hooks!Inside, Hooks!Places
    <3> QED BY <1>2, <1>5, <3>1 DEF RecordsInside
  <2>2. SetsAgree
    BY <1>1, <1>4 DEF SetsAgree
  <2>3. Kept
    BY <1>1 DEF Kept
  <2> QED BY <2>1, <2>2, <2>3
<1>8. \A i \in Ids \ forge.born : Unborn(i)
  <2> SUFFICES ASSUME NEW i \in Ids \ forge.born PROVE Unborn(i)
    OBVIOUS
  <2>1. NoPlace(i)
    <3>1. forge.place[i] = Nothing /\ forge.born = {g[1] : g \in plan.given}
      BY HookGiven DEF Hooks!Init
    <3>2. \A p : <<i, p>> \notin plan.given
      BY <3>1
    <3> QED BY <1>0, <3>1, <3>2, HookGiven DEF NoPlace
  <2>2. NotTaken(i)
    BY <1>0, <1>4 DEF NotTaken
  <2> QED BY <1>1, <1>2, <1>5, <2>1, <2>2 DEF Unborn
<1>9. \A i \in forge.born : /\ forge.place[i] \in Hooks!Places /\ forge.place[i][1] \in Owners
                            /\ Native(i, forge.place[i][1])
  <2> SUFFICES ASSUME NEW i \in forge.born
               PROVE  /\ forge.place[i] \in Hooks!Places /\ forge.place[i][1] \in Owners
                      /\ Native(i, forge.place[i][1])
    OBVIOUS
  <2>1. i \in Ids /\ forge.place[i] \in Hooks!Places /\ <<i, forge.place[i]>> \in plan.given
    BY <1>0, HookGiven DEF Forges
  <2>2. forge.place[i][1] \in Owners /\ Hooks!Inside(forge.place[i], forge.place[i][1])
    BY <2>1 DEF Hooks!Places, Hooks!Inside
  <2>3. \A p \in Hooks!Places : forge.way[p] = i => p = forge.place[i]
    BY <1>0, <2>1, HookGiven
  <2>4. PlacedWith(i, forge.place[i][1])
    BY <2>2, <2>3 DEF PlacedWith
  <2>5. TakenBy(i, forge.place[i][1])
    BY <1>0, <1>4, <2>1 DEF TakenBy
  <2>6. Fits(store.record[i], forge.place[i][1])
    BY <1>2, <1>5, <2>1, <2>2 DEF Fits
  <2> QED BY <1>1, <2>1, <2>2, <2>4, <2>5, <2>6 DEF Native
<1>10. Births
  <2>1. \A i \in forge.born, q \in Owners : Hooks!Inside(forge.place[i], q) => q \in notes.been[i]
    BY <1>0, <1>1 DEF Forges
  <2> QED BY <1>8, <2>1 DEF Births
<1>11. AtHome
  <2>1. Tells = {}
    BY <1>1 DEF Tells
  <2> QED BY <1>1, <1>4, <1>9, <2>1 DEF AtHome, EachHome, Mail, Unmanaged
<1>12. /\ notes.handled \subseteq seen /\ Hooks!EachOnce /\ Hooks!EventsStayInside
       /\ Hooks!OwnNotStrange /\ Hooks!NothingIsCarried
  BY <1>1 DEF Hooks!EachOnce, Hooks!EventsStayInside, Hooks!OwnNotStrange,
     Hooks!NothingIsCarried
<1> QED BY <1>3, <1>6, <1>7, <1>10, <1>11, <1>12 DEF HookInv

LEMMA HookMoved ==
    ASSUME forge \in Forges, NEW i \in Ids, NEW p \in Spots, forge' = Hooks!Moved(i, p)
    PROVE  /\ forge' \in Forges /\ forge'.born = forge.born \cup {i}
           /\ \A j \in Ids : forge'.place[j] = IF j = i THEN p ELSE forge.place[j]
           /\ \A q \in Hooks!Places : forge'.way[q] = IF q = p THEN i ELSE forge.way[q]
<1> DEFINE w == IF p = Nothing THEN forge.way ELSE [forge.way EXCEPT ![p] = i]
           a == [forge.place EXCEPT ![i] = p]
<1>0. forge.place \in [Ids -> Spots] /\ forge.way \in [Hooks!Places -> Ids \cup {Nothing}]
      /\ forge.born \subseteq Ids /\ forge.events \in Nat
      /\ forge \in [place : [Ids -> Spots], born : SUBSET Ids,
                    way : [Hooks!Places -> Ids \cup {Nothing}], events : Nat]
      /\ Nothing \notin Hooks!Places
  BY HooksAssumption DEF Forges, Hooks!Places
<1>1. forge' = [forge EXCEPT !.place[i] = p, !.born = @ \cup {i}, !.events = @ + 1, !.way = w]
  BY DEF Hooks!Moved
<1>2. w \in [Hooks!Places -> Ids \cup {Nothing}] /\ a \in [Ids -> Spots]
      /\ forge.born \cup {i} \in SUBSET Ids /\ forge.events + 1 \in Nat
  BY <1>0 DEF Spots
<1>3. forge' \in Forges /\ forge'.born = forge.born \cup {i} /\ forge'.place = a /\ forge'.way = w
  <2> HIDE DEF w
  <2> QED BY <1>0, <1>1, <1>2 DEF Forges
<1>4. \A j \in Ids : a[j] = IF j = i THEN p ELSE forge.place[j]
  BY <1>0
<1>5. \A q \in Hooks!Places : w[q] = IF q = p THEN i ELSE forge.way[q]
  BY <1>0
<1> HIDE DEF w, a
<1> QED BY <1>3, <1>4, <1>5

LEMMA HookPost ==
    ASSUME forge \in Forges, NEW o \in Owners, NEW i \in Ids, NEW from \in Spots,
           NEW at \in Hooks!Places,
           NEW k \in {"created", "deleted", "renamed", "transferred", "edited"}
    PROVE  /\ Hooks!Post(o, k, i, from, at) \in Hooks!Deliveries
           /\ Hooks!Post(o, k, i, from, at).id = i /\ Hooks!Post(o, k, i, from, at).to = o
           /\ Hooks!Post(o, k, i, from, at).kind = k
  BY DEF Forges, Hooks!Post, Hooks!Deliveries, Spots

(* What GitHub does touches neither the records nor the work on them: only  *)
(* where the repositories are, and who has been told.                       *)
LEMMA HookWorld ==
    ASSUME HookInv, HookTyped', UNCHANGED <<seen, tasks, store, jobs, told>>, Calm' => Calm,
           notes'.handled = notes.handled, notes'.twice = notes.twice,
           notes'.made = notes.made, notes'.dropped = notes.dropped,
           notes'.astray = notes.astray, notes'.gone = notes.gone,
           notes.caught \subseteq notes'.caught,
           \A i \in Ids : notes.been[i] \subseteq notes'.been[i],
           Births', AtHome'
    PROVE  HookInv'
<1>0. tasks \in SUBSET Handlers /\ notes \in HookNotes
  BY DEF HookInv, HookTyped
<1>1. \A o \in Owners : JobKnows(o)'
  BY DEF HookInv, JobKnows
<1>2. Locked'
  BY DEF HookInv, Locked
<1>3. \A t \in tasks' : TaskKnows(t)'
  <2> SUFFICES ASSUME NEW t \in tasks PROVE TaskKnows(t)'
    OBVIOUS
  <2>1. TaskKnows(t) /\ t.post.id \in Ids
    BY <1>0 DEF HookInv, Handlers, Hooks!Deliveries
  <2> QED BY <2>1 DEF TaskKnows
<1>4. RecordsInside' /\ Kept' /\ (notes.handled \subseteq seen)'
  BY DEF HookInv, RecordsInside, Kept
<1>5. SetsAgree'
  BY DEF HookInv, SetsAgree
<1>6. Hooks!EachOnce' /\ Hooks!EventsStayInside' /\ Hooks!NothingIsCarried'
  BY DEF HookInv, Hooks!EachOnce, Hooks!EventsStayInside, Hooks!NothingIsCarried
<1>7. Hooks!OwnNotStrange'
  BY DEF HookInv, Hooks!OwnNotStrange, Calm
<1> QED BY <1>1, <1>2, <1>3, <1>4, <1>5, <1>6, <1>7 DEF HookInv

(* What is told of a repository goes to the owner it was born with.         *)
LEMMA HookHome ==
    ASSUME HookInv, UNCHANGED <<tasks, told>>, Calm' => Calm,
           NEW d, NEW i \in Ids, d.id = i, d.kind # "transferred", d.to \in Owners,
           posts' \subseteq posts \cup {d}, forge'.born = forge.born \cup {i},
           \A j \in forge.born, q \in Owners : Native(j, q) => Native(j, q)',
           \A q \in Owners : i \in forge.born /\ Native(i, q) => d.to = q,
           i \notin forge.born => Native(i, d.to)',
           \A o \in Owners : jobs'[o] = jobs[o] \/ jobs'[o].job.id \in Ids \ forge.born
    PROVE  AtHome'
<1> SUFFICES ASSUME Calm' PROVE EachHome'
  BY DEF AtHome
<1>0. Calm /\ forge.born \subseteq Ids
  BY DEF HookInv, HookTyped, Forges
<1>1. \A e \in Tells' : e \in Tells \/ e = d
  BY DEF Tells
<1>2. \A e \in Tells : e.id \in forge.born /\ e.kind # "transferred"
  BY <1>0 DEF HookInv, AtHome, EachHome
<1>3. \A j \in forge'.born : \E q \in Owners : Native(j, q)' /\ Mail(j, q)'
  <2> SUFFICES ASSUME NEW j \in forge'.born PROVE \E q \in Owners : Native(j, q)' /\ Mail(j, q)'
    OBVIOUS
  <2>1. CASE j \in forge.born
    <3>1. PICK q \in Owners : Native(j, q) /\ Mail(j, q)
      BY <1>0, <2>1 DEF HookInv, AtHome, EachHome
    <3>2. Native(j, q)'
      BY <2>1, <3>1
    <3>3. Mail(j, q)'
      BY <1>1, <2>1, <3>1 DEF Mail
    <3> QED BY <3>2, <3>3
  <2>2. CASE j \notin forge.born
    <3>1. j = i /\ Native(j, d.to)'
      BY <2>2
    <3>2. Mail(j, d.to)'
      BY <1>1, <1>2, <2>2 DEF Mail
    <3> QED BY <3>1, <3>2
  <2> QED BY <2>1, <2>2
<1>4. \A e \in Tells' : e.id \in forge'.born /\ e.kind # "transferred"
  BY <1>1, <1>2
<1>5. \A j \in Ids : Unmanaged(j)' => j \in forge.born
  BY <1>0 DEF HookInv, AtHome, EachHome, Unmanaged
<1>6. ASSUME NEW o \in Owners, jobs'[o].job.kind = "create", jobs'[o].job.at = "manage",
             ~jobs'[o].job.slow,
             NEW r \in told', r.what = "unmanaged", r.id = jobs'[o].job.id
      PROVE  FALSE
  <2>1. r \in told /\ r.id \in forge.born
    BY <1>0, <1>6 DEF HookInv, HookTyped, Hooks!Reports, AtHome, EachHome, Unmanaged
  <2>2. jobs'[o] = jobs[o]
    BY <1>6, <2>1
  <2> QED BY <1>0, <1>6, <2>1, <2>2 DEF HookInv, AtHome, EachHome, Unmanaged
<1> QED BY <1>3, <1>4, <1>5, <1>6 DEF EachHome, Unmanaged

(* Where a repository that moved is, and all others.                        *)
LEMMA HookPlaced ==
    ASSUME forge \in Forges, NEW i \in Ids, NEW p \in Spots, forge' = Hooks!Moved(i, p)
    PROVE  /\ \A j \in Ids, q \in Owners :
                PlacedWith(j, q) /\ (j = i => p = Nothing \/ Hooks!Inside(p, q))
                  => PlacedWith(j, q)'
           /\ \A j \in Ids \ {i} : NoPlace(j) => NoPlace(j)'
           /\ \A q \in Owners : NoPlace(i) /\ Hooks!Inside(p, q) => PlacedWith(i, q)'
<1>1. /\ \A j \in Ids : forge'.place[j] = IF j = i THEN p ELSE forge.place[j]
      /\ \A q \in Hooks!Places : forge'.way[q] = IF q = p THEN i ELSE forge.way[q]
  BY HookMoved
<1>2. ASSUME NEW j \in Ids, NEW q \in Owners, PlacedWith(j, q),
             j = i => p = Nothing \/ Hooks!Inside(p, q)
      PROVE  PlacedWith(j, q)'
  <2>1. forge'.place[j] # Nothing => Hooks!Inside(forge'.place[j], q)
    BY <1>1, <1>2 DEF PlacedWith
  <2>2. ASSUME NEW r \in Hooks!Places, forge'.way[r] = j PROVE Hooks!Inside(r, q)
    <3>1. r # Nothing
      BY HooksAssumption DEF Hooks!Places
    <3> QED BY <1>1, <1>2, <2>2, <3>1 DEF PlacedWith
  <2> QED BY <2>1, <2>2 DEF PlacedWith
<1>3. ASSUME NEW j \in Ids \ {i}, NoPlace(j) PROVE NoPlace(j)'
  BY <1>1, <1>3 DEF NoPlace
<1>4. ASSUME NEW q \in Owners, NoPlace(i), Hooks!Inside(p, q) PROVE PlacedWith(i, q)'
  BY <1>1, <1>4 DEF NoPlace, PlacedWith
<1> QED BY <1>2, <1>3, <1>4

(* A repository moves, or one is born, and nothing else changes: it stays   *)
(* with its owner unless `been' tells of the new one.                       *)
LEMMA HookMoving ==
    ASSUME HookInv, HookTyped', NEW i \in Ids, NEW p \in Spots, forge' = Hooks!Moved(i, p),
           UNCHANGED <<tasks, store, jobs>>,
           \A j \in Ids : notes.been[j] \subseteq notes'.been[j],
           \A q \in Owners : i \in forge.born /\ Hooks!Inside(p, q)
             => Hooks!Inside(forge.place[i], q) \/ q \in notes'.been[i]
    PROVE  /\ Births'
           /\ \A j \in forge.born, q \in Owners :
                Native(j, q) /\ (j = i => p = Nothing \/ Hooks!Inside(p, q)) => Native(j, q)'
           /\ \A q \in Owners : i \notin forge.born /\ Hooks!Inside(p, q) => Native(i, q)'
<1>0. forge \in Forges /\ forge.born \subseteq Ids /\ Nothing \notin Hooks!Places
      /\ forge'.born = forge.born \cup {i}
      /\ \A j \in Ids : forge'.place[j] = IF j = i THEN p ELSE forge.place[j]
  BY HookMoved, HooksAssumption DEF HookInv, HookTyped, Forges, Hooks!Places
<1>1. ASSUME NEW j \in forge.born, NEW q \in Owners, Native(j, q),
             j = i => p = Nothing \/ Hooks!Inside(p, q)
      PROVE  Native(j, q)'
  <2>1. PlacedWith(j, q)'
    BY <1>0, <1>1, HookPlaced DEF Native
  <2> QED BY <1>1, <2>1 DEF Native, Fits, TakenBy, AskedBy
<1>2. ASSUME NEW q \in Owners, i \notin forge.born, Hooks!Inside(p, q) PROVE Native(i, q)'
  <2>1. Unborn(i)
    BY <1>2 DEF HookInv, Births
  <2>2. PlacedWith(i, q)'
    BY <1>0, <1>2, <2>1, HookPlaced DEF Unborn
  <2> QED BY <2>1, <2>2 DEF Native, Unborn, Fits, TakenBy, AskedBy, NotTaken, NotAsked
<1>3. ASSUME NEW j \in Ids \ forge'.born PROVE Unborn(j)'
  <2>1. Unborn(j) /\ j # i
    BY <1>0, <1>3 DEF HookInv, Births
  <2>2. NoPlace(j)'
    BY <1>0, <2>1, HookPlaced DEF Unborn
  <2> QED BY <2>1, <2>2 DEF Unborn, NotTaken, NotAsked
<1>4. ASSUME NEW j \in forge'.born, NEW q \in Owners, Hooks!Inside(forge'.place[j], q),
             q \notin notes'.been[j]
      PROVE  Native(j, q)'
  <2>0. j \in Ids
    BY <1>0
  <2>1. CASE j \notin forge.born
    BY <1>0, <1>2, <1>4, <2>1
  <2>2. CASE j \in forge.born
    <3>1. Hooks!Inside(forge.place[j], q) /\ q \notin notes.been[j]
      BY <1>0, <1>4, <2>0, <2>2
    <3>2. Native(j, q)
      BY <2>2, <3>1 DEF HookInv, Births
    <3> QED BY <1>0, <1>1, <1>4, <2>0, <2>2, <3>2
  <2> QED BY <2>1, <2>2
<1>5. Births'
  BY <1>3, <1>4 DEF Births
<1> QED BY <1>1, <1>2, <1>5

LEMMA HookStrangerCreates ==
    ASSUME HookInv, NEW i \in Ids, NEW p \in Hooks!Places, Hooks!StrangerCreates(i, p)
    PROVE  HookInv'
<1>0. HookTyped /\ forge \in Forges /\ p \in Spots /\ p[1] \in Owners /\ Hooks!Inside(p, p[1])
      /\ Nothing \in Spots /\ "stranger" \in Hooks!Moves
  BY DEF HookInv, HookTyped, Spots, Hooks!Places, Hooks!Inside, Hooks!Moves
<1>1. plan' \in HookPlanOf /\ count' \in [Hooks!Moves -> Nat] /\ (Calm' => Calm)
  BY <1>0, HookHappens DEF Hooks!StrangerCreates
<1>2. PICK d : d = Hooks!Post(p[1], "created", i, Nothing, p)
  OBVIOUS
<1>3. /\ d \in Hooks!Deliveries /\ d.id = i /\ d.to = p[1] /\ d.kind = "created"
      /\ posts' = posts \cup {d} /\ forge' = Hooks!Moved(i, p) /\ i \notin forge.born
      /\ UNCHANGED <<seen, tasks, store, jobs, told, notes>>
  BY <1>0, <1>2, HookPost DEF Hooks!StrangerCreates, Hooks!World
<1>4. forge' \in Forges /\ forge'.born = forge.born \cup {i}
  BY <1>0, <1>3, HookMoved
<1>5. HookTyped'
  BY <1>0, <1>1, <1>3, <1>4 DEF HookTyped
<1>6. /\ Births' /\ Native(i, d.to)'
      /\ \A j \in forge.born, q \in Owners : Native(j, q) => Native(j, q)'
  BY <1>0, <1>3, <1>5, HookMoving
<1>7. AtHome'
  BY <1>0, <1>1, <1>3, <1>4, <1>6, HookHome
<1> QED BY <1>1, <1>3, <1>5, <1>6, <1>7, HookWorld

(* A repository that is somewhere was born, and is with its owner.          *)
LEMMA HookThere ==
    ASSUME HookInv, NEW i \in Ids, forge.place[i] # Nothing
    PROVE  /\ i \in forge.born /\ forge.place[i] \in Hooks!Places /\ forge.place[i][1] \in Owners
           /\ Hooks!Inside(forge.place[i], forge.place[i][1])
           /\ \A q \in Owners : Native(i, q) => q = forge.place[i][1]
<1>1. i \in forge.born
  BY DEF HookInv, Births, Unborn, NoPlace
<1>2. forge.place[i] \in Hooks!Places
  BY DEF HookInv, HookTyped, Forges, Spots
<1>3. \A q \in Owners : Native(i, q) => Hooks!Inside(forge.place[i], q)
  BY DEF Native, PlacedWith
<1> QED BY <1>1, <1>2, <1>3 DEF Hooks!Places, Hooks!Inside

LEMMA HookRename ==
    ASSUME HookInv, NEW i \in Ids, NEW p \in Hooks!Places, Hooks!Rename(i, p)
    PROVE  HookInv'
<1>0. HookTyped /\ forge \in Forges /\ p \in Spots /\ p[1] \in Owners /\ Hooks!Inside(p, p[1])
      /\ forge.place[i] \in Spots /\ "rename" \in Hooks!Moves
  BY DEF HookInv, HookTyped, Spots, Forges, Hooks!Places, Hooks!Inside, Hooks!Moves
<1>1. plan' \in HookPlanOf /\ count' \in [Hooks!Moves -> Nat] /\ (Calm' => Calm)
  BY <1>0, HookHappens DEF Hooks!Rename
<1>2. PICK d : d = Hooks!Post(p[1], "renamed", i, forge.place[i], p)
  OBVIOUS
<1>3. /\ d \in Hooks!Deliveries /\ d.id = i /\ d.to = p[1] /\ d.kind = "renamed"
      /\ posts' = posts \cup {d} /\ forge' = Hooks!Moved(i, p)
      /\ forge.place[i] # Nothing /\ Hooks!Inside(p, forge.place[i][1])
      /\ UNCHANGED <<seen, tasks, store, jobs, told, notes>>
  BY <1>0, <1>2, HookPost DEF Hooks!Rename, Hooks!World
<1>4. /\ i \in forge.born /\ p[1] = forge.place[i][1]
      /\ \A q \in Owners : Hooks!Inside(p, q) <=> q = p[1]
      /\ Hooks!Inside(forge.place[i], p[1])
      /\ \A q \in Owners : Native(i, q) => q = p[1]
  BY <1>0, <1>3, HookThere DEF Hooks!Inside, Hooks!Places
<1>5. forge' \in Forges /\ forge'.born = forge.born \cup {i}
  BY <1>0, <1>3, HookMoved
<1>6. HookTyped'
  BY <1>0, <1>1, <1>3, <1>5 DEF HookTyped
<1>7. /\ Births'
      /\ \A j \in forge.born, q \in Owners : Native(j, q) => Native(j, q)'
  BY <1>0, <1>3, <1>4, <1>6, HookMoving
<1>8. AtHome'
  BY <1>0, <1>1, <1>3, <1>4, <1>5, <1>7, HookHome
<1> QED BY <1>1, <1>3, <1>6, <1>7, <1>8, HookWorld

LEMMA HookTransfer ==
    ASSUME HookInv, NEW i \in Ids, NEW p \in Hooks!Places, Hooks!Transfer(i, p)
    PROVE  HookInv'
<1>0. HookTyped /\ forge \in Forges /\ notes \in HookNotes /\ p \in Spots /\ p[1] \in Owners
      /\ forge.place[i] \in Spots /\ "transfer" \in Hooks!Moves
      /\ \A q \in Owners : Hooks!Inside(p, q) => q = p[1]
  BY DEF HookInv, HookTyped, Spots, Forges, Hooks!Places, Hooks!Moves, Hooks!Inside
<1>1. plan' \in HookPlanOf /\ count' \in [Hooks!Moves -> Nat] /\ (Calm' => Calm) /\ ~Calm'
  BY <1>0, HookHappens DEF Hooks!Transfer
<1>2. /\ forge' = Hooks!Moved(i, p) /\ forge.place[i] # Nothing
      /\ UNCHANGED <<seen, tasks, store, jobs, told>>
      /\ notes' = [notes EXCEPT !.been[i] = @ \cup {p[1]}]
      /\ posts' = posts \cup {Hooks!Post(o, "transferred", i, forge.place[i], p) :
                                o \in {p[1], forge.place[i][1]}}
  BY DEF Hooks!Transfer, Hooks!World
<1>3. forge' \in Forges
  BY <1>0, <1>2, HookMoved
<1>4. posts' \in SUBSET Hooks!Deliveries
  <2>1. forge.place[i][1] \in Owners
    BY <1>2, HookThere
  <2>2. \A o \in {p[1], forge.place[i][1]} :
          Hooks!Post(o, "transferred", i, forge.place[i], p) \in Hooks!Deliveries
    BY <1>0, <2>1, HookPost
  <2> QED BY <1>0, <1>2, <2>2 DEF HookTyped
<1>5. /\ notes' \in HookNotes
      /\ notes'.been = [notes.been EXCEPT ![i] = @ \cup {p[1]}]
      /\ notes'.handled = notes.handled /\ notes'.twice = notes.twice
      /\ notes'.made = notes.made /\ notes'.dropped = notes.dropped
      /\ notes'.astray = notes.astray /\ notes'.gone = notes.gone
      /\ notes'.caught = notes.caught
  <2>1. [notes.been EXCEPT ![i] = @ \cup {p[1]}] \in [Ids -> SUBSET Owners]
    BY <1>0 DEF HookNotes
  <2>2. notes' = [notes EXCEPT !.been = [notes.been EXCEPT ![i] = @ \cup {p[1]}]]
    BY <1>2
  <2> QED BY <1>0, <2>1, <2>2 DEF HookNotes
<1>6. \A j \in Ids : notes'.been[j] = notes.been[j] \cup (IF j = i THEN {p[1]} ELSE {})
  BY <1>0, <1>5 DEF HookNotes
<1>7. HookTyped'
  BY <1>0, <1>1, <1>2, <1>3, <1>4, <1>5 DEF HookTyped
<1>8. Births'
  BY <1>0, <1>2, <1>6, <1>7, HookMoving
<1>9. AtHome'
  BY <1>1 DEF AtHome
<1> QED BY <1>1, <1>2, <1>5, <1>6, <1>7, <1>8, <1>9, HookWorld

LEMMA HookDelete == ASSUME HookInv, NEW i \in Ids, Hooks!Delete(i) PROVE HookInv'
<1>0. HookTyped /\ forge \in Forges /\ notes \in HookNotes /\ Nothing \in Spots
      /\ "delete" \in Hooks!Moves /\ \A q \in Owners : ~Hooks!Inside(Nothing, q)
  BY HooksAssumption DEF HookInv, HookTyped, Spots, Forges, Hooks!Places, Hooks!Moves,
     Hooks!Inside
<1>1. plan' \in HookPlanOf /\ count' \in [Hooks!Moves -> Nat] /\ (Calm' => Calm)
  BY <1>0, HookHappens DEF Hooks!Delete
<1>2. PICK d : d = Hooks!Post(forge.place[i][1], "deleted", i, Nothing, forge.place[i])
  OBVIOUS
<1>3. /\ i \in forge.born /\ forge.place[i] \in Hooks!Places /\ forge.place[i][1] \in Owners
      /\ \A q \in Owners : Native(i, q) => q = forge.place[i][1]
  BY HookThere DEF Hooks!Delete
<1>4. /\ d \in Hooks!Deliveries /\ d.id = i /\ d.to = forge.place[i][1] /\ d.kind = "deleted"
      /\ posts' = posts \cup {d} /\ forge' = Hooks!Moved(i, Nothing)
      /\ UNCHANGED <<seen, tasks, store, jobs, told>>
      /\ notes' = [notes EXCEPT !.caught = @ \cup (Hooks!InHand \cap {i})]
  BY <1>0, <1>2, <1>3, HookPost DEF Hooks!Delete, Hooks!World
<1>5. /\ notes' \in HookNotes /\ notes.caught \subseteq notes'.caught
      /\ notes'.handled = notes.handled /\ notes'.twice = notes.twice
      /\ notes'.made = notes.made /\ notes'.dropped = notes.dropped
      /\ notes'.astray = notes.astray /\ notes'.gone = notes.gone /\ notes'.been = notes.been
  <2>1. notes.caught \cup (Hooks!InHand \cap {i}) \in SUBSET Ids
    BY <1>0 DEF HookNotes
  <2> HIDE DEF Hooks!InHand
  <2> QED BY <1>0, <1>4, <2>1 DEF HookNotes
<1>6. forge' \in Forges /\ forge'.born = forge.born \cup {i}
  BY <1>0, <1>4, HookMoved
<1>7. HookTyped'
  BY <1>0, <1>1, <1>4, <1>5, <1>6 DEF HookTyped
<1>8. /\ Births'
      /\ \A j \in forge.born, q \in Owners : Native(j, q) => Native(j, q)'
  BY <1>0, <1>4, <1>5, <1>7, HookMoving
<1>9. AtHome'
  BY <1>1, <1>3, <1>4, <1>6, <1>8, HookHome
<1> QED BY <1>1, <1>4, <1>5, <1>7, <1>8, <1>9, HookWorld

(* What leaves the repositories where they are.                             *)
LEMMA HookStays ==
    ASSUME HookInv, UNCHANGED <<tasks, store, jobs, notes>>, forge'.place = forge.place,
           forge'.way = forge.way, forge'.born = forge.born
    PROVE  /\ Births'
           /\ \A j \in Ids, q \in Owners : Native(j, q) => Native(j, q)'
<1>1. \A j \in Ids, q \in Owners : Native(j, q) <=> Native(j, q)'
  BY DEF Native, PlacedWith, Fits, TakenBy, AskedBy
<1>2. \A j \in Ids : Unborn(j) => Unborn(j)'
  BY DEF Unborn, NoPlace, NotTaken, NotAsked
<1>3. forge.born \subseteq Ids
  BY DEF HookInv, HookTyped, Forges
<1> QED BY <1>1, <1>2, <1>3 DEF HookInv, Births

LEMMA HookCounted ==
    ASSUME forge \in Forges, forge' = [forge EXCEPT !.events = @ + 1]
    PROVE  /\ forge' \in Forges /\ forge'.place = forge.place /\ forge'.way = forge.way
           /\ forge'.born = forge.born
<1>1. forge.events + 1 \in Nat
  BY DEF Forges
<1> QED BY <1>1 DEF Forges

LEMMA HookEdit == ASSUME HookInv, NEW i \in Ids, Hooks!Edit(i) PROVE HookInv'
<1>0. HookTyped /\ forge \in Forges /\ Nothing \in Spots /\ "edit" \in Hooks!Moves
      /\ forge.born \subseteq Ids
  BY DEF HookInv, HookTyped, Spots, Hooks!Moves, Forges
<1>1. plan' \in HookPlanOf /\ count' \in [Hooks!Moves -> Nat] /\ (Calm' => Calm)
  BY <1>0, HookHappens DEF Hooks!Edit
<1>2. PICK d : d = Hooks!Post(forge.place[i][1], "edited", i, Nothing, forge.place[i])
  OBVIOUS
<1>3. /\ i \in forge.born /\ forge.place[i] \in Hooks!Places /\ forge.place[i][1] \in Owners
      /\ \A q \in Owners : Native(i, q) => q = forge.place[i][1]
  BY HookThere DEF Hooks!Edit
<1>4. /\ d \in Hooks!Deliveries /\ d.id = i /\ d.to = forge.place[i][1] /\ d.kind = "edited"
      /\ posts' = posts \cup {d} /\ forge' = [forge EXCEPT !.events = @ + 1]
      /\ UNCHANGED <<seen, tasks, store, jobs, told, notes>>
  BY <1>0, <1>2, <1>3, HookPost DEF Hooks!Edit, Hooks!World
<1>5. /\ forge' \in Forges /\ forge'.place = forge.place /\ forge'.way = forge.way
      /\ forge'.born = forge.born
  BY <1>0, <1>4, HookCounted
<1>6. HookTyped'
  BY <1>0, <1>1, <1>4, <1>5 DEF HookTyped
<1>7. /\ Births'
      /\ \A j \in forge.born, q \in Owners : Native(j, q) => Native(j, q)'
  BY <1>0, <1>4, <1>5, HookStays
<1>8. AtHome'
  <2>1. forge'.born = forge.born \cup {i}
    BY <1>3, <1>5
  <2> QED BY <1>1, <1>3, <1>4, <1>7, <2>1, HookHome
<1> QED BY <1>1, <1>4, <1>6, <1>7, <1>8, HookWorld

LEMMA HookClaim ==
    ASSUME HookInv, NEW d \in Hooks!Deliveries, Hooks!Claim(d) PROVE HookInv'
<1>0. HookTyped /\ forge \in Forges /\ "claim" \in Hooks!Moves
  BY DEF HookInv, HookTyped, Hooks!Moves
<1>1. plan' \in HookPlanOf /\ count' \in [Hooks!Moves -> Nat] /\ (Calm' => Calm) /\ ~Calm'
  BY <1>0, HookHappens DEF Hooks!Claim
<1>2. /\ posts' = posts \cup {d} /\ forge' = [forge EXCEPT !.events = @ + 1]
      /\ UNCHANGED <<seen, tasks, store, jobs, told, notes>>
  BY DEF Hooks!Claim, Hooks!World
<1>3. /\ forge' \in Forges /\ forge'.place = forge.place /\ forge'.way = forge.way
      /\ forge'.born = forge.born
  BY <1>0, <1>2, HookCounted
<1>4. HookTyped'
  BY <1>0, <1>1, <1>2, <1>3 DEF HookTyped
<1>5. Births' /\ AtHome'
  BY <1>1, <1>2, <1>3, HookStays DEF AtHome
<1> QED BY <1>1, <1>2, <1>4, <1>5, HookWorld

LEMMA HookLose == ASSUME HookInv, NEW d, Hooks!Lose(d) PROVE HookInv'
<1>0. HookTyped /\ "lose" \in Hooks!Moves
  BY DEF HookInv, HookTyped, Hooks!Moves
<1>1. plan' \in HookPlanOf /\ count' \in [Hooks!Moves -> Nat] /\ (Calm' => Calm)
  BY <1>0, HookHappens DEF Hooks!Lose
<1>2. posts' = posts \ {d} /\ UNCHANGED <<seen, tasks, store, jobs, told, notes, forge>>
  BY DEF Hooks!Lose, Hooks!World
<1>3. HookTyped'
  BY <1>0, <1>1, <1>2 DEF HookTyped
<1>4. /\ Births'
      /\ \A j \in Ids, q \in Owners : Native(j, q) => Native(j, q)'
  BY <1>2, HookStays
<1>5. AtHome'
  <2>1. Tells' \subseteq Tells /\ forge.born \subseteq Ids
    BY <1>0, <1>2 DEF Tells, HookTyped, Forges
  <2> QED BY <1>1, <1>2, <1>4, <2>1 DEF HookInv, AtHome, EachHome, Mail, Unmanaged
<1> QED BY <1>1, <1>2, <1>3, <1>4, <1>5, HookWorld

LEMMA HookReceive ==
    ASSUME HookInv, NEW d, NEW again \in BOOLEAN, Hooks!Receive(d, again) PROVE HookInv'
<1>0. HookTyped /\ notes \in HookNotes /\ "again" \in Hooks!Moves /\ d \in Hooks!Deliveries
      /\ d \in posts /\ forge.born \subseteq Ids
  BY DEF HookInv, HookTyped, Hooks!Moves, Hooks!Receive, Forges
<1>1. /\ plan' \in HookPlanOf /\ count' \in [Hooks!Moves -> Nat] /\ (Calm' => Calm)
      /\ posts' \subseteq posts /\ UNCHANGED <<forge, store, jobs, told>>
  BY <1>0, HookHappens DEF Hooks!Receive
<1> PICK n : n = [post |-> d, at |-> "new", found |-> Nothing, id |-> Nothing,
                  old |-> Hooks!NoRecord]
  OBVIOUS
<1>2. n \in Handlers /\ n.at = "new" /\ n.post = d
  BY <1>0 DEF Handlers, Spots, Hooks!NoRecord, Entries
<1>3. CASE ~(Hooks!Admits(d) /\ d \notin seen)
  <2>1. UNCHANGED <<seen, tasks, notes>>
    BY <1>3 DEF Hooks!Receive
  <2>2. HookTyped'
    BY <1>0, <1>1, <2>1 DEF HookTyped
  <2>3. /\ Births'
        /\ \A j \in Ids, q \in Owners : Native(j, q) => Native(j, q)'
    BY <1>1, <2>1, HookStays
  <2>4. AtHome'
    <3>1. Tells' \subseteq Tells
      BY <1>1, <2>1 DEF Tells
    <3> QED BY <1>0, <1>1, <2>3, <3>1 DEF HookInv, AtHome, EachHome, Mail, Unmanaged
  <2> QED BY <1>1, <2>1, <2>2, <2>3, <2>4, HookWorld
<1>4. CASE Hooks!Admits(d) /\ d \notin seen
  <2>1. /\ seen' = seen \cup {d} /\ tasks' = tasks \cup {n}
        /\ notes' = [notes EXCEPT !.handled = @ \cup {d}, !.twice = @ \/ d \in notes.handled]
    BY <1>4 DEF Hooks!Receive, Hooks!Recorded
  <2>2. /\ notes' \in HookNotes /\ notes'.handled = notes.handled \cup {d}
        /\ notes'.twice = (notes.twice \/ d \in notes.handled)
        /\ notes'.made = notes.made /\ notes'.dropped = notes.dropped
        /\ notes'.astray = notes.astray /\ notes'.gone = notes.gone
        /\ notes'.caught = notes.caught /\ notes'.been = notes.been
    <3>1. PICK h, w : h = notes.handled \cup {d} /\ w = (notes.twice \/ d \in notes.handled)
      OBVIOUS
    <3>2. h \in SUBSET Hooks!Deliveries /\ w \in BOOLEAN
      BY <1>0, <3>1 DEF HookNotes
    <3>3. notes' = [notes EXCEPT !.handled = h, !.twice = w]
      BY <2>1, <3>1
    <3> QED BY <1>0, <3>1, <3>2, <3>3 DEF HookNotes
  <2>3. HookTyped'
    BY <1>0, <1>1, <1>2, <2>1, <2>2 DEF HookTyped
  <2>4. (\A o \in Owners : JobKnows(o)') /\ RecordsInside' /\ SetsAgree' /\ Kept'
    BY <1>1, <2>2 DEF HookInv, JobKnows, RecordsInside, SetsAgree, Kept
  <2>5. Locked'
    BY <1>1, <1>2, <2>1 DEF HookInv, Locked
  <2>6. \A t \in tasks' : TaskKnows(t)'
    <3>1. \A t \in tasks : TaskKnows(t)'
      BY <2>2 DEF HookInv, TaskKnows
    <3>2. TaskKnows(n)'
      BY <1>2, <1>4 DEF TaskKnows
    <3> QED BY <2>1, <3>1, <3>2
  <2>7. /\ \A j \in Ids, q \in Owners : Native(j, q) => Native(j, q)'
        /\ \A j \in Ids : Unborn(j) => Unborn(j)'
    <3>1. \A j \in Ids : NotAsked(n, j) /\ \A q \in Owners : AskedBy(n, j, q)
      BY <1>2 DEF NotAsked, AskedBy
    <3> QED BY <1>1, <2>1, <3>1 DEF Native, PlacedWith, Fits, TakenBy, Unborn, NoPlace,
               NotTaken
  <2>8. Births'
    BY <1>0, <1>1, <2>2, <2>7 DEF HookInv, Births
  <2>9. AtHome'
    <3>1. Tells' \subseteq Tells
      BY <1>0, <1>1, <1>2, <2>1 DEF Tells
    <3> QED BY <1>0, <1>1, <2>7, <3>1 DEF HookInv, AtHome, EachHome, Mail, Unmanaged
  <2>10. (notes.handled \subseteq seen)' /\ Hooks!EachOnce'
    BY <1>4, <2>1, <2>2 DEF HookInv, Hooks!EachOnce
  <2>11. Hooks!EventsStayInside' /\ Hooks!NothingIsCarried'
    BY <1>1, <2>2 DEF HookInv, Hooks!EventsStayInside, Hooks!NothingIsCarried
  <2>12. Hooks!OwnNotStrange'
    BY <1>1, <2>2 DEF HookInv, Hooks!OwnNotStrange, Calm
  <2> QED BY <2>3, <2>4, <2>5, <2>6, <2>8, <2>9, <2>10, <2>11, <2>12 DEF HookInv
<1> QED BY <1>3, <1>4

(* What a handler may make of the records: some are dropped, with all that  *)
(* was managed under their ids, and of others the place alone changes.      *)
Relabels(st, out) ==
  /\ st \in Stores /\ out \subseteq Ids
  /\ \A o \in Owners :
       /\ st.managed[o] = store.managed[o] \ out
       /\ st.listed[o] = IF store.managed[o] \cap out = {} THEN store.listed[o]
                         ELSE store.managed[o] \ out
  /\ \A i \in out : st.record[i] = Hooks!NoRecord
  /\ \A i \in Ids \ out :
       \/ st.record[i] = store.record[i]
       \/ /\ store.record[i] # Hooks!NoRecord /\ st.record[i] # Hooks!NoRecord
          /\ st.record[i].ns = store.record[i].ns
          /\ \A q \in Owners : Native(i, q) => Hooks!Inside(st.record[i].at, q)
(* What a handler may tell, given what the store is next.                   *)
Tellable(r) ==
  /\ r \in Hooks!Reports
  /\ r.id \notin notes'.astray =>
       /\ r.what \in {"renamed", "transferred"} => Hooks!Inside(r.from, r.to)
       /\ r.what # "transferred" => Hooks!Inside(r.at, r.to)
  /\ Calm /\ r.what = "unmanaged" =>
       /\ r.id \in forge.born /\ (r.id \in notes.made => r.id \in notes'.dropped)
       /\ \A o \in Owners : LET j == jobs[o].job IN
            j.kind = "create" /\ j.at = "manage" /\ ~j.slow => j.id # r.id
Wrote(out, reports) ==
  /\ Relabels(store', out) /\ told' = told \cup reports
  /\ notes' \in HookNotes /\ notes'.handled = notes.handled /\ notes'.twice = notes.twice
  /\ notes'.made = notes.made /\ notes'.been = notes.been
  /\ notes'.dropped = notes.dropped \cup out
  /\ notes.astray \cup Hooks!Astray(store') \subseteq notes'.astray
  /\ notes'.caught = notes.caught \cup (out \cap Hooks!InHand)
  /\ \A o \in Owners : notes'.gone[o] = notes.gone[o] \cup
       {i \in out : Hooks!RepoIn(o, i) \/ i \in store.managed[o]}
(* Whose records a handler may drop: its own organisation's, or of what has *)
(* been with another than theirs.                                           *)
OfOwner(o, out) == \A i \in out : store.record[i].ns \in {o, Nothing}
Spares(t, out) ==
  \A i \in out : \/ store.record[i].ns \in {t.post.to, Nothing}
                 \/ notes.been[i] \ {store.record[i].ns} # {}
(* What a handler may go on as.                                             *)
Heir(t, u) ==
  /\ u \in Handlers /\ u.post = t.post /\ TaskKnows(u)
  /\ \A i \in Ids \ forge.born : NotAsked(u, i)
  /\ \A i \in Ids, q \in Owners : Native(i, q) => AskedBy(u, i, q)

LEMMA HookKeeps == ASSUME HookInv, Hooks!Nothing2Do PROVE Wrote({}, {})
<1>1. notes \in HookNotes /\ store \in Stores
  BY DEF HookInv, HookTyped
<1>2. Hooks!Astray(store) \subseteq notes.astray
  BY DEF HookInv, RecordsInside, Hooks!Astray
<1>3. Relabels(store, {})
  BY <1>1 DEF Relabels
<1> QED BY <1>1, <1>2, <1>3 DEF Wrote, Hooks!Nothing2Do

LEMMA HookWithout ==
    ASSUME HookTyped, NEW out \in SUBSET Ids
    PROVE  Relabels(Hooks!Without(store, out), out)
<1>1. store \in Stores
  BY DEF HookTyped
<1> DEFINE rec == [i \in Ids |-> IF i \in out THEN Hooks!NoRecord ELSE store.record[i]]
           man == [o \in Owners |-> store.managed[o] \ out]
           lis == [o \in Owners |-> IF store.managed[o] \cap out = {} THEN store.listed[o]
                                    ELSE store.managed[o] \ out]
<1>2. Hooks!NoRecord \in Entries
  BY DEF Hooks!NoRecord, Entries, Spots
<1>3. rec \in [Ids -> Entries] /\ man \in [Owners -> SUBSET Ids] /\ lis \in [Owners -> SUBSET Ids]
  BY <1>1, <1>2 DEF Stores
<1>4. Hooks!Without(store, out) = [record |-> rec, managed |-> man, listed |-> lis]
  BY DEF Hooks!Without
<1>5. /\ \A o \in Owners : man[o] = store.managed[o] \ out
      /\ \A o \in Owners : lis[o] = IF store.managed[o] \cap out = {} THEN store.listed[o]
                                    ELSE store.managed[o] \ out
      /\ \A i \in Ids : rec[i] = IF i \in out THEN Hooks!NoRecord ELSE store.record[i]
  OBVIOUS
<1> HIDE DEF rec, man, lis
<1> QED BY <1>3, <1>4, <1>5 DEF Relabels, Stores

LEMMA HookReplaced ==
    ASSUME HookTyped, NEW out \in SUBSET Ids, NEW i \in Ids \ out, NEW p \in Hooks!Places,
           store.record[i] # Hooks!NoRecord,
           \A q \in Owners : Native(i, q) => Hooks!Inside(p, q)
    PROVE  Relabels([Hooks!Without(store, out) EXCEPT !.record[i].at = p], out)
<1> PICK st : st = Hooks!Without(store, out)
  OBVIOUS
<1>1. Relabels(st, out) /\ st \in Stores /\ st.record[i] = store.record[i]
      /\ st.record[i] \in Entries
  <2>1. Relabels(st, out)
    BY HookWithout
  <2>2. st.record = [j \in Ids |-> IF j \in out THEN Hooks!NoRecord ELSE store.record[j]]
    BY DEF Hooks!Without
  <2> QED BY <2>1, <2>2 DEF Relabels, Stores
<1> PICK e : e = [st.record[i] EXCEPT !.at = p]
  OBVIOUS
<1> PICK rec : rec = [st.record EXCEPT ![i] = e]
  OBVIOUS
<1>2. e \in Entries /\ e.at = p /\ e.ns = store.record[i].ns
  BY <1>1 DEF Entries, Spots
<1>3. rec \in [Ids -> Entries] /\ \A j \in Ids : rec[j] = IF j = i THEN e ELSE st.record[j]
  BY <1>1, <1>2 DEF Stores
<1>4. [Hooks!Without(store, out) EXCEPT !.record[i].at = p] = [st EXCEPT !.record = rec]
  OBVIOUS
<1>5. [st EXCEPT !.record = rec] \in Stores /\ [st EXCEPT !.record = rec].record = rec
      /\ [st EXCEPT !.record = rec].managed = st.managed
      /\ [st EXCEPT !.record = rec].listed = st.listed
  BY <1>1, <1>3 DEF Stores
<1>6. e # Hooks!NoRecord
  BY <1>2, HooksAssumption DEF Hooks!NoRecord, Hooks!Places
<1> QED BY <1>1, <1>2, <1>3, <1>4, <1>5, <1>6 DEF Relabels

LEMMA HookWrite ==
    ASSUME HookInv, NEW out \in SUBSET Ids, NEW st, NEW reports, Relabels(st, out),
           Hooks!Write(out, st, reports)
    PROVE  Wrote(out, reports)
<1>1. notes \in HookNotes /\ st \in Stores /\ store' = st /\ told' = told \cup reports
      /\ store \in Stores
  BY DEF HookInv, HookTyped, Relabels, Hooks!Write
<1> DEFINE g == [o \in Owners |-> notes.gone[o] \cup
                   {i \in out : Hooks!RepoIn(o, i) \/ i \in store.managed[o]}]
<1> PICK d, a, c : d = notes.dropped \cup out /\ a = notes.astray \cup Hooks!Astray(st)
                   /\ c = notes.caught \cup (out \cap Hooks!InHand)
  OBVIOUS
<1>2. d \in SUBSET Ids /\ a \in SUBSET Ids /\ c \in SUBSET Ids /\ g \in [Owners -> SUBSET Ids]
  BY <1>1 DEF HookNotes, Hooks!Astray
<1>3. notes' = [notes EXCEPT !.dropped = d, !.astray = a, !.caught = c, !.gone = g]
  BY DEF Hooks!Write
<1>4. \A o \in Owners : g[o] = notes.gone[o] \cup
                          {i \in out : Hooks!RepoIn(o, i) \/ i \in store.managed[o]}
  OBVIOUS
<1> HIDE DEF g
<1>5. /\ notes' \in HookNotes /\ notes'.handled = notes.handled /\ notes'.twice = notes.twice
      /\ notes'.made = notes.made /\ notes'.been = notes.been
      /\ notes'.dropped = d /\ notes'.astray = a /\ notes'.caught = c /\ notes'.gone = g
  BY <1>1, <1>2, <1>3 DEF HookNotes
<1> QED BY <1>1, <1>4, <1>5 DEF Wrote

(* A handler's step keeps all: what it does to the records, what it tells,  *)
(* and what it goes on as, are as above.                                    *)
LEMMA HookHandled ==
    ASSUME HookInv, UNCHANGED <<plan, count, forge, posts, seen>>,
           NEW t \in tasks, NEW out \in SUBSET Ids, NEW reports, Wrote(out, reports),
           \A r \in reports : Tellable(r),
           \A u \in tasks' : u \in tasks \/ Heir(t, u),
           Spares(t, out), out = {} \/ t \notin tasks',
           jobs' \in JobsOf,
           \A o \in Owners : /\ jobs'[o].job = jobs[o].job
                             /\ jobs'[o] = jobs[o] \/ jobs[o].lock # "job",
           Locked'
    PROVE  HookInv' /\ Hooks!OnlyItsOwn
<1>0. /\ notes \in HookNotes /\ store \in Stores /\ store' \in Stores /\ notes' \in HookNotes
      /\ forge.born \subseteq Ids /\ told' = told \cup reports /\ tasks \in SUBSET Handlers
      /\ jobs \in JobsOf
  BY DEF HookInv, HookTyped, Wrote, Relabels, Forges
<1>1. HookTyped'
  <2>1. tasks' \in SUBSET Handlers
    BY <1>0 DEF Heir
  <2>2. told' \in SUBSET Hooks!Reports
    BY <1>0 DEF HookInv, HookTyped, Tellable
  <2> QED BY <1>0, <2>1, <2>2 DEF HookInv, HookTyped
<1>2. \A o \in Owners : JobKnows(o)'
  <2> SUFFICES ASSUME NEW o \in Owners PROVE JobKnows(o)'
    OBVIOUS
  <2>1. JobKnows(o) /\ jobs'[o].job = jobs[o].job
    BY DEF HookInv
  <2>2. jobs'[o].job.at # "idle" => jobs'[o].lock = "job"
    BY <2>1 DEF JobKnows
  <2> QED BY <2>1, <2>2 DEF JobKnows
<1>3. \A u \in tasks' : TaskKnows(u)'
  <2> SUFFICES ASSUME NEW u \in tasks' PROVE TaskKnows(u)'
    OBVIOUS
  <2>1. TaskKnows(u)
    BY DEF HookInv, Heir
  <2>2. notes.astray \subseteq notes'.astray /\ notes'.been = notes.been
    BY DEF Wrote
  <2> QED BY <2>1, <2>2 DEF TaskKnows
<1>4. RecordsInside'
  BY <1>0 DEF Wrote, RecordsInside, Hooks!Astray
<1>5. SetsAgree'
  <2> SUFFICES ASSUME NEW o \in Owners
               PROVE  /\ store'.listed[o] \subseteq store'.managed[o]
                      /\ jobs'[o].job.at \in {"plan", "persist"} => store'.listed[o] = store'.managed[o]
                      /\ jobs'[o].job.at = "persist" => store'.managed[o] \subseteq jobs'[o].job.view
                      /\ jobs'[o].job.view \cap notes'.gone[o] \subseteq notes'.caught
    BY DEF SetsAgree
  <2>1. /\ store.listed[o] \subseteq store.managed[o]
        /\ jobs[o].job.at \in {"plan", "persist"} => store.listed[o] = store.managed[o]
        /\ jobs[o].job.at = "persist" => store.managed[o] \subseteq jobs[o].job.view
        /\ jobs[o].job.view \cap notes.gone[o] \subseteq notes.caught
        /\ jobs'[o].job = jobs[o].job
    BY DEF HookInv, SetsAgree
  <2>2. /\ store'.managed[o] = store.managed[o] \ out
        /\ store'.listed[o] = IF store.managed[o] \cap out = {} THEN store.listed[o]
                              ELSE store.managed[o] \ out
    BY DEF Wrote, Relabels
  <2>3. jobs[o].job.view \subseteq Hooks!InHand
    BY <1>0 DEF Hooks!InHand, JobsOf, Job
  <2>4. /\ notes'.caught = notes.caught \cup (out \cap Hooks!InHand)
        /\ notes'.gone[o] \subseteq notes.gone[o] \cup out
    BY DEF Wrote
  <2>5. jobs[o].job.view \cap notes'.gone[o] \subseteq notes'.caught
    BY <2>1, <2>3, <2>4
  <2> QED BY <2>1, <2>2, <2>5
<1>6. Hooks!NothingIsCarried'
  <2> SUFFICES ASSUME NEW o \in Owners, NEW i \in notes'.gone[o], i \notin notes'.caught
               PROVE  /\ store'.record[i].ns # o /\ i \notin store'.managed[o]
                      /\ i \notin store'.listed[o]
    BY DEF Hooks!NothingIsCarried
  <2>0. /\ store'.managed[o] = store.managed[o] \ out
        /\ store'.listed[o] = IF store.managed[o] \cap out = {} THEN store.listed[o]
                              ELSE store.managed[o] \ out
        /\ store.listed[o] \subseteq store.managed[o]
    BY DEF Wrote, Relabels, HookInv, SetsAgree
  <2>1. i \in Ids
    BY <1>0 DEF HookNotes
  <2>2. CASE i \in out
    <3>1. store'.record[i] = Hooks!NoRecord /\ Hooks!NoRecord.ns = Nothing /\ Nothing # o
      BY <2>2, HooksAssumption DEF Wrote, Relabels, Hooks!NoRecord
    <3> QED BY <2>0, <2>2, <3>1
  <2>3. CASE i \notin out
    <3>1. i \in notes.gone[o] /\ i \notin notes.caught
      BY <2>3 DEF Wrote
    <3>2. store.record[i].ns # o /\ i \notin store.managed[o] /\ i \notin store.listed[o]
      BY <3>1 DEF HookInv, Hooks!NothingIsCarried
    <3>3. store'.record[i].ns = store.record[i].ns
      BY <2>1, <2>3 DEF Wrote, Relabels
    <3> QED BY <2>0, <2>3, <3>2, <3>3
  <2> QED BY <2>2, <2>3
<1>7. Kept'
  BY <1>0 DEF HookInv, Kept, Wrote, Relabels, HookNotes
<1>8. \A i \in Ids, q \in Owners : Native(i, q) => Native(i, q)'
  <2> SUFFICES ASSUME NEW i \in Ids, NEW q \in Owners, Native(i, q) PROVE Native(i, q)'
    OBVIOUS
  <2>1. PlacedWith(i, q)' /\ TakenBy(i, q)'
    BY DEF Native, PlacedWith, TakenBy
  <2>2. Fits(store'.record[i], q)
    <3>1. Fits(store.record[i], q)
      BY DEF Native
    <3>2. CASE i \in out
      BY <3>2 DEF Wrote, Relabels, Fits
    <3>3. CASE i \notin out
      BY <3>1, <3>3 DEF Wrote, Relabels, Fits
    <3> QED BY <3>2, <3>3
  <2>3. \A u \in tasks' : AskedBy(u, i, q)
    BY DEF Native, Heir
  <2> QED BY <2>1, <2>2, <2>3 DEF Native, Fits, AskedBy
<1>9. \A i \in Ids \ forge.born : Unborn(i)'
  <2> SUFFICES ASSUME NEW i \in Ids \ forge.born PROVE Unborn(i)'
    OBVIOUS
  <2>1. Unborn(i)
    BY DEF HookInv, Births
  <2>2. NoPlace(i)' /\ NotTaken(i)'
    BY <2>1 DEF Unborn, NoPlace, NotTaken
  <2>3. store'.record[i] = Hooks!NoRecord
    BY <2>1 DEF Unborn, Wrote, Relabels
  <2>4. \A u \in tasks' : NotAsked(u, i)
    BY <2>1 DEF Unborn, Heir
  <2> QED BY <2>2, <2>3, <2>4 DEF Unborn, NotAsked, Hooks!NoRecord
<1>10. Births'
  <2>1. notes'.been = notes.been
    BY DEF Wrote
  <2> QED BY <1>0, <1>8, <1>9, <2>1 DEF HookInv, Births
<1>11. AtHome'
  <2> SUFFICES ASSUME Calm' PROVE EachHome'
    BY DEF AtHome
  <2>0. Calm /\ EachHome
    BY DEF HookInv, AtHome, Calm
  <2>1. Tells' \subseteq Tells
    BY DEF Tells, Heir
  <2>2. \A i \in forge'.born : \E q \in Owners : Native(i, q)' /\ Mail(i, q)'
    BY <1>0, <1>8, <2>0, <2>1 DEF EachHome, Mail
  <2>3. \A d \in Tells' : d.id \in forge'.born /\ d.kind # "transferred"
    BY <2>0, <2>1 DEF EachHome
  <2>4. \A i \in Ids : Unmanaged(i)' => i \in forge'.born
    BY <1>0, <2>0 DEF EachHome, Unmanaged, Tellable
  <2>5. ASSUME NEW o \in Owners, jobs'[o].job.kind = "create", jobs'[o].job.at = "manage",
               ~jobs'[o].job.slow, NEW r \in told', r.what = "unmanaged",
               r.id = jobs'[o].job.id
        PROVE  FALSE
    <3>1. jobs'[o].job = jobs[o].job
      OBVIOUS
    <3>2. CASE r \in told
      BY <2>0, <2>5, <3>1, <3>2 DEF EachHome, Unmanaged
    <3>3. CASE r \in reports
      BY <2>0, <2>5, <3>1, <3>3 DEF Tellable
    <3> QED BY <1>0, <3>2, <3>3
  <2> QED BY <2>2, <2>3, <2>4, <2>5 DEF EachHome, Unmanaged
<1>12. Hooks!EachOnce' /\ (notes.handled \subseteq seen)'
  BY DEF HookInv, Hooks!EachOnce, Wrote
<1>13. Hooks!EventsStayInside'
  <2> SUFFICES ASSUME NEW r \in told', r.id \notin notes'.astray
               PROVE  /\ r.what \in {"renamed", "transferred"} => Hooks!Inside(r.from, r.to)
                      /\ r.what # "transferred" => Hooks!Inside(r.at, r.to)
    BY DEF Hooks!EventsStayInside
  <2>1. CASE r \in told
    BY <2>1 DEF HookInv, Hooks!EventsStayInside, Wrote
  <2>2. CASE r \in reports
    BY <2>2 DEF Tellable
  <2> QED BY <1>0, <2>1, <2>2
<1>14. Hooks!OwnNotStrange'
  <2> SUFFICES ASSUME Calm, NEW r \in told', r.what = "unmanaged", r.id \in notes'.made
               PROVE  r.id \in notes'.dropped
    BY DEF Hooks!OwnNotStrange, Calm
  <2>1. notes'.made = notes.made /\ notes.dropped \subseteq notes'.dropped
    BY DEF Wrote
  <2>2. CASE r \in told
    BY <2>1, <2>2 DEF HookInv, Hooks!OwnNotStrange, Calm
  <2>3. CASE r \in reports
    BY <2>1, <2>3 DEF Tellable
  <2> QED BY <1>0, <2>2, <2>3
<1>15. Hooks!OnlyItsOwn
  <2> SUFFICES ASSUME NEW i \in Ids, NEW o \in Owners, store.record[i].ns = o,
                      store'.record[i].ns # o, \A u \in tasks \ tasks' : u.post.to # o
               PROVE  notes.been[i] \ {o} # {}
    BY DEF Hooks!OnlyItsOwn
  <2>1. i \in out
    BY DEF Wrote, Relabels
  <2>2. t \in tasks \ tasks'
    BY <2>1
  <2> QED BY <2>1, <2>2, HooksAssumption DEF Spares
<1> QED BY <1>1, <1>2, <1>3, <1>4, <1>5, <1>6, <1>7, <1>10, <1>11, <1>12, <1>13, <1>14,
           <1>15
        DEF HookInv

(* A handler that leaves the locks alone, and is not looking.               *)
LEMMA HookGoes ==
    ASSUME HookInv, NEW t \in tasks,
           Hooks!Ends(t) \/ \E u : u.at # "act" /\ Heir(t, u) /\ Hooks!Goes(t, u),
           UNCHANGED jobs
    PROVE  /\ \A u \in tasks' : u \in tasks \/ Heir(t, u)
           /\ jobs' \in JobsOf
           /\ \A o \in Owners : /\ jobs'[o].job = jobs[o].job
                                /\ jobs'[o] = jobs[o] \/ jobs[o].lock # "job"
           /\ Locked'
<1>1. \A u \in tasks' : u \in tasks \/ (Heir(t, u) /\ u.at # "act")
  BY DEF Hooks!Ends, Hooks!Goes
<1>2. Locked'
  BY <1>1 DEF HookInv, Locked
<1> QED BY <1>1, <1>2 DEF HookInv, HookTyped

(* A repository reported unmanaged is no one's: what the bridge created and *)
(* recorded there in time would be recorded there.                          *)
LEMMA HookStrange ==
    ASSUME HookInv, NEW i \in Ids, NEW o \in Owners, NEW p \in Hooks!Places,
           Hooks!Inside(p, o), ~Hooks!RepoIn(o, i),
           Calm => /\ i \in forge.born /\ Native(i, o)
                   /\ \A q \in Owners : LET j == jobs[q].job IN
                        j.kind = "create" /\ j.at = "manage" /\ ~j.slow => j.id # i,
           NEW out, Wrote(out, {Hooks!Tell(o, "unmanaged", i, Nothing, p)})
    PROVE  \A r \in {Hooks!Tell(o, "unmanaged", i, Nothing, p)} : Tellable(r)
<1> PICK r : r = Hooks!Tell(o, "unmanaged", i, Nothing, p)
  OBVIOUS
<1>1. r.to = o /\ r.what = "unmanaged" /\ r.id = i /\ r.at = p /\ r \in Hooks!Reports
  BY DEF Hooks!Tell, Hooks!Reports
<1>2. Calm /\ i \in notes.made => i \in notes'.dropped
  <2> SUFFICES ASSUME Calm, i \in notes.made, i \notin notes.dropped PROVE FALSE
    BY DEF Wrote
  <2>2. store.record[i] # Hooks!NoRecord /\ Fits(store.record[i], o)
    BY DEF HookInv, Kept, Native
  <2> QED BY <2>2 DEF Fits, Hooks!RepoIn
<1> QED BY <1>1, <1>2 DEF Tellable

LEMMA HookStale ==
    ASSUME NEW o, NEW p, NEW i
    PROVE  Hooks!Stale(o, p, i) \in SUBSET (Ids \ {i}) /\ OfOwner(o, Hooks!Stale(o, p, i))
  BY DEF Hooks!Stale, OfOwner

(* The report, or none.                                                     *)
LEMMA HookUnmanaged ==
    ASSUME HookInv, NEW i \in Ids, NEW o \in Owners, NEW p \in Hooks!Places,
           Hooks!Inside(p, o),
           Calm /\ ~Hooks!RepoIn(o, i) =>
             /\ i \in forge.born /\ Native(i, o)
             /\ \A q \in Owners : LET j == jobs[q].job IN
                  j.kind = "create" /\ j.at = "manage" /\ ~j.slow => j.id # i,
           Hooks!ReportUnmanaged(o, p, i)
    PROVE  \E out, reports :
             /\ out \in SUBSET Ids
             /\ Wrote(out, reports) /\ OfOwner(o, out) /\ \A r \in reports : Tellable(r)
<1>1. CASE Hooks!RepoIn(o, i)
  <2>1. Wrote({}, {})
    BY <1>1, HookKeeps DEF Hooks!ReportUnmanaged
  <2> QED BY <2>1 DEF OfOwner
<1>2. CASE ~Hooks!RepoIn(o, i)
  <2> DEFINE out == Hooks!Stale(o, p, i)
             reports == {Hooks!Tell(o, "unmanaged", i, Nothing, p)}
  <2>1. out \in SUBSET Ids /\ OfOwner(o, out)
    BY HookStale
  <2>2. Hooks!Write(out, Hooks!Without(store, out), reports)
    BY <1>2 DEF Hooks!ReportUnmanaged, Hooks!Detach
  <2>3. Relabels(Hooks!Without(store, out), out)
    BY <2>1, HookWithout DEF HookInv
  <2> HIDE DEF out
  <2>4. Wrote(out, reports)
    BY <2>1, <2>2, <2>3, HookWrite
  <2>5. \A r \in reports : Tellable(r)
    BY <1>2, <2>4, HookStrange
  <2> HIDE DEF reports
  <2> QED BY <2>1, <2>4, <2>5
<1> QED BY <1>1, <1>2

(* A handler that ends, its namespace's lock untouched.                     *)
LEMMA HookEnds ==
    ASSUME HookInv, UNCHANGED <<plan, count, forge, posts, seen, jobs>>,
           NEW t \in tasks, Hooks!Ends(t),
           \E out, reports :
             /\ out \in SUBSET Ids
             /\ Wrote(out, reports) /\ \A r \in reports : Tellable(r)
             /\ OfOwner(t.post.to, out) \/ Spares(t, out)
    PROVE  HookInv' /\ Hooks!OnlyItsOwn
<1>1. /\ \A u \in tasks' : u \in tasks \/ Heir(t, u)
      /\ jobs' \in JobsOf
      /\ \A o \in Owners : /\ jobs'[o].job = jobs[o].job
                           /\ jobs'[o] = jobs[o] \/ jobs[o].lock # "job"
      /\ Locked'
  BY HookGoes
<1>2. PICK out, reports :
        /\ out \in SUBSET Ids
        /\ Wrote(out, reports) /\ \A r \in reports : Tellable(r)
        /\ OfOwner(t.post.to, out) \/ Spares(t, out)
  OBVIOUS
<1>3. Spares(t, out) /\ t \notin tasks'
  BY <1>2 DEF Spares, OfOwner, Hooks!Ends
<1> QED BY <1>1, <1>2, <1>3, HookHandled

LEMMA HookOnCreated ==
    ASSUME HookInv, NEW t \in tasks, Hooks!OnCreated(t),
           UNCHANGED <<plan, count, forge, posts, seen>>
    PROVE  HookInv' /\ Hooks!OnlyItsOwn
<1>1. /\ t \in Handlers /\ TaskKnows(t) /\ UNCHANGED jobs /\ t.post.kind = "created"
      /\ t.post.to \in Owners /\ t.post.id \in Ids /\ t.post.at \in Hooks!Places
      /\ Hooks!Inside(t.post.at, t.post.to)
  BY DEF HookInv, HookTyped, Hooks!OnCreated, Handlers, Hooks!Deliveries, TaskKnows,
     Hooks!Admits
<1>2. CASE t.at = "new"
  <2> PICK u : u = [t EXCEPT !.at = "wait"]
    OBVIOUS
  <2>1. Hooks!Nothing2Do /\ (Hooks!Ends(t) \/ Hooks!Goes(t, u))
    BY <1>2 DEF Hooks!OnCreated
  <2>2. u \in Handlers /\ u.at = "wait" /\ u.post = t.post
    BY <1>1 DEF Handlers
  <2>3. Heir(t, u)
    BY <1>1, <2>2 DEF Heir, TaskKnows, NotAsked, AskedBy
  <2>4. Wrote({}, {}) /\ Spares(t, {})
    BY <2>1, HookKeeps DEF Spares
  <2>5. Hooks!Ends(t) \/ \E w : w.at # "act" /\ Heir(t, w) /\ Hooks!Goes(t, w)
    BY <2>1, <2>2, <2>3
  <2>6. /\ \A w \in tasks' : w \in tasks \/ Heir(t, w)
        /\ jobs' \in JobsOf
        /\ \A o \in Owners : /\ jobs'[o].job = jobs[o].job
                             /\ jobs'[o] = jobs[o] \/ jobs[o].lock # "job"
        /\ Locked'
    BY <1>1, <2>5, HookGoes
  <2> QED BY <2>4, <2>6, HookHandled
<1>3. CASE t.at = "wait"
  <2>1. /\ Hooks!Ends(t) /\ Hooks!ReportUnmanaged(t.post.to, t.post.at, t.post.id)
        /\ \A o \in Owners : LET j == jobs[o].job IN
             j.kind = "create" /\ j.at = "manage" /\ j.id = t.post.id => j.slow
    BY <1>3 DEF Hooks!OnCreated
  <2>2. Calm => t.post.id \in forge.born /\ Native(t.post.id, t.post.to)
    BY <1>1 DEF HookInv, AtHome, EachHome, Mail, Tells
  <2>3. \E out, reports :
          /\ out \in SUBSET Ids
          /\ Wrote(out, reports) /\ OfOwner(t.post.to, out)
          /\ \A r \in reports : Tellable(r)
    BY <1>1, <2>1, <2>2, HookUnmanaged
  <2> QED BY <1>1, <2>1, <2>3, HookEnds
<1> QED BY <1>2, <1>3 DEF Hooks!OnCreated

(* What is told of no one's repository does not matter but for its places.  *)
LEMMA HookTold ==
    ASSUME NEW r \in Hooks!Reports, r.what # "unmanaged",
           r.id \in notes'.astray \/
             (/\ r.what \in {"renamed", "transferred"} => Hooks!Inside(r.from, r.to)
              /\ r.what # "transferred" => Hooks!Inside(r.at, r.to))
    PROVE  Tellable(r)
  BY DEF Tellable

LEMMA HookDetached ==
    ASSUME HookInv, NEW out \in SUBSET Ids, NEW reports, Hooks!Detach(out, reports)
    PROVE  Wrote(out, reports)
<1>1. Hooks!Write(out, Hooks!Without(store, out), reports)
  BY DEF Hooks!Detach
<1>2. Relabels(Hooks!Without(store, out), out)
  BY HookWithout DEF HookInv
<1> QED BY <1>1, <1>2, HookWrite

LEMMA HookTransferredOut ==
    ASSUME HookInv, NEW i \in Ids, NEW o \in Owners, NEW from \in Hooks!Places,
           NEW to \in Hooks!Places, Hooks!Inside(from, o),
           Hooks!TransferredOut(o, from, to, i)
    PROVE  \E out, reports :
             /\ out \in SUBSET Ids
             /\ Wrote(out, reports) /\ OfOwner(o, out) /\ \A r \in reports : Tellable(r)
<1>1. CASE Hooks!ClaimedElsewhere(o, i)
  <2>1. Wrote({}, {})
    BY <1>1, HookKeeps DEF Hooks!TransferredOut
  <2> QED BY <2>1 DEF OfOwner
<1>2. CASE ~Hooks!ClaimedElsewhere(o, i)
  <2> PICK r : r = Hooks!Tell(o, "transferred", i, from, to)
    OBVIOUS
  <2>1. r \in Hooks!Reports /\ r.what = "transferred" /\ r.from = from /\ r.to = o
    BY DEF Hooks!Tell, Hooks!Reports
  <2>2. Hooks!Detach({i}, {r})
    BY <1>2 DEF Hooks!TransferredOut
  <2>3. Wrote({i}, {r})
    BY <2>2, HookDetached
  <2>4. Tellable(r)
    BY <2>1, HookTold
  <2>5. OfOwner(o, {i})
    BY <1>2 DEF OfOwner, Hooks!ClaimedElsewhere
  <2> QED BY <2>3, <2>4, <2>5
<1> QED BY <1>1, <1>2

LEMMA HookOnDeleted ==
    ASSUME HookInv, NEW t \in tasks, Hooks!OnDeleted(t),
           UNCHANGED <<plan, count, forge, posts, seen>>
    PROVE  HookInv' /\ Hooks!OnlyItsOwn
<1> PICK o, i, p : o = t.post.to /\ i = t.post.id /\ p = t.post.at
  OBVIOUS
<1>1. /\ UNCHANGED jobs /\ Hooks!Ends(t) /\ o \in Owners /\ i \in Ids /\ p \in Hooks!Places
      /\ Hooks!Inside(p, o)
  BY DEF HookInv, HookTyped, Hooks!OnDeleted, Handlers, Hooks!Deliveries, TaskKnows,
     Hooks!Admits
<1>2. CASE Hooks!ClaimedElsewhere(o, i)
  <2>1. Wrote({}, {})
    BY <1>2, HookKeeps DEF Hooks!OnDeleted
  <2> QED BY <1>1, <2>1, HookEnds DEF OfOwner
<1>3. CASE ~Hooks!ClaimedElsewhere(o, i)
  <2> PICK r : r = Hooks!Tell(o, "deleted", i, Nothing, p)
    OBVIOUS
  <2>1. r \in Hooks!Reports /\ r.what = "deleted" /\ r.at = p /\ r.to = o
    BY <1>1 DEF Hooks!Tell, Hooks!Reports
  <2>2. Wrote({i}, {r})
    BY <1>1, <1>3, HookDetached DEF Hooks!OnDeleted
  <2>3. Tellable(r)
    BY <1>1, <2>1, HookTold
  <2>4. OfOwner(o, {i})
    BY <1>3 DEF OfOwner, Hooks!ClaimedElsewhere
  <2> QED BY <1>1, <2>2, <2>3, <2>4, HookEnds
<1> QED BY <1>2, <1>3

LEMMA HookOnRenamed ==
    ASSUME HookInv, NEW t \in tasks, Hooks!OnRenamed(t),
           UNCHANGED <<plan, count, forge, posts, seen>>
    PROVE  HookInv' /\ Hooks!OnlyItsOwn
<1> PICK o, i, p, from : o = t.post.to /\ i = t.post.id /\ p = t.post.at /\ from = t.post.from
  OBVIOUS
<1>1. /\ UNCHANGED jobs /\ Hooks!Ends(t) /\ o \in Owners /\ i \in Ids /\ p \in Hooks!Places
      /\ Hooks!Inside(p, o) /\ Hooks!Inside(from, o) /\ from \in Hooks!Places \cup {Nothing}
      /\ Nothing # o
  BY HooksAssumption
     DEF HookInv, HookTyped, Hooks!OnRenamed, Handlers, Hooks!Deliveries, TaskKnows,
        Hooks!Admits
<1>2. CASE Hooks!ClaimedElsewhere(o, i)
  <2>1. Wrote({}, {})
    BY <1>2, HookKeeps DEF Hooks!OnRenamed
  <2> QED BY <1>1, <2>1, HookEnds DEF OfOwner
<1>3. CASE ~Hooks!ClaimedElsewhere(o, i)
  <2> PICK out : out = Hooks!Stale(o, p, i)
    OBVIOUS
  <2> PICK r : r = Hooks!Tell(o, "renamed", i, from, p)
    OBVIOUS
  <2>1. r \in Hooks!Reports /\ r.what = "renamed" /\ r.at = p /\ r.to = o /\ r.from = from
    BY <1>1 DEF Hooks!Tell, Hooks!Reports
  <2>2. Hooks!Write(out, Hooks!Renamed(o, i, p), {r}) /\ out \in SUBSET Ids /\ i \notin out
        /\ OfOwner(o, out)
    BY <1>1, <1>3, HookStale DEF Hooks!OnRenamed
  <2>3. Relabels(Hooks!Renamed(o, i, p), out)
    <3>1. CASE ~Hooks!RepoIn(o, i)
      <4>1. Hooks!Renamed(o, i, p) = Hooks!Without(store, out)
        BY <3>1 DEF Hooks!Renamed
      <4> QED BY <2>2, <4>1, HookWithout DEF HookInv
    <3>2. CASE Hooks!RepoIn(o, i)
      <4>1. Hooks!Renamed(o, i, p) = [Hooks!Without(store, out) EXCEPT !.record[i].at = p]
        BY <3>2 DEF Hooks!Renamed
      <4>2. store.record[i] # Hooks!NoRecord
        BY <1>1, <3>2 DEF Hooks!RepoIn, Hooks!NoRecord
      <4>3. \A q \in Owners : Native(i, q) => Hooks!Inside(p, q)
        BY <1>1, <3>2, <4>2 DEF Native, Fits, Hooks!RepoIn
      <4> QED BY <1>1, <2>2, <4>1, <4>2, <4>3, HookReplaced DEF HookInv
    <3> QED BY <3>1, <3>2
  <2>4. Wrote(out, {r})
    BY <2>2, <2>3, HookWrite
  <2>5. Tellable(r)
    BY <1>1, <2>1, HookTold
  <2> QED BY <1>1, <2>2, <2>4, <2>5, HookEnds
<1> QED BY <1>2, <1>3

(* A handler that goes on, having changed nothing.                          *)
LEMMA HookOn ==
    ASSUME HookInv, UNCHANGED <<plan, count, forge, posts, seen, jobs>>, Hooks!Nothing2Do,
           NEW t \in tasks, NEW u, u.at # "act", Heir(t, u), Hooks!Goes(t, u)
    PROVE  HookInv' /\ Hooks!OnlyItsOwn
<1>1. /\ \A w \in tasks' : w \in tasks \/ Heir(t, w)
      /\ jobs' \in JobsOf
      /\ \A o \in Owners : /\ jobs'[o].job = jobs[o].job
                           /\ jobs'[o] = jobs[o] \/ jobs[o].lock # "job"
      /\ Locked'
  BY HookGoes
<1>2. Wrote({}, {}) /\ Spares(t, {})
  BY HookKeeps DEF Spares
<1> QED BY <1>1, <1>2, HookHandled

(* With a delivery of a transfer under way, nothing is calm.                *)
LEMMA HookOnTransferred ==
    ASSUME HookInv, NEW t \in tasks, Hooks!OnTransferred(t),
           UNCHANGED <<plan, count, forge, posts, seen>>
    PROVE  HookInv' /\ Hooks!OnlyItsOwn
<1> PICK o, i, p : o = t.post.to /\ i = t.post.id /\ p = t.post.at
  OBVIOUS
<1> DEFINE mine == Hooks!RepoIn(o, i) /\ Hooks!Inside(store.record[i].at, o)
           from == IF mine THEN store.record[i].at ELSE <<o, p[2]>>
<1>1. /\ UNCHANGED jobs /\ o \in Owners /\ i \in Ids /\ p \in Hooks!Places
      /\ t \in Handlers /\ TaskKnows(t) /\ t.post.kind = "transferred"
      /\ (Hooks!Inside(t.post.from, o) \/ Hooks!Inside(p, o))
      /\ store.record[i] \in Entries
  BY DEF HookInv, HookTyped, Hooks!OnTransferred, Handlers, Hooks!Deliveries, TaskKnows,
         Hooks!Admits, Stores
<1>2. ~Calm
  BY <1>1 DEF HookInv, AtHome, EachHome, Tells
<1>3. ASSUME Hooks!Ends(t), Hooks!ReportUnmanaged(o, p, i), Hooks!Inside(p, o)
      PROVE  HookInv' /\ Hooks!OnlyItsOwn
  BY <1>1, <1>2, <1>3, HookUnmanaged, HookEnds
<1>4. CASE t.at = "new" /\ (mine \/ Hooks!Inside(t.post.from, o))
  <2>1. Hooks!Ends(t) /\ Hooks!TransferredOut(o, from, p, i)
    BY <1>4 DEF Hooks!OnTransferred
  <2>2. from \in Hooks!Places /\ Hooks!Inside(from, o)
    BY <1>1 DEF Hooks!Places, Hooks!Inside
  <2> HIDE DEF from, mine
  <2> QED BY <1>1, <2>1, <2>2, HookTransferredOut, HookEnds
<1>5. CASE t.at = "new" /\ ~(mine \/ Hooks!Inside(t.post.from, o))
  <2>1. CASE store.record[i].ns \in {o, Nothing}
    <3>1. Hooks!Ends(t) /\ Hooks!ReportUnmanaged(o, p, i)
      BY <1>5, <2>1 DEF Hooks!OnTransferred
    <3> QED BY <1>1, <1>3, <1>5, <3>1
  <2>2. CASE store.record[i].ns \notin {o, Nothing}
    <3> PICK e : e = store.record[i]
      OBVIOUS
    <3> PICK u : u = [t EXCEPT !.at = "confirm", !.old = e]
      OBVIOUS
    <3>1. Hooks!Goes(t, u) /\ Hooks!Nothing2Do
      BY <1>5, <2>2 DEF Hooks!OnTransferred
    <3>2. /\ u \in Handlers /\ u.at = "confirm" /\ u.post = t.post /\ u.old = store.record[i]
          /\ store.record[i] # Hooks!NoRecord
      <4>1. e \in Entries /\ e # Hooks!NoRecord
        BY <1>1, <2>2 DEF Hooks!NoRecord
      <4> QED BY <1>1, <4>1 DEF Handlers
    <3>3. TaskKnows(u)
      BY <1>1, <1>5, <2>2, <3>2 DEF TaskKnows, HookInv, RecordsInside
    <3>4. \A j \in Ids \ forge.born : NotAsked(u, j)
      BY <1>1, <3>2 DEF HookInv, Births, Unborn, NotAsked
    <3>5. \A j \in Ids, q \in Owners : Native(j, q) => AskedBy(u, j, q)
      BY <1>1, <3>2 DEF Native, Fits, AskedBy
    <3>6. Heir(t, u)
      BY <3>2, <3>3, <3>4, <3>5 DEF Heir
    <3> QED BY <1>1, <3>1, <3>2, <3>6, HookOn
  <2> QED BY <2>1, <2>2
<1>6. CASE t.at = "confirm"
  <2>1. Hooks!Nothing2Do /\ \E f \in {forge.place[i], Nothing} :
          Hooks!Goes(t, [t EXCEPT !.at = "report", !.found = f])
    BY <1>6 DEF Hooks!OnTransferred
  <2> PICK f \in {forge.place[i], Nothing} :
        Hooks!Goes(t, [t EXCEPT !.at = "report", !.found = f])
    BY <2>1
  <2> PICK u : u = [t EXCEPT !.at = "report", !.found = f]
    OBVIOUS
  <2>2. f \in Spots
    BY <1>1 DEF HookInv, HookTyped, Forges, Spots
  <2>3. /\ u \in Handlers /\ u.at = "report" /\ u.post = t.post /\ u.old = t.old /\ u.found = f
    BY <1>1, <2>2 DEF Handlers
  <2>4. Hooks!Inside(f, o) => o \in notes.been[i]
    <3> SUFFICES ASSUME Hooks!Inside(f, o), o \notin notes.been[i] PROVE FALSE
      OBVIOUS
    <3>1. f = forge.place[i] /\ f # Nothing
      BY <1>1, HooksAssumption DEF Hooks!Inside, Hooks!Places
    <3>2. i \in forge.born
      BY <1>1, <3>1, HookThere
    <3>3. Native(i, o)
      BY <1>1, <3>1, <3>2 DEF HookInv, Births
    <3>4. t.old.ns = o
      BY <1>6, <3>3 DEF Native, AskedBy
    <3> QED BY <1>1, <1>6, <3>4 DEF TaskKnows
  <2>5. TaskKnows(u)
    BY <1>1, <1>6, <2>3, <2>4 DEF TaskKnows
  <2>6. \A j \in Ids \ forge.born : NotAsked(u, j)
    BY <1>6, <2>3 DEF HookInv, Births, Unborn, NotAsked
  <2>7. \A j \in Ids, q \in Owners : Native(j, q) => AskedBy(u, j, q)
    BY <1>6, <2>3 DEF Native, AskedBy
  <2>8. Heir(t, u)
    BY <2>3, <2>5, <2>6, <2>7 DEF Heir
  <2> QED BY <1>1, <2>1, <2>3, <2>8, HookOn
<1>7. CASE t.at = "report" /\ Hooks!LeftFor(o, i, t.found, t.old.ns)
  <2> PICK out : out = {i} \cup Hooks!Stale(o, p, i)
    OBVIOUS
  <2> PICK r, s : /\ r = Hooks!Tell(t.old.ns, "transferred", i, t.old.at, t.found)
                  /\ s = Hooks!Tell(o, "unmanaged", i, Nothing, p)
    OBVIOUS
  <2>1. Hooks!Ends(t) /\ Hooks!Detach(out, {r, s}) /\ out \in SUBSET Ids
    BY <1>1, <1>7, HookStale DEF Hooks!OnTransferred
  <2>2. Wrote(out, {r, s})
    BY <2>1, HookDetached
  <2>3. /\ t.old.ns \in Owners /\ t.old.at \in Hooks!Places \cup {Nothing}
        /\ t.found \in Hooks!Places /\ Hooks!Inside(p, o)
        /\ i \in notes.astray \/ Hooks!Inside(t.old.at, t.old.ns)
    BY <1>1, <1>7, HooksAssumption
       DEF TaskKnows, Handlers, Entries, Spots, Hooks!LeftFor, Hooks!Inside, Hooks!Places
  <2>4. /\ r \in Hooks!Reports /\ r.what = "transferred" /\ r.id = i
        /\ r.from = t.old.at /\ r.to = t.old.ns
    BY <1>1, <2>3 DEF Hooks!Tell, Hooks!Reports
  <2>5. Tellable(r)
    BY <2>2, <2>3, <2>4, HookTold DEF Wrote
  <2>6. Tellable(s)
    <3>1. s \in Hooks!Reports /\ s.what = "unmanaged" /\ s.at = p /\ s.to = o
      BY <1>1 DEF Hooks!Tell, Hooks!Reports
    <3> QED BY <1>2, <2>3, <3>1 DEF Tellable
  <2>7. Spares(t, out)
    <3>1. OfOwner(o, Hooks!Stale(o, p, i))
      BY HookStale
    <3>2. /\ store.record[i].ns \in {t.old.ns, Nothing} /\ o \in notes.been[i] /\ o # t.old.ns
          /\ o # Nothing
      BY <1>1, <1>7, HooksAssumption DEF Hooks!LeftFor, Hooks!ClaimedElsewhere, TaskKnows
    <3> QED BY <3>1, <3>2 DEF Spares, OfOwner
  <2> QED BY <1>1, <2>1, <2>2, <2>5, <2>6, <2>7, HookEnds
<1>8. CASE t.at = "report" /\ ~Hooks!LeftFor(o, i, t.found, t.old.ns)
  <2>1. Hooks!Ends(t) /\ Hooks!ReportUnmanaged(o, p, i)
    BY <1>8 DEF Hooks!OnTransferred
  <2> QED BY <1>1, <1>3, <1>8, <2>1 DEF TaskKnows
<1> QED BY <1>4, <1>5, <1>6, <1>7, <1>8 DEF Hooks!OnTransferred

(* What a look makes of a repository: the namespace is not at work, so none *)
(* of its jobs is about to record what the look reports.                    *)
LEMMA HookInspected ==
    ASSUME HookInv, NEW t \in tasks, t.at = "act",
           NEW o, o = t.post.to, NEW p, p = t.found, NEW i, i = t.id,
           Hooks!Inspected(o, p, i, store.record[i])
    PROVE  \E out, reports :
             /\ out \in SUBSET Ids
             /\ Wrote(out, reports) /\ OfOwner(o, out) /\ \A r \in reports : Tellable(r)
<1> PICK rec : rec = store.record[i]
  OBVIOUS
<1>1. /\ o \in Owners /\ i \in Ids /\ p \in Hooks!Places /\ rec \in Entries
      /\ Hooks!Inspected(o, p, i, rec) /\ jobs[o].lock = "look" /\ Nothing # o
      /\ \A q \in Owners : Native(i, q) => Hooks!Inside(p, q)
  BY HooksAssumption
     DEF HookInv, HookTyped, Handlers, Hooks!Deliveries, TaskKnows, Stores, Locked,
        Native, AskedBy
<1>2. CASE Hooks!Nothing2Do
  <2>1. Wrote({}, {})
    BY <1>2, HookKeeps
  <2> QED BY <2>1 DEF OfOwner
<1>3. CASE ~Hooks!Nothing2Do /\ ~Hooks!Inside(p, o)
  <2>1. Hooks!TransferredOut(o, rec.at, p, i) /\ Hooks!Inside(rec.at, o)
    BY <1>1, <1>3 DEF Hooks!Inspected
  <2>2. rec.at \in Hooks!Places
    BY <1>1, <2>1, HooksAssumption DEF Entries, Spots, Hooks!Inside, Hooks!Places
  <2> QED BY <1>1, <2>1, <2>2, HookTransferredOut
<1>4. CASE ~Hooks!Nothing2Do /\ Hooks!Inside(p, o) /\ rec = Hooks!NoRecord
  <2>1. Hooks!ReportUnmanaged(o, p, i)
    BY <1>1, <1>4 DEF Hooks!Inspected
  <2>2. i \in forge.born
    BY <1>1 DEF HookInv, Births, Unborn, NotAsked
  <2>3. Calm => Native(i, o)
    <3> SUFFICES ASSUME Calm PROVE Native(i, o)
      OBVIOUS
    <3>1. PICK q \in Owners : Native(i, q)
      BY <2>2 DEF HookInv, AtHome, EachHome
    <3>2. q = o
      BY <1>1, <1>4, <3>1 DEF Hooks!Inside
    <3> QED BY <3>1, <3>2
  <2>4. Calm => \A q \in Owners : LET j == jobs[q].job IN
                  j.kind = "create" /\ j.at = "manage" /\ ~j.slow => j.id # i
    <3> SUFFICES ASSUME Calm, NEW q \in Owners, jobs[q].job.at = "manage", jobs[q].job.id = i
                 PROVE  FALSE
      OBVIOUS
    <3>1. q = o
      BY <2>3 DEF Native, TakenBy
    <3> QED BY <1>1, <3>1 DEF HookInv, JobKnows
  <2> QED BY <1>1, <1>4, <2>1, <2>2, <2>3, <2>4, HookUnmanaged
<1>5. CASE ~Hooks!Nothing2Do /\ Hooks!Inside(p, o) /\ rec # Hooks!NoRecord
  <2> PICK out : out = Hooks!Stale(o, p, i)
    OBVIOUS
  <2> PICK st : st = [Hooks!Without(store, out) EXCEPT !.record[i].at = p]
    OBVIOUS
  <2> PICK r : r = Hooks!Tell(o, "renamed", i, rec.at, p)
    OBVIOUS
  <2>1. Hooks!Write(out, st, {r}) /\ out \in SUBSET Ids /\ i \notin out /\ OfOwner(o, out)
    BY <1>1, <1>5, HookStale DEF Hooks!Inspected
  <2>2. Relabels(st, out)
    BY <1>1, <1>5, <2>1, HookReplaced DEF HookInv
  <2>3. Wrote(out, {r})
    BY <2>1, <2>2, HookWrite
  <2>4. /\ r \in Hooks!Reports /\ r.what = "renamed" /\ r.at = p /\ r.to = o /\ r.from = rec.at
        /\ r.id = i
    BY <1>1 DEF Hooks!Tell, Hooks!Reports, Entries, Spots
  <2>5. i \in notes'.astray \/ Hooks!Inside(rec.at, o)
    <3>1. st.record[i].at = p /\ st.record[i].ns = rec.ns /\ st.record[i] # Hooks!NoRecord
      <4>1. st.record[i] = [rec EXCEPT !.at = p]
        <5>1. Hooks!Without(store, out).record[i] = rec
          BY <1>1, <2>1 DEF Hooks!Without
        <5>2. i \in DOMAIN Hooks!Without(store, out).record
          BY <1>1 DEF Hooks!Without
        <5>3. "record" \in DOMAIN Hooks!Without(store, out)
          BY DEF Hooks!Without
        <5> QED BY <5>1, <5>2, <5>3
      <4> QED BY <1>1, <4>1, HooksAssumption DEF Entries, Hooks!NoRecord, Hooks!Places
    <3>2. CASE rec.ns = o
      BY <1>1, <1>5, <2>3, <3>2 DEF HookInv, RecordsInside, Wrote
    <3>3. CASE rec.ns # o
      <4>1. ~Hooks!Inside(p, rec.ns)
        BY <1>1, <1>5, <3>3 DEF Hooks!Inside, Hooks!Places
      <4>2. i \in Hooks!Astray(st) /\ store' = st
        BY <1>1, <2>1, <3>1, <4>1 DEF Hooks!Astray, Hooks!Write
      <4> QED BY <2>3, <4>2 DEF Wrote
    <3> QED BY <3>2, <3>3
  <2>6. Tellable(r)
    BY <1>5, <2>4, <2>5, HookTold
  <2> QED BY <2>1, <2>3, <2>6
<1> QED BY <1>2, <1>3, <1>4, <1>5

LEMMA HookLock ==
    ASSUME jobs \in JobsOf, NEW o \in Owners, NEW k \in {"free", "job", "look"},
           jobs' = [jobs EXCEPT ![o].lock = k]
    PROVE  /\ jobs' \in JobsOf /\ jobs'[o].lock = k
           /\ \A q \in Owners : /\ jobs'[q].job = jobs[q].job
                                /\ q # o => jobs'[q] = jobs[q]
<1> PICK e : e = [jobs[o] EXCEPT !.lock = k]
  OBVIOUS
<1>1. e \in [lock : {"free", "job", "look"}, job : Job] /\ e.lock = k /\ e.job = jobs[o].job
  BY DEF JobsOf
<1>2. jobs' = [jobs EXCEPT ![o] = e]
  OBVIOUS
<1> QED BY <1>1, <1>2 DEF JobsOf

LEMMA HookOnEdited ==
    ASSUME HookInv, NEW t \in tasks, Hooks!OnEdited(t),
           UNCHANGED <<plan, count, forge, posts, seen>>
    PROVE  HookInv' /\ Hooks!OnlyItsOwn
<1> PICK o : o = t.post.to
  OBVIOUS
<1>1. /\ o \in Owners /\ t \in Handlers /\ TaskKnows(t) /\ jobs \in JobsOf
      /\ t.post \in Hooks!Deliveries /\ forge \in Forges
      /\ \A u \in tasks : u.at = "act" => jobs[u.post.to].lock = "look"
      /\ \A u, w \in tasks : u.at = "act" /\ w.at = "act" /\ u.post.to = w.post.to => u = w
  BY DEF HookInv, HookTyped, Handlers, Hooks!Deliveries, Locked
<1>2. CASE t.at = "new"
  <2>1. Hooks!Nothing2Do /\ jobs[o].lock = "free" /\ Wrote({}, {}) /\ Spares(t, {})
        /\ OfOwner(t.post.to, {})
    BY <1>2, HookKeeps DEF Hooks!OnEdited, Spares, OfOwner
  <2> PICK i \in {Hooks!Answer(t.post.at), Nothing} :
        IF i = Nothing THEN Hooks!Ends(t) /\ UNCHANGED jobs
        ELSE /\ Hooks!Goes(t, [t EXCEPT !.at = "act", !.id = i, !.found = forge.place[i]])
             /\ jobs' = [jobs EXCEPT ![o].lock = "look"]
    BY <1>2 DEF Hooks!OnEdited
  <2>2. CASE i = Nothing
    BY <2>1, <2>2, HookEnds
  <2>3. CASE i # Nothing
    <3> PICK p : p = forge.place[i]
      OBVIOUS
    <3> PICK u : u = [t EXCEPT !.at = "act", !.id = i, !.found = p]
      OBVIOUS
    <3>1. i \in Ids /\ forge.place[i] # Nothing
      BY <1>1, <2>3 DEF Hooks!Answer, Hooks!Deliveries, Forges
    <3>2. i \in forge.born /\ p \in Hooks!Places
      BY <3>1, HookThere
    <3>3. /\ u \in Handlers /\ u.post = t.post /\ u.at = "act" /\ u.id = i /\ u.found = p
      BY <1>1, <3>1, <3>2 DEF Handlers, Spots
    <3>4. Hooks!Goes(t, u) /\ jobs' = [jobs EXCEPT ![o].lock = "look"]
      BY <2>3
    <3>5. Heir(t, u)
      BY <1>1, <3>1, <3>2, <3>3 DEF Heir, TaskKnows, NotAsked, AskedBy, Native, PlacedWith
    <3>6. /\ jobs' \in JobsOf /\ jobs'[o].lock = "look"
          /\ \A q \in Owners : jobs'[q].job = jobs[q].job /\ (q # o => jobs'[q] = jobs[q])
      BY <1>1, <3>4, HookLock
    <3>7. \A w \in tasks' : (w \in tasks /\ w # t) \/ w = u
      BY <3>4 DEF Hooks!Goes
    <3>8. Locked'
      <4>1. \A w \in tasks : w.post.to \in Owners
        BY DEF HookInv, HookTyped, Handlers, Hooks!Deliveries
      <4>2. \A w \in tasks : w.at = "act" => w.post.to # o
        BY <1>1, <2>1
      <4>3. \A w \in tasks' : w.at = "act" => jobs'[w.post.to].lock = "look"
        <5> SUFFICES ASSUME NEW w \in tasks', w.at = "act" PROVE jobs'[w.post.to].lock = "look"
          OBVIOUS
        <5>1. CASE w = u
          BY <3>3, <3>6, <5>1
        <5>2. CASE w \in tasks
          <6>1. jobs[w.post.to].lock = "look" /\ w.post.to \in Owners /\ w.post.to # o
            BY <1>1, <4>1, <4>2, <5>2
          <6> QED BY <3>6, <6>1
        <5> QED BY <3>7, <5>1, <5>2
      <4>4. \A w, v \in tasks' :
              w.at = "act" /\ v.at = "act" /\ w.post.to = v.post.to => w = v
        <5> SUFFICES ASSUME NEW w \in tasks', NEW v \in tasks', w.at = "act", v.at = "act",
                            w.post.to = v.post.to
                     PROVE  w = v
          OBVIOUS
        <5>1. u.post.to = o
          BY <3>3
        <5>2. CASE w = u
          BY <3>7, <4>2, <5>1, <5>2
        <5>3. CASE w # u
          <6>1. w \in tasks /\ v \in tasks
            BY <3>7, <4>2, <5>1, <5>3
          <6> QED BY <1>1, <6>1
        <5> QED BY <5>2, <5>3
      <4> QED BY <4>3, <4>4 DEF Locked
    <3>9. /\ \A w \in tasks' : w \in tasks \/ Heir(t, w)
          /\ \A q \in Owners : /\ jobs'[q].job = jobs[q].job
                               /\ jobs'[q] = jobs[q] \/ jobs[q].lock # "job"
      BY <2>1, <3>5, <3>6, <3>7
    <3> QED BY <2>1, <3>6, <3>8, <3>9, HookHandled
  <2> QED BY <2>2, <2>3
<1>3. CASE t.at = "act"
  <2>1. /\ Hooks!Ends(t) /\ jobs' = [jobs EXCEPT ![o].lock = "free"]
        /\ Hooks!Inspected(o, t.found, t.id, store.record[t.id])
    BY <1>3 DEF Hooks!OnEdited
  <2>2. PICK out, reports :
          /\ out \in SUBSET Ids
          /\ Wrote(out, reports) /\ OfOwner(o, out) /\ \A r \in reports : Tellable(r)
    BY <1>3, <2>1, HookInspected
  <2>3. /\ jobs' \in JobsOf
        /\ \A q \in Owners : jobs'[q].job = jobs[q].job /\ (q # o => jobs'[q] = jobs[q])
    BY <1>1, <2>1, HookLock
  <2>4. tasks' = tasks \ {t} /\ jobs[o].lock = "look"
    BY <1>1, <1>3, <2>1 DEF Hooks!Ends
  <2>5. Locked'
    <3>1. \A w \in tasks' : w.at = "act" => w.post.to # o /\ w.post.to \in Owners
      BY <1>1, <1>3, <2>4 DEF HookInv, HookTyped, Handlers, Hooks!Deliveries
    <3> QED BY <1>1, <2>3, <2>4, <3>1 DEF Locked
  <2>6. /\ \A w \in tasks' : w \in tasks \/ Heir(t, w)
        /\ \A q \in Owners : /\ jobs'[q].job = jobs[q].job
                             /\ jobs'[q] = jobs[q] \/ jobs[q].lock # "job"
    BY <2>3, <2>4
  <2>7. Spares(t, out) /\ t \notin tasks'
    BY <2>2, <2>4 DEF Spares, OfOwner
  <2> QED BY <2>2, <2>3, <2>5, <2>6, <2>7, HookHandled
<1> QED BY <1>2, <1>3 DEF Hooks!OnEdited

LEMMA HookHandle == HookInv /\ Hooks!Handle => HookInv' /\ Hooks!OnlyItsOwn
<1> SUFFICES ASSUME HookInv, Hooks!Handle PROVE HookInv' /\ Hooks!OnlyItsOwn
  OBVIOUS
<1>1. PICK t \in tasks :
        /\ \/ Hooks!OnCreated(t) \/ Hooks!OnDeleted(t) \/ Hooks!OnRenamed(t)
           \/ Hooks!OnTransferred(t) \/ Hooks!OnEdited(t)
        /\ Hooks!Quiet /\ UNCHANGED <<forge, posts, seen>>
  BY DEF Hooks!Handle
<1>2. UNCHANGED <<plan, count, forge, posts, seen>>
  BY <1>1 DEF Hooks!Quiet
<1> QED BY <1>1, <1>2, HookOnCreated, HookOnDeleted, HookOnRenamed, HookOnTransferred,
           HookOnEdited

(* What a job has in hand is with the owner it works for, and was born.     *)
HasInHand(o, job) ==
  \A i \in Ids : job.id = i =>
    i \in forge.born /\ \A q \in Owners : Native(i, q) => o = q /\ Hooks!Inside(job.place, q)

LEMMA HookHas == HookInv => \A o \in Owners : HasInHand(o, jobs[o].job)
<1> SUFFICES ASSUME HookInv, NEW o \in Owners, NEW i \in Ids, jobs[o].job.id = i
             PROVE  /\ i \in forge.born
                    /\ \A q \in Owners : Native(i, q) => o = q /\ Hooks!Inside(jobs[o].job.place, q)
  BY DEF HasInHand
<1>1. i \in forge.born
  BY DEF HookInv, Births, Unborn, NotTaken
<1>2. \A q \in Owners : Native(i, q) => o = q /\ Hooks!Inside(jobs[o].job.place, q)
  BY DEF Native, TakenBy
<1> QED BY <1>1, <1>2

(* A step of a job: the namespace is its own, the handlers and GitHub are   *)
(* where they were.                                                         *)
LEMMA HookWorks ==
    ASSUME HookInv, NEW o \in Owners, HookTyped', Calm' => Calm,
           UNCHANGED <<forge, posts, seen, tasks, told>>,
           \A q \in Owners \ {o} : jobs'[q] = jobs[q],
           jobs[o].lock # "look", JobKnows(o)', HasInHand(o, jobs'[o].job),
           jobs'[o].job.kind = "create" /\ jobs'[o].job.at = "manage" => jobs'[o].job.slow,
           notes'.handled = notes.handled, notes'.twice = notes.twice,
           notes'.dropped = notes.dropped, notes.astray \subseteq notes'.astray,
           \A t \in tasks : t.at = "report" /\ Hooks!Inside(t.found, t.post.to)
             => t.post.to \in notes'.been[t.post.id],
           \A i \in forge.born, q \in Owners : Hooks!Inside(forge.place[i], q)
             /\ q \notin notes'.been[i] => q \notin notes.been[i],
           \A i \in Ids : \/ store'.record[i] = store.record[i]
                          \/ /\ i \in forge.born
                             /\ \A q \in Owners : Native(i, q) => Fits(store'.record[i], q),
           Kept', RecordsInside', SetsAgree', Hooks!NothingIsCarried', Hooks!OwnNotStrange'
    PROVE  HookInv'
<1>0. /\ notes \in HookNotes /\ tasks \in SUBSET Handlers /\ forge.born \subseteq Ids
      /\ jobs \in JobsOf /\ jobs' \in JobsOf /\ Nothing \notin Ids
  BY HooksAssumption DEF HookInv, HookTyped, Forges
<1>1. \A q \in Owners : JobKnows(q)'
  <2> SUFFICES ASSUME NEW q \in Owners, q # o PROVE JobKnows(q)'
    OBVIOUS
  <2>1. JobKnows(q) /\ jobs'[q] = jobs[q]
    BY DEF HookInv
  <2> QED BY <2>1 DEF JobKnows
<1>2. Locked'
  <2>1. \A t \in tasks : t.at = "act" => t.post.to # o /\ t.post.to \in Owners
    BY <1>0 DEF HookInv, Locked, Handlers, Hooks!Deliveries
  <2> QED BY <2>1 DEF HookInv, Locked
<1>3. \A t \in tasks' : TaskKnows(t)'
  <2> SUFFICES ASSUME NEW t \in tasks PROVE TaskKnows(t)'
    OBVIOUS
  <2>1. TaskKnows(t)
    BY DEF HookInv
  <2> QED BY <2>1 DEF TaskKnows
<1>4. \A i \in forge.born, q \in Owners : Native(i, q) => Native(i, q)'
  <2> SUFFICES ASSUME NEW i \in forge.born, NEW q \in Owners, Native(i, q) PROVE Native(i, q)'
    OBVIOUS
  <2>1. Fits(store'.record[i], q)
    BY <1>0 DEF Native
  <2>2. TakenBy(i, q)'
    <3> SUFFICES ASSUME NEW w \in Owners, jobs'[w].job.id = i
                 PROVE  w = q /\ Hooks!Inside(jobs'[w].job.place, q)
      BY DEF TakenBy
    <3>1. CASE w = o
      BY <1>0, <3>1 DEF HasInHand
    <3>2. CASE w # o
      BY <3>2 DEF Native, TakenBy
    <3> QED BY <3>1, <3>2
  <2> QED BY <2>1, <2>2 DEF Native, PlacedWith, Fits, AskedBy
<1>5. \A i \in Ids \ forge.born : Unborn(i)'
  <2> SUFFICES ASSUME NEW i \in Ids \ forge.born PROVE Unborn(i)'
    OBVIOUS
  <2>1. Unborn(i) /\ store'.record[i] = store.record[i]
    BY DEF HookInv, Births
  <2>2. NotTaken(i)'
    <3> SUFFICES ASSUME NEW w \in Owners PROVE jobs'[w].job.id # i
      BY DEF NotTaken
    <3>1. CASE w = o
      BY <3>1 DEF HasInHand
    <3>2. CASE w # o
      BY <2>1, <3>2 DEF Unborn, NotTaken
    <3> QED BY <3>1, <3>2
  <2> QED BY <2>1, <2>2 DEF Unborn, NoPlace, NotAsked, Hooks!NoRecord
<1>6. Births'
  BY <1>0, <1>4, <1>5 DEF HookInv, Births
<1>7. AtHome'
  <2> SUFFICES ASSUME Calm' PROVE EachHome'
    BY DEF AtHome
  <2>1. EachHome /\ Tells' = Tells
    BY DEF HookInv, AtHome, Tells
  <2>2. \A i \in forge'.born : \E q \in Owners : Native(i, q)' /\ Mail(i, q)'
    BY <1>4, <2>1 DEF EachHome, Mail
  <2>3. ASSUME NEW w \in Owners, jobs'[w].job.kind = "create", jobs'[w].job.at = "manage",
               ~jobs'[w].job.slow, NEW r \in told', r.what = "unmanaged",
               r.id = jobs'[w].job.id
        PROVE  FALSE
    <3>1. CASE w = o
      BY <2>3, <3>1
    <3>2. CASE w # o
      <4>1. jobs'[w] = jobs[w]
        BY <3>2
      <4> QED BY <2>1, <2>3, <4>1 DEF EachHome, Unmanaged
    <3> QED BY <3>1, <3>2
  <2> QED BY <2>1, <2>2, <2>3 DEF EachHome, Unmanaged
<1>8. Hooks!EachOnce' /\ (notes.handled \subseteq seen)' /\ Hooks!EventsStayInside'
  BY DEF HookInv, Hooks!EachOnce, Hooks!EventsStayInside
<1> QED BY <1>1, <1>2, <1>3, <1>6, <1>7, <1>8 DEF HookInv

(* One that changes nothing but its own job.                                *)
LEMMA HookBusy ==
    ASSUME HookInv, NEW o \in Owners, NEW lock \in {"free", "job"}, NEW job \in Job,
           jobs' = [jobs EXCEPT ![o] = [lock |-> lock, job |-> job]],
           plan' \in HookPlanOf, count' \in [Hooks!Moves -> Nat], Calm' => Calm,
           UNCHANGED <<forge, posts, seen, tasks, told, store, notes>>,
           jobs[o].lock # "look", JobKnows(o)', HasInHand(o, job),
           job.kind = "create" /\ job.at = "manage" => job.slow,
           job.at \in {"plan", "persist"} => store.listed[o] = store.managed[o],
           job.at = "persist" => store.managed[o] \subseteq job.view,
           job.view \cap notes.gone[o] \subseteq notes.caught
    PROVE  HookInv'
<1>1. HookTyped /\ jobs \in JobsOf
  BY DEF HookInv, HookTyped
<1>2. jobs' \in JobsOf /\ jobs'[o].job = job /\ \A q \in Owners \ {o} : jobs'[q] = jobs[q]
  BY <1>1 DEF JobsOf
<1>3. HookTyped'
  BY <1>1, <1>2 DEF HookTyped
<1>4. SetsAgree'
  BY <1>2 DEF HookInv, SetsAgree
<1>5. Kept' /\ RecordsInside' /\ Hooks!NothingIsCarried'
  BY DEF HookInv, Kept, RecordsInside, Hooks!NothingIsCarried
<1>6. Hooks!OwnNotStrange'
  BY DEF HookInv, Hooks!OwnNotStrange, Calm
<1>7. \A t \in tasks : t.at = "report" /\ Hooks!Inside(t.found, t.post.to)
             => t.post.to \in notes'.been[t.post.id]
  BY DEF HookInv, TaskKnows
<1> QED BY <1>2, <1>3, <1>4, <1>5, <1>6, <1>7, HookWorks

(* An idle namespace's lock is no job's; a job at work has its own.         *)
LEMMA HookOwns ==
    ASSUME HookInv, NEW o \in Owners
    PROVE  /\ jobs[o].job \in Job /\ jobs \in JobsOf /\ JobKnows(o)
           /\ jobs[o].job.at # "idle" => jobs[o].lock = "job"
           /\ jobs[o].job.view \cap notes.gone[o] \subseteq notes.caught
           /\ Hooks!Resting \in Job /\ Hooks!Resting.at = "idle" /\ Hooks!Resting.id = Nothing
           /\ Hooks!Resting.view = {} /\ Hooks!Resting.kind = "none" /\ Nothing \notin Ids
  BY HooksAssumption
     DEF HookInv, HookTyped, JobsOf, Job, JobKnows, SetsAgree, Hooks!Resting, Spots

LEMMA HookQuiet ==
    ASSUME HookInv, Hooks!Quiet
    PROVE  plan' \in HookPlanOf /\ count' \in [Hooks!Moves -> Nat] /\ (Calm' => Calm)
  BY DEF HookInv, HookTyped, Hooks!Quiet, Calm

(* A job ends: nothing is in hand.                                          *)
LEMMA HookEnded ==
    ASSUME HookInv, NEW o \in Owners, jobs \in JobsOf,
           jobs' = [jobs EXCEPT ![o] = [lock |-> "free", job |-> Hooks!Resting]]
    PROVE  JobKnows(o)' /\ HasInHand(o, Hooks!Resting)
<1>1. jobs'[o].job = Hooks!Resting /\ jobs'[o].job.at = "idle" /\ jobs'[o].job.kind = "none"
  BY DEF JobsOf, Hooks!Resting
<1>2. HasInHand(o, Hooks!Resting)
  BY HookOwns DEF HasInHand
<1> QED BY <1>1, <1>2 DEF JobKnows

LEMMA HookTake ==
    ASSUME HookInv, NEW o \in Owners, NEW k \in {"create", "adopt", "roles"},
           NEW p \in Hooks!Places, Hooks!Take(o, k, p)
    PROVE  HookInv'
<1> PICK j : j = [Hooks!Resting EXCEPT !.at = "forge", !.kind = k, !.place = p]
  OBVIOUS
<1>0. k \in Hooks!Moves /\ HookTyped
  BY DEF Hooks!Moves, HookInv
<1>1. /\ jobs' = [jobs EXCEPT ![o] = [lock |-> "job", job |-> j]] /\ jobs[o].lock = "free"
      /\ Hooks!Inside(p, o) /\ Hooks!Happens(k)
      /\ UNCHANGED <<forge, posts, seen, tasks, told, store, notes>>
  BY DEF Hooks!Take, Hooks!Beside
<1>2. plan' \in HookPlanOf /\ count' \in [Hooks!Moves -> Nat] /\ (Calm' => Calm)
  BY <1>0, <1>1, HookHappens
<1>3. j \in Job /\ j.at = "forge" /\ j.kind = k /\ j.place = p /\ j.id = Nothing /\ j.view = {}
  BY DEF Hooks!Resting, Job, Spots
<1>4. HasInHand(o, j)
  BY <1>3, HookOwns DEF HasInHand
<1>5. JobKnows(o)'
  <2>1. jobs'[o].job = j /\ jobs'[o].lock = "job"
    BY <1>1, HookOwns DEF JobsOf
  <2> QED BY <1>1, <1>3, <2>1 DEF JobKnows
<1> QED BY <1>1, <1>2, <1>3, <1>4, <1>5, HookBusy

(* What a name leads to, or is recorded at, is the namespace's if it is     *)
(* anyone's alone.                                                          *)
LEMMA HookFinds ==
    ASSUME HookInv, NEW o \in Owners, NEW p \in Hooks!Places, Hooks!Inside(p, o),
           NEW i \in Ids, store.record[i].at = p \/ Hooks!Answer(p) = i
    PROVE  i \in forge.born /\ \A q \in Owners : Native(i, q) => q = o
<1>1. i \in forge.born
  <2>1. Nothing # p
    BY HooksAssumption DEF Hooks!Places
  <2>2. store.record[i].at = p => store.record[i] # Hooks!NoRecord
    BY <2>1 DEF Hooks!NoRecord
  <2>3. Hooks!Answer(p) = i => forge.way[p] = i
    BY HooksAssumption DEF Hooks!Answer
  <2> QED BY <2>2, <2>3 DEF HookInv, Births, Unborn, NoPlace
<1>2. ASSUME NEW q \in Owners, Native(i, q) PROVE q = o
  <2>1. Hooks!Inside(p, q)
    <3>1. CASE store.record[i].at = p
      <4>1. store.record[i] # Hooks!NoRecord
        BY <3>1, HooksAssumption DEF Hooks!NoRecord, Hooks!Places
      <4> QED BY <1>2, <3>1, <4>1 DEF Native, Fits
    <3>2. CASE Hooks!Answer(p) = i
      <4>1. forge.way[p] = i
        BY <3>2, HooksAssumption DEF Hooks!Answer
      <4> QED BY <1>2, <4>1 DEF Native, PlacedWith
    <3> QED BY <3>1, <3>2
  <2> QED BY <2>1 DEF Hooks!Inside
<1> QED BY <1>1, <1>2

LEMMA HookSet ==
    ASSUME jobs \in JobsOf, NEW o \in Owners, jobs[o].lock = "job", NEW n \in Job,
           jobs' = [jobs EXCEPT ![o].job = n]
    PROVE  /\ jobs' = [jobs EXCEPT ![o] = [lock |-> "job", job |-> n]]
           /\ jobs'[o].job = n /\ jobs'[o].lock = "job"
           /\ jobs' \in JobsOf /\ \A q \in Owners \ {o} : jobs'[q] = jobs[q]
<1>1. [jobs[o] EXCEPT !.job = n] = [lock |-> "job", job |-> n]
  BY DEF JobsOf
<1> QED BY <1>1 DEF JobsOf

LEMMA HookRead == ASSUME HookInv, NEW o \in Owners, Hooks!Read(o) PROVE HookInv'
<1> PICK j : j = jobs[o].job
  OBVIOUS
<1>1. /\ j \in Job /\ jobs \in JobsOf /\ j.at = "forge" /\ jobs[o].lock = "job"
      /\ Hooks!Inside(j.place, o) /\ j.place \in Hooks!Places
      /\ j.view \cap notes.gone[o] \subseteq notes.caught
      /\ Hooks!Quiet /\ UNCHANGED <<forge, posts, seen, tasks, told, store, notes>>
  <2>1. j.at = "forge" /\ j \in Job /\ JobKnows(o)
    BY HookOwns DEF Hooks!Read
  <2>2. Hooks!Inside(j.place, o)
    BY <2>1 DEF JobKnows
  <2>3. j.place \in Hooks!Places
    BY <2>1, <2>2, HooksAssumption DEF Job, Spots, Hooks!Inside, Hooks!Places
  <2> QED BY <2>1, <2>2, <2>3, HookOwns DEF Hooks!Read, Hooks!Beside
<1>2. plan' \in HookPlanOf /\ count' \in [Hooks!Moves -> Nat] /\ (Calm' => Calm)
  BY <1>1, HookQuiet
<1>3. ASSUME NEW n \in Job, jobs' = [jobs EXCEPT ![o].job = n]
      PROVE  /\ jobs' = [jobs EXCEPT ![o] = [lock |-> "job", job |-> n]]
             /\ jobs'[o].job = n /\ jobs'[o].lock = "job"
  BY <1>1, <1>3, HookSet
<1>4. CASE j.kind = "adopt" /\ Hooks!Answer(j.place) # Nothing
           /\ Hooks!SetJob(o, [j EXCEPT !.at = "manage", !.id = Hooks!Answer(j.place),
                                        !.place = forge.place[Hooks!Answer(j.place)]])
  <2> PICK i, p : i = Hooks!Answer(j.place) /\ p = forge.place[i]
    OBVIOUS
  <2> PICK n : n = [j EXCEPT !.at = "manage", !.id = i, !.place = p]
    OBVIOUS
  <2>1. i \in Ids /\ forge.place[i] # Nothing
    BY <1>1, <1>4 DEF Hooks!Answer, HookInv, HookTyped, Forges
  <2>2. p \in Hooks!Places
    BY <2>1, HookThere
  <2>3. /\ n \in Job /\ n.at = "manage" /\ n.id = i /\ n.place = p /\ n.view = j.view
        /\ n.kind = "adopt"
    BY <1>1, <1>4, <2>1, <2>2 DEF Job, Spots
  <2>4. jobs' = [jobs EXCEPT ![o] = [lock |-> "job", job |-> n]]
        /\ jobs'[o].job = n /\ jobs'[o].lock = "job"
    BY <1>3, <1>4, <2>3 DEF Hooks!SetJob
  <2>5. HasInHand(o, n)
    <3>1. i \in forge.born /\ \A q \in Owners : Native(i, q) => q = o
      BY <1>1, <2>1, HookFinds
    <3>2. \A q \in Owners : Native(i, q) => Hooks!Inside(p, q)
      BY <2>1 DEF Native, PlacedWith
    <3> QED BY <2>3, <3>1, <3>2 DEF HasInHand
  <2>6. JobKnows(o)'
    BY <2>1, <2>2, <2>3, <2>4 DEF JobKnows
  <2> QED BY <1>1, <1>2, <2>3, <2>4, <2>5, <2>6, HookBusy
<1>5. CASE /\ j.kind = "roles"
           /\ \E i \in Ids : /\ store.record[i].at = j.place \/ Hooks!Answer(j.place) = i
                             /\ Hooks!SetJob(o, [j EXCEPT !.at = "roles", !.id = i])
  <2> PICK i \in Ids : /\ store.record[i].at = j.place \/ Hooks!Answer(j.place) = i
                       /\ Hooks!SetJob(o, [j EXCEPT !.at = "roles", !.id = i])
    BY <1>5
  <2> PICK n : n = [j EXCEPT !.at = "roles", !.id = i]
    OBVIOUS
  <2>1. /\ n \in Job /\ n.at = "roles" /\ n.id = i /\ n.place = j.place /\ n.view = j.view
        /\ n.kind = "roles"
    BY <1>1, <1>5 DEF Job
  <2>2. jobs' = [jobs EXCEPT ![o] = [lock |-> "job", job |-> n]]
        /\ jobs'[o].job = n /\ jobs'[o].lock = "job"
    BY <1>3, <2>1 DEF Hooks!SetJob
  <2>3. HasInHand(o, n)
    BY <1>1, <2>1, HookFinds DEF HasInHand
  <2>4. JobKnows(o)'
    BY <1>1, <2>1, <2>2 DEF JobKnows
  <2> QED BY <1>1, <1>2, <2>1, <2>2, <2>3, <2>4, HookBusy
<1>6. \A i : i \in (IF {k \in Ids : store.record[k].at = j.place} # {}
                    THEN {k \in Ids : store.record[k].at = j.place}
                    ELSE {Hooks!Answer(j.place)} \ {Nothing})
        => i \in Ids /\ (store.record[i].at = j.place \/ Hooks!Answer(j.place) = i)
  <2>1. Hooks!Answer(j.place) \in Ids \cup {Nothing}
    BY <1>1 DEF Hooks!Answer, HookInv, HookTyped, Forges
  <2> QED BY <2>1
<1> QED BY <1>4, <1>5, <1>6 DEF Hooks!Read

LEMMA HookStall == ASSUME HookInv, NEW o \in Owners, Hooks!Stall(o) PROVE HookInv'
<1> PICK j : j = jobs[o].job
  OBVIOUS
<1> PICK n : n = [j EXCEPT !.slow = TRUE]
  OBVIOUS
<1>0. "stall" \in Hooks!Moves /\ HookTyped
  BY DEF Hooks!Moves, HookInv
<1>1. /\ j \in Job /\ jobs \in JobsOf /\ j.at = "manage" /\ jobs[o].lock = "job" /\ JobKnows(o)
      /\ j.view \cap notes.gone[o] \subseteq notes.caught
      /\ Hooks!Happens("stall") /\ UNCHANGED <<forge, posts, seen, tasks, told, store, notes>>
      /\ jobs' = [jobs EXCEPT ![o].job.slow = TRUE]
  BY HookOwns DEF Hooks!Stall, Hooks!Beside
<1>2. plan' \in HookPlanOf /\ count' \in [Hooks!Moves -> Nat] /\ (Calm' => Calm)
  BY <1>0, <1>1, HookHappens
<1>3. /\ n \in Job /\ n.at = "manage" /\ n.id = j.id /\ n.place = j.place /\ n.view = j.view
      /\ n.kind = j.kind /\ n.slow
  BY <1>1 DEF Job
<1>4. /\ jobs' = [jobs EXCEPT ![o] = [lock |-> "job", job |-> n]]
      /\ jobs'[o].job = n /\ jobs'[o].lock = "job"
  <2>1. jobs' = [jobs EXCEPT ![o].job = n]
    BY <1>1
  <2> QED BY <1>1, <1>3, <2>1, HookSet
<1>5. HasInHand(o, n)
  BY <1>3, HookHas DEF HasInHand
<1>6. JobKnows(o)'
  BY <1>1, <1>3, <1>4 DEF JobKnows
<1> QED BY <1>1, <1>2, <1>3, <1>4, <1>5, <1>6, HookBusy

LEMMA HookFail == ASSUME HookInv, NEW o \in Owners, Hooks!Fail(o) PROVE HookInv'
<1>1. /\ jobs[o].lock = "job" /\ jobs \in JobsOf
      /\ jobs' = [jobs EXCEPT ![o] = [lock |-> "free", job |-> Hooks!Resting]]
      /\ UNCHANGED <<forge, posts, seen, tasks, told, store, notes>>
  BY HookOwns DEF Hooks!Fail, Hooks!EndJob, Hooks!Beside
<1>2. plan' \in HookPlanOf /\ count' \in [Hooks!Moves -> Nat] /\ (Calm' => Calm)
  BY HookQuiet DEF Hooks!Fail
<1>3. JobKnows(o)' /\ HasInHand(o, Hooks!Resting)
  BY <1>1, HookEnded
<1> QED BY <1>1, <1>2, <1>3, HookOwns, HookBusy

LEMMA HookCreate ==
    ASSUME HookInv, NEW o \in Owners, NEW i \in Ids, Hooks!Create(o, i) PROVE HookInv'
<1> PICK j : j = jobs[o].job
  OBVIOUS
<1> PICK p : p = j.place
  OBVIOUS
<1> PICK n : n = [j EXCEPT !.at = "manage", !.id = i]
  OBVIOUS
<1> PICK d : d = Hooks!Post(o, "created", i, Nothing, p)
  OBVIOUS
<1>1. /\ j \in Job /\ jobs \in JobsOf /\ j.at = "forge" /\ j.kind = "create" /\ JobKnows(o)
      /\ jobs[o].lock = "job" /\ Hooks!Quiet /\ i \notin forge.born
      /\ forge' = Hooks!Moved(i, p) /\ posts' = posts \cup {d}
      /\ jobs' = [jobs EXCEPT ![o].job = n] /\ UNCHANGED <<seen, tasks, store, told, notes>>
  BY HookOwns DEF Hooks!Create, Hooks!SetJob
<1>2. /\ HookTyped /\ forge \in Forges /\ forge.born \subseteq Ids /\ Nothing \notin Ids
      /\ Hooks!Inside(p, o) /\ p \in Hooks!Places /\ p \in Spots /\ Nothing \in Spots
  <2>1. Hooks!Inside(p, o)
    BY <1>1 DEF JobKnows
  <2>2. p \in Hooks!Places
    BY <1>1, <2>1, HooksAssumption DEF Job, Spots, Hooks!Inside, Hooks!Places
  <2> QED BY <2>1, <2>2, HooksAssumption DEF HookInv, HookTyped, Forges, Spots
<1>3. plan' \in HookPlanOf /\ count' \in [Hooks!Moves -> Nat] /\ (Calm' => Calm)
  BY <1>1, HookQuiet
<1>4. /\ n \in Job /\ n.at = "manage" /\ n.id = i /\ n.place = p /\ n.view = j.view
      /\ n.kind = "create"
  BY <1>1 DEF Job
<1>5. /\ jobs' \in JobsOf /\ jobs'[o].job = n /\ jobs'[o].lock = "job"
      /\ \A q \in Owners \ {o} : jobs'[q] = jobs[q]
  BY <1>1, <1>4, HookSet
<1>6. d \in Hooks!Deliveries /\ d.id = i /\ d.to = o /\ d.kind = "created"
  BY <1>2, HookPost
<1>7. /\ forge' \in Forges /\ forge'.born = forge.born \cup {i}
      /\ \A k \in Ids : forge'.place[k] = IF k = i THEN p ELSE forge.place[k]
  BY <1>1, <1>2, HookMoved
<1>8. HookTyped'
  BY <1>1, <1>2, <1>3, <1>5, <1>6, <1>7 DEF HookTyped
<1>9. \A k \in forge.born, q \in Owners : Native(k, q) => Native(k, q)'
  <2> SUFFICES ASSUME NEW k \in forge.born, NEW q \in Owners, Native(k, q) PROVE Native(k, q)'
    OBVIOUS
  <2>1. k \in Ids /\ k # i
    BY <1>1, <1>2
  <2>2. PlacedWith(k, q)'
    BY <1>1, <1>2, <2>1, HookPlaced DEF Native
  <2>3. TakenBy(k, q)'
    <3> SUFFICES ASSUME NEW w \in Owners, jobs'[w].job.id = k
                 PROVE  w = q /\ Hooks!Inside(jobs'[w].job.place, q)
      BY DEF TakenBy
    <3>1. jobs'[w] = jobs[w]
      BY <1>4, <1>5, <2>1
    <3> QED BY <3>1 DEF Native, TakenBy
  <2> QED BY <1>1, <2>2, <2>3 DEF Native, Fits, AskedBy
<1>10. Unborn(i) /\ \A k \in Ids \ (forge.born \cup {i}) : Unborn(k)'
  <2>1. Unborn(i)
    BY <1>1 DEF HookInv, Births
  <2> SUFFICES ASSUME NEW k \in Ids \ (forge.born \cup {i}) PROVE Unborn(k)'
    BY <2>1
  <2>2. Unborn(k)
    BY DEF HookInv, Births
  <2>3. NoPlace(k)'
    BY <1>1, <1>2, <2>2, HookPlaced DEF Unborn
  <2>4. NotTaken(k)'
    BY <1>4, <1>5, <2>2 DEF Unborn, NotTaken
  <2> QED BY <1>1, <2>2, <2>3, <2>4 DEF Unborn, NotAsked
<1>11. Native(i, o)'
  <2>1. PlacedWith(i, o)'
    BY <1>1, <1>2, <1>10, HookPlaced DEF Unborn
  <2>2. TakenBy(i, o)'
    <3> SUFFICES ASSUME NEW w \in Owners, jobs'[w].job.id = i
                 PROVE  w = o /\ Hooks!Inside(jobs'[w].job.place, o)
      BY DEF TakenBy
    <3>1. w = o
      BY <1>5, <1>10 DEF Unborn, NotTaken
    <3> QED BY <1>2, <1>4, <1>5, <3>1
  <2> QED BY <1>1, <1>10, <2>1, <2>2 DEF Native, Unborn, Fits, NotAsked, AskedBy
<1>12. Births'
  <2>1. \A q \in Owners : Hooks!Inside(p, q) => q = o
    BY <1>2 DEF Hooks!Inside
  <2> QED BY <1>1, <1>2, <1>7, <1>9, <1>10, <1>11, <2>1 DEF HookInv, Births
<1>13. AtHome'
  BY <1>1, <1>3, <1>4, <1>5, <1>6, <1>7, <1>9, <1>11, HookHome
<1>14. (\A q \in Owners : JobKnows(q)') /\ Locked'
  <2>1. JobKnows(o)'
    BY <1>2, <1>4, <1>5 DEF JobKnows
  <2>2. \A q \in Owners \ {o} : JobKnows(q)'
    BY <1>5 DEF HookInv, JobKnows
  <2>3. \A q \in Owners : jobs'[q].lock = jobs[q].lock
    BY <1>1, <1>5
  <2>4. \A t \in tasks : t.post.to \in Owners
    BY DEF HookInv, HookTyped, Handlers, Hooks!Deliveries
  <2> QED BY <1>1, <2>1, <2>2, <2>3, <2>4 DEF HookInv, Locked
<1>15. (\A t \in tasks' : TaskKnows(t)') /\ RecordsInside' /\ Kept'
  BY <1>1 DEF HookInv, TaskKnows, RecordsInside, Kept
<1>16. SetsAgree'
  BY <1>1, <1>4, <1>5 DEF HookInv, SetsAgree
<1>17. /\ (notes.handled \subseteq seen)' /\ Hooks!EachOnce' /\ Hooks!EventsStayInside'
       /\ Hooks!NothingIsCarried'
  BY <1>1 DEF HookInv, Hooks!EachOnce, Hooks!EventsStayInside, Hooks!NothingIsCarried
<1>18. Hooks!OwnNotStrange'
  BY <1>1, <1>3 DEF HookInv, Hooks!OwnNotStrange, Calm
<1> QED BY <1>8, <1>12, <1>13, <1>14, <1>15, <1>16, <1>17, <1>18 DEF HookInv

LEMMA HookManaged ==
    ASSUME store \in Stores, NEW o \in Owners, NEW i \in Ids, NEW p \in Hooks!Places,
           NEW st, st = Hooks!Managed(o, i, p)
    PROVE  /\ st \in Stores
           /\ \A k \in Ids \ {i} : st.record[k] = store.record[k]
           /\ st.record[i].at = p
           /\ st.record[i].ns = IF store.record[i] = Hooks!NoRecord THEN o
                                ELSE store.record[i].ns
           /\ \A q \in Owners : /\ q # o => st.managed[q] = store.managed[q]
                                /\ q # o => st.listed[q] = store.listed[q]
           /\ st.managed[o] = store.managed[o] \cup {i} /\ st.listed[o] = st.managed[o]
<1>0. PICK e : e = IF store.record[i] = Hooks!NoRecord THEN Hooks!FirstRecord(o, p)
                   ELSE [store.record[i] EXCEPT !.at = p]
  OBVIOUS
<1>1. /\ e \in Entries /\ e.at = p
      /\ e.ns = IF store.record[i] = Hooks!NoRecord THEN o ELSE store.record[i].ns
  BY <1>0 DEF Stores, Entries, Spots, Hooks!FirstRecord
<1>2. PICK r, m, l : /\ r = [store.record EXCEPT ![i] = e]
                     /\ m = [store.managed EXCEPT ![o] = store.managed[o] \cup {i}]
                     /\ l = [store.listed EXCEPT ![o] = store.managed[o] \cup {i}]
  OBVIOUS
<1>3. /\ m \in [Owners -> SUBSET Ids] /\ l \in [Owners -> SUBSET Ids]
      /\ m[o] = store.managed[o] \cup {i} /\ l[o] = store.managed[o] \cup {i}
      /\ \A q \in Owners \ {o} : m[q] = store.managed[q] /\ l[q] = store.listed[q]
  BY <1>2 DEF Stores
<1>4. r \in [Ids -> Entries] /\ \A k \in Ids : r[k] = IF k = i THEN e ELSE store.record[k]
  BY <1>1, <1>2 DEF Stores
<1>5. Hooks!Managed(o, i, p) = [store EXCEPT !.record = r, !.managed = m, !.listed = l]
  BY <1>0, <1>2 DEF Hooks!Managed
<1>6. st \in Stores /\ st.record = r /\ st.managed = m /\ st.listed = l
  BY <1>3, <1>4, <1>5 DEF Stores
<1> QED BY <1>1, <1>3, <1>4, <1>6

LEMMA HookManage == ASSUME HookInv, NEW o \in Owners, Hooks!Manage(o) PROVE HookInv'
<1>0. PICK j : j = jobs[o].job
  OBVIOUS
<1>1. PICK i, p : i = j.id /\ p = j.place
  OBVIOUS
<1>2. PICK n : n = [j EXCEPT !.at = "plan"]
  OBVIOUS
<1>3. /\ j \in Job /\ jobs \in JobsOf /\ j.at = "manage" /\ JobKnows(o)
      /\ jobs[o].lock = "job" /\ Hooks!Quiet /\ jobs' = [jobs EXCEPT ![o].job = n]
      /\ store' = Hooks!Managed(o, i, p)
      /\ UNCHANGED <<forge, posts, seen, tasks, told>>
  BY <1>0, <1>1, <1>2, HookOwns DEF Hooks!Manage, Hooks!SetJob, Hooks!Beside
<1>4. /\ i \in Ids /\ p \in Hooks!Places /\ store \in Stores /\ notes \in HookNotes
      /\ Nothing \notin Owners \cup Hooks!Places /\ tasks \in SUBSET Handlers
      /\ HookTyped /\ forge \in Forges /\ forge.born \subseteq Ids
  BY <1>0, <1>1, <1>3, HooksAssumption DEF JobKnows, HookInv, HookTyped, Hooks!Places,
     Forges
<1>5. plan' \in HookPlanOf /\ count' \in [Hooks!Moves -> Nat] /\ (Calm' => Calm)
  BY <1>3, HookQuiet
<1>6. /\ n \in Job /\ n.at = "plan" /\ n.id = i /\ n.place = p /\ n.view = j.view
      /\ n.kind = j.kind
  BY <1>1, <1>2, <1>3 DEF Job
<1>7. /\ jobs' \in JobsOf /\ jobs'[o].job = n /\ jobs'[o].lock = "job"
      /\ \A q \in Owners \ {o} : jobs'[q] = jobs[q]
  BY <1>3, <1>6, HookSet
<1>8. /\ store' \in Stores
      /\ \A k \in Ids \ {i} : store'.record[k] = store.record[k]
      /\ store'.record[i].at = p
      /\ store'.record[i].ns = IF store.record[i] = Hooks!NoRecord THEN o
                               ELSE store.record[i].ns
      /\ \A q \in Owners : /\ q # o => store'.managed[q] = store.managed[q]
                           /\ q # o => store'.listed[q] = store.listed[q]
      /\ store'.managed[o] = store.managed[o] \cup {i} /\ store'.listed[o] = store'.managed[o]
  BY <1>3, <1>4, HookManaged
<1>9. PICK mine, out, a, been :
        /\ mine = IF j.kind = "create" /\ ~j.slow THEN notes.made \cup {i} ELSE notes.made
        /\ out = [notes.gone EXCEPT ![o] = notes.gone[o] \ {i}]
        /\ a = notes.astray \cup Hooks!Astray(store')
        /\ been = [notes.been EXCEPT ![i] =
                     {q \in Owners :
                        \/ Hooks!Inside(forge.place[i], q)
                        \/ \E t \in tasks : t.post.id = i /\ Hooks!Inside(t.found, q)}]
  OBVIOUS
<1>10. /\ mine \in SUBSET Ids /\ out \in [Owners -> SUBSET Ids] /\ a \in SUBSET Ids
       /\ been \in [Ids -> SUBSET Owners]
  BY <1>4, <1>9 DEF HookNotes, Hooks!Astray
<1>11. notes' = [notes EXCEPT !.made = mine, !.gone = out, !.astray = a, !.been = been]
  BY <1>0, <1>1, <1>9 DEF Hooks!Manage
<1>12. /\ notes' \in HookNotes /\ notes'.handled = notes.handled /\ notes'.twice = notes.twice
       /\ notes'.dropped = notes.dropped /\ notes'.caught = notes.caught
       /\ notes'.made = mine /\ notes'.gone = out /\ notes'.astray = a /\ notes'.been = been
  BY <1>4, <1>10, <1>11 DEF HookNotes
<1>13. HookTyped'
  BY <1>3, <1>4, <1>5, <1>7, <1>8, <1>12 DEF HookTyped
<1>14. /\ \A q \in Owners \ {o} : out[q] = notes.gone[q]
       /\ out[o] = notes.gone[o] \ {i}
       /\ \A k \in Ids \ {i} : been[k] = notes.been[k]
       /\ \A q \in Owners : Hooks!Inside(forge.place[i], q) => q \in been[i]
       /\ \A t \in tasks : t.post.id = i /\ Hooks!Inside(t.found, t.post.to)
            => t.post.to \in been[i]
  <2>1. \A t \in tasks : t.post.to \in Owners
    BY <1>4 DEF Handlers, Hooks!Deliveries
  <2> QED BY <1>4, <1>9, <2>1 DEF HookNotes
<1>15. JobKnows(o)'
  BY <1>0, <1>1, <1>3, <1>4, <1>6, <1>7 DEF JobKnows
<1>16. HasInHand(o, jobs'[o].job)
  BY <1>0, <1>1, <1>6, <1>7, HookHas DEF HasInHand
<1>17. \A t \in tasks : t.at = "report" /\ Hooks!Inside(t.found, t.post.to)
             => t.post.to \in notes'.been[t.post.id]
  <2> SUFFICES ASSUME NEW t \in tasks, t.at = "report", Hooks!Inside(t.found, t.post.to)
               PROVE  t.post.to \in notes'.been[t.post.id]
    OBVIOUS
  <2>1. t.post.to \in notes.been[t.post.id] /\ t.post.id \in Ids
    BY <1>4 DEF HookInv, TaskKnows, Handlers, Hooks!Deliveries
  <2> QED BY <1>12, <1>14, <2>1
<1>18. \A k \in forge.born, q \in Owners : Hooks!Inside(forge.place[k], q)
             /\ q \notin notes'.been[k] => q \notin notes.been[k]
  BY <1>4, <1>12, <1>14
<1>19. \A q \in Owners : Native(i, q) => q = o /\ Hooks!Inside(p, q)
  BY <1>0, <1>1, HookHas, <1>4 DEF HasInHand
<1>20. store'.record[i] # Hooks!NoRecord
  BY <1>4, <1>8 DEF Hooks!NoRecord
<1>21. \A k \in Ids : \/ store'.record[k] = store.record[k]
                      \/ /\ k \in forge.born
                         /\ \A q \in Owners : Native(k, q) => Fits(store'.record[k], q)
  <2>1. i \in forge.born
    BY <1>0, <1>1, <1>4, HookHas DEF HasInHand
  <2>2. ASSUME NEW q \in Owners, Native(i, q) PROVE Fits(store'.record[i], q)
    <3>1. q = o /\ Hooks!Inside(p, q) /\ Fits(store.record[i], q)
      BY <1>19, <2>2 DEF Native
    <3> QED BY <1>8, <3>1 DEF Fits
  <2> QED BY <1>8, <2>1, <2>2
<1>22. Kept'
  <2> SUFFICES ASSUME NEW k \in notes'.made, k \notin notes'.dropped
               PROVE  store'.record[k] # Hooks!NoRecord
    BY DEF Kept
  <2>1. k \in Ids
    BY <1>10, <1>12
  <2>2. k # i => k \in notes.made
    BY <1>9, <1>12
  <2> QED BY <1>8, <1>12, <1>20, <2>1, <2>2 DEF HookInv, Kept
<1>23. RecordsInside'
  BY <1>9, <1>12 DEF RecordsInside, Hooks!Astray
<1>24. SetsAgree'
  <2> SUFFICES ASSUME NEW q \in Owners
               PROVE  /\ store'.listed[q] \subseteq store'.managed[q]
                      /\ jobs'[q].job.at \in {"plan", "persist"} => store'.listed[q] = store'.managed[q]
                      /\ jobs'[q].job.at = "persist" => store'.managed[q] \subseteq jobs'[q].job.view
                      /\ jobs'[q].job.view \cap notes'.gone[q] \subseteq notes'.caught
    BY DEF SetsAgree
  <2>1. CASE q = o
    <3>1. jobs'[q].job.view \cap notes'.gone[q] \subseteq notes'.caught
      BY <1>0, <1>6, <1>7, <1>12, <1>14, <2>1, HookOwns
    <3> QED BY <1>6, <1>7, <1>8, <2>1, <3>1
  <2>2. CASE q # o
    <3>1. /\ jobs'[q] = jobs[q] /\ store'.managed[q] = store.managed[q]
          /\ store'.listed[q] = store.listed[q] /\ notes'.gone[q] = notes.gone[q]
          /\ notes'.caught = notes.caught
      BY <1>7, <1>8, <1>12, <1>14, <2>2
    <3> QED BY <3>1 DEF HookInv, SetsAgree
  <2> QED BY <2>1, <2>2
<1>25. Hooks!NothingIsCarried'
  <2> SUFFICES ASSUME NEW q \in Owners, NEW k \in notes'.gone[q], k \notin notes'.caught
               PROVE  /\ store'.record[k].ns # q /\ k \notin store'.managed[q]
                      /\ k \notin store'.listed[q]
    BY DEF Hooks!NothingIsCarried
  <2>1. k \in Ids /\ k \in notes.gone[q] /\ k \notin notes.caught /\ (q = o => k # i)
    BY <1>4, <1>10, <1>12, <1>14 DEF HookNotes
  <2>2. store.record[k].ns # q /\ k \notin store.managed[q] /\ k \notin store.listed[q]
    BY <2>1 DEF HookInv, Hooks!NothingIsCarried
  <2>3. store'.record[k].ns # q
    BY <1>8, <2>1, <2>2
  <2>4. k \notin store'.managed[q] /\ k \notin store'.listed[q]
    BY <1>8, <2>1, <2>2
  <2> QED BY <2>3, <2>4
<1>26. Hooks!OwnNotStrange'
  <2> SUFFICES ASSUME Calm, NEW r \in told, r.what = "unmanaged", r.id \in notes'.made
               PROVE  r.id \in notes'.dropped
    BY <1>3, <1>5 DEF Hooks!OwnNotStrange, Calm
  <2>1. CASE r.id \in notes.made
    BY <1>12, <2>1 DEF HookInv, Hooks!OwnNotStrange, Calm
  <2>2. CASE r.id \notin notes.made
    <3>1. j.kind = "create" /\ ~j.slow /\ r.id = i
      BY <1>9, <1>12, <2>2
    <3> QED BY <1>0, <1>1, <1>3, <3>1 DEF HookInv, AtHome, EachHome, Unmanaged
  <2> QED BY <2>1, <2>2
<1>27. /\ jobs[o].lock # "look" /\ notes.astray \subseteq notes'.astray
       /\ jobs'[o].job.kind = "create" /\ jobs'[o].job.at = "manage" => jobs'[o].job.slow
  BY <1>3, <1>6, <1>7, <1>9, <1>12
<1> QED BY <1>3, <1>5, <1>7, <1>12, <1>13, <1>15, <1>16, <1>17, <1>18, <1>21, <1>22, <1>23,
           <1>24, <1>25, <1>26, <1>27, HookWorks

LEMMA HookPersist == ASSUME HookInv, NEW o \in Owners, Hooks!Persist(o) PROVE HookInv'
<1>0. PICK j : j = jobs[o].job
  OBVIOUS
<1>1. /\ j \in Job /\ jobs \in JobsOf /\ JobKnows(o) /\ Hooks!Quiet /\ store \in Stores
      /\ notes \in HookNotes /\ HookTyped
      /\ j.at \in {"plan", "persist"} /\ jobs[o].lock = "job"
      /\ UNCHANGED <<forge, posts, seen, tasks, told, notes>>
  BY <1>0, HookOwns DEF Hooks!Persist, Hooks!Beside, HookInv, HookTyped
<1>2. plan' \in HookPlanOf /\ count' \in [Hooks!Moves -> Nat] /\ (Calm' => Calm)
  BY <1>1, HookQuiet
<1>3. /\ store.listed[o] = store.managed[o]
      /\ j.at = "persist" => store.managed[o] \subseteq j.view
      /\ j.view \cap notes.gone[o] \subseteq notes.caught
      /\ \A i \in notes.gone[o] \ notes.caught : i \notin store.listed[o]
  BY <1>0, <1>1 DEF HookInv, SetsAgree, Hooks!NothingIsCarried
<1>4. CASE j.at = "plan"
  <2>0. PICK view : view = store.listed[o]
    OBVIOUS
  <2>1. PICK n : n = [j EXCEPT !.at = "persist", !.view = view]
    OBVIOUS
  <2>2. jobs' = [jobs EXCEPT ![o].job = n] /\ UNCHANGED store
    BY <1>0, <1>4, <2>0, <2>1 DEF Hooks!Persist, Hooks!SetJob
  <2>3. /\ n \in Job /\ n.at = "persist" /\ n.id = j.id /\ n.place = j.place /\ n.view = view
        /\ n.kind = j.kind
    <3>1. view \in SUBSET Ids
      BY <1>1, <2>0 DEF Stores
    <3> QED BY <1>1, <2>1, <3>1 DEF Job
  <2>4. /\ jobs' = [jobs EXCEPT ![o] = [lock |-> "job", job |-> n]]
        /\ jobs'[o].job = n /\ jobs'[o].lock = "job"
    BY <1>1, <2>2, <2>3, HookSet
  <2>5. HasInHand(o, n)
    BY <1>0, <2>3, HookHas DEF HasInHand
  <2>6. JobKnows(o)'
    BY <1>0, <1>1, <1>4, <2>3, <2>4 DEF JobKnows
  <2>7. n.view \cap notes.gone[o] \subseteq notes.caught
    BY <1>3, <2>0, <2>3
  <2> QED BY <1>1, <1>2, <1>3, <2>0, <2>2, <2>3, <2>4, <2>5, <2>6, <2>7, HookBusy
<1>5. CASE j.at = "persist"
  <2>1. store' = [store EXCEPT !.managed[o] = j.view]
    BY <1>0, <1>5 DEF Hooks!Persist
  <2>2. /\ store' \in Stores /\ store'.record = store.record /\ store'.listed = store.listed
        /\ store'.managed[o] = j.view
        /\ \A q \in Owners \ {o} : store'.managed[q] = store.managed[q]
    <3>1. j.view \in SUBSET Ids
      BY <1>1 DEF Job
    <3>2. PICK m : m = [store.managed EXCEPT ![o] = j.view]
      OBVIOUS
    <3>3. /\ m \in [Owners -> SUBSET Ids] /\ m[o] = j.view
          /\ \A q \in Owners \ {o} : m[q] = store.managed[q]
      BY <1>1, <3>1, <3>2 DEF Stores
    <3>4. store' = [store EXCEPT !.managed = m]
      BY <2>1, <3>2
    <3> QED BY <1>1, <3>3, <3>4 DEF Stores
  <2>3. PICK n : n = IF j.kind = "create" THEN [j EXCEPT !.at = "roles", !.view = {}]
                     ELSE Hooks!Resting
    OBVIOUS
  <2>4. /\ n \in Job /\ n.at \in {"roles", "idle"} /\ n.view = {}
        /\ n.id = Nothing \/ (n.id = j.id /\ n.place = j.place)
        /\ n.at = "roles" => n.kind = "create" /\ j.kind = "create" /\ n.id = j.id
                             /\ n.place = j.place
        /\ n.at = "idle" => n = Hooks!Resting /\ n.kind = "none"
    BY <1>1, <2>3, HookOwns DEF Job
  <2>5. /\ jobs' \in JobsOf /\ jobs'[o].job = n /\ \A q \in Owners \ {o} : jobs'[q] = jobs[q]
        /\ n.at = "roles" => jobs'[o].lock = "job"
    <3>1. CASE j.kind = "create"
      <4>1. jobs' = [jobs EXCEPT ![o].job = n]
        BY <1>0, <1>5, <2>3, <3>1 DEF Hooks!Persist, Hooks!SetJob
      <4> QED BY <1>1, <2>4, <4>1, HookSet
    <3>2. CASE j.kind # "create"
      <4>1. jobs' = [jobs EXCEPT ![o] = [lock |-> "free", job |-> n]]
        BY <1>0, <1>5, <2>3, <3>2 DEF Hooks!Persist, Hooks!EndJob
      <4> QED BY <1>1, <2>3, <2>4, <3>2, <4>1 DEF JobsOf
    <3> QED BY <3>1, <3>2
  <2>6. HookTyped'
    BY <1>1, <1>2, <2>2, <2>5 DEF HookTyped
  <2>7. HasInHand(o, jobs'[o].job)
    BY <1>0, <2>4, <2>5, HookHas, HooksAssumption DEF HasInHand
  <2>8. JobKnows(o)'
    BY <1>0, <1>1, <1>5, <2>4, <2>5 DEF JobKnows
  <2>9. SetsAgree'
    <3>1. /\ store'.listed[o] \subseteq store'.managed[o]
          /\ jobs'[o].job.at \notin {"plan", "persist"} /\ jobs'[o].job.view = {}
      BY <1>3, <1>5, <2>2, <2>4, <2>5
    <3> QED BY <1>1, <2>2, <2>5, <3>1 DEF HookInv, SetsAgree
  <2>10. Hooks!NothingIsCarried'
    <3> SUFFICES ASSUME NEW q \in Owners, NEW k \in notes.gone[q], k \notin notes.caught
                 PROVE  /\ store'.record[k].ns # q /\ k \notin store'.managed[q]
                        /\ k \notin store'.listed[q]
      BY <1>1 DEF Hooks!NothingIsCarried
    <3>1. store.record[k].ns # q /\ k \notin store.managed[q] /\ k \notin store.listed[q]
      BY DEF HookInv, Hooks!NothingIsCarried
    <3>2. k \notin store'.managed[q]
      BY <1>3, <2>2, <3>1
    <3> QED BY <2>2, <3>1, <3>2
  <2>11. Kept' /\ RecordsInside'
    BY <1>1, <2>2 DEF HookInv, Kept, RecordsInside
  <2>12. Hooks!OwnNotStrange'
    BY <1>1, <1>2 DEF HookInv, Hooks!OwnNotStrange, Calm
  <2>13. \A t \in tasks : t.at = "report" /\ Hooks!Inside(t.found, t.post.to)
               => t.post.to \in notes'.been[t.post.id]
    BY <1>1 DEF HookInv, TaskKnows
  <2> QED BY <1>1, <1>2, <2>2, <2>4, <2>5, <2>6, <2>7, <2>8, <2>9, <2>10, <2>11, <2>12,
             <2>13,
             HookWorks
<1> QED BY <1>1, <1>4, <1>5

LEMMA HookRoles == ASSUME HookInv, NEW o \in Owners, Hooks!Roles(o) PROVE HookInv'
<1>0. PICK j : j = jobs[o].job
  OBVIOUS
<1>1. PICK i, p : i = j.id /\ p = j.place
  OBVIOUS
<1>2. /\ j \in Job /\ jobs \in JobsOf /\ JobKnows(o) /\ Hooks!Quiet /\ j.at = "roles"
      /\ jobs[o].lock = "job" /\ i \in Ids /\ p \in Spots
      /\ jobs' = [jobs EXCEPT ![o] = [lock |-> "free", job |-> Hooks!Resting]]
      /\ UNCHANGED <<forge, posts, seen, tasks, told>>
  BY <1>0, <1>1, HookOwns DEF Hooks!Roles, Hooks!Beside, Hooks!EndJob, JobKnows, Job
<1>3. /\ store \in Stores /\ notes \in HookNotes /\ HookTyped /\ forge \in Forges
      /\ Nothing \notin Owners \cup Ids
  BY HooksAssumption DEF HookInv, HookTyped
<1>4. plan' \in HookPlanOf /\ count' \in [Hooks!Moves -> Nat] /\ (Calm' => Calm)
  BY <1>2, HookQuiet
<1>5. /\ jobs' \in JobsOf /\ jobs'[o].job = Hooks!Resting
      /\ \A q \in Owners \ {o} : jobs'[q] = jobs[q]
  BY <1>2, HookOwns DEF JobsOf
<1>6. PICK e : e = IF store.record[i] = Hooks!NoRecord THEN Hooks!FirstRecord(o, p)
                   ELSE store.record[i]
  OBVIOUS
<1>7. /\ e \in Entries /\ e # Hooks!NoRecord
      /\ store.record[i] # Hooks!NoRecord => e = store.record[i]
      /\ store.record[i] = Hooks!NoRecord => e.ns = o /\ e.at = p
  BY <1>2, <1>3, <1>6 DEF Stores, Entries, Hooks!FirstRecord, Hooks!NoRecord
<1>8. /\ store' \in Stores /\ store'.managed = store.managed /\ store'.listed = store.listed
      /\ store'.record[i] = e /\ \A k \in Ids \ {i} : store'.record[k] = store.record[k]
  <2>1. PICK r : r = [store.record EXCEPT ![i] = e]
    OBVIOUS
  <2>2. /\ r \in [Ids -> Entries] /\ r[i] = e /\ \A k \in Ids \ {i} : r[k] = store.record[k]
    BY <1>2, <1>3, <1>7, <2>1 DEF Stores
  <2>3. store' = [store EXCEPT !.record = r]
    BY <1>0, <1>1, <1>6, <2>1 DEF Hooks!Roles
  <2> QED BY <1>3, <2>2, <2>3 DEF Stores
<1>9. PICK a, out : /\ a = notes.astray \cup Hooks!Astray(store')
                    /\ out = [notes.gone EXCEPT ![o] = notes.gone[o] \ {i}]
  OBVIOUS
<1>10. a \in SUBSET Ids /\ out \in [Owners -> SUBSET Ids]
  BY <1>3, <1>9 DEF HookNotes, Hooks!Astray
<1>11. notes' = [notes EXCEPT !.astray = a, !.gone = out]
  BY <1>0, <1>1, <1>9 DEF Hooks!Roles
<1>12. /\ notes' \in HookNotes /\ notes'.handled = notes.handled /\ notes'.twice = notes.twice
       /\ notes'.dropped = notes.dropped /\ notes'.caught = notes.caught
       /\ notes'.made = notes.made /\ notes'.been = notes.been
       /\ notes'.astray = a /\ notes'.gone = out
  BY <1>3, <1>10, <1>11 DEF HookNotes
<1>13. HookTyped'
  BY <1>2, <1>3, <1>4, <1>5, <1>8, <1>12 DEF HookTyped
<1>14. out[o] = notes.gone[o] \ {i} /\ \A q \in Owners \ {o} : out[q] = notes.gone[q]
  BY <1>3, <1>9 DEF HookNotes
<1>15. JobKnows(o)' /\ HasInHand(o, jobs'[o].job)
  BY <1>2, <1>5, HookEnded
<1>16. \A k \in Ids : \/ store'.record[k] = store.record[k]
                      \/ /\ k \in forge.born
                         /\ \A q \in Owners : Native(k, q) => Fits(store'.record[k], q)
  <2>1. /\ i \in forge.born
        /\ \A q \in Owners : Native(i, q) => q = o /\ Hooks!Inside(p, q)
    BY <1>0, <1>1, <1>2, HookHas DEF HasInHand
  <2>2. \A q \in Owners : Native(i, q) => Fits(e, q)
    BY <1>7, <2>1 DEF Native, Fits
  <2> QED BY <1>8, <2>1, <2>2
<1>17. Kept'
  BY <1>3, <1>7, <1>8, <1>12 DEF HookInv, Kept, HookNotes
<1>18. RecordsInside'
  BY <1>9, <1>12 DEF RecordsInside, Hooks!Astray
<1>19. SetsAgree'
  <2> SUFFICES ASSUME NEW q \in Owners
               PROVE  /\ store'.listed[q] \subseteq store'.managed[q]
                      /\ jobs'[q].job.at \in {"plan", "persist"} => store'.listed[q] = store'.managed[q]
                      /\ jobs'[q].job.at = "persist" => store'.managed[q] \subseteq jobs'[q].job.view
                      /\ jobs'[q].job.view \cap notes'.gone[q] \subseteq notes'.caught
    BY DEF SetsAgree
  <2>1. CASE q = o
    BY <1>5, <1>8, <2>1, HookOwns DEF HookInv, SetsAgree
  <2>2. CASE q # o
    BY <1>5, <1>8, <1>12, <1>14, <2>2 DEF HookInv, SetsAgree
  <2> QED BY <2>1, <2>2
<1>20. Hooks!NothingIsCarried'
  <2> SUFFICES ASSUME NEW q \in Owners, NEW k \in notes'.gone[q], k \notin notes'.caught
               PROVE  /\ store'.record[k].ns # q /\ k \notin store'.managed[q]
                      /\ k \notin store'.listed[q]
    BY DEF Hooks!NothingIsCarried
  <2>1. k \in Ids /\ k \in notes.gone[q] /\ k \notin notes.caught /\ (q = o => k # i)
    BY <1>3, <1>10, <1>12, <1>14 DEF HookNotes
  <2>2. store.record[k].ns # q /\ k \notin store.managed[q] /\ k \notin store.listed[q]
    BY <2>1 DEF HookInv, Hooks!NothingIsCarried
  <2>3. store'.record[k].ns # q
    BY <1>7, <1>8, <2>1, <2>2
  <2> QED BY <1>8, <2>2, <2>3
<1>21. Hooks!OwnNotStrange'
  BY <1>2, <1>4, <1>12 DEF HookInv, Hooks!OwnNotStrange, Calm
<1>22. /\ \A t \in tasks : t.at = "report" /\ Hooks!Inside(t.found, t.post.to)
                => t.post.to \in notes'.been[t.post.id]
       /\ jobs[o].lock # "look" /\ notes.astray \subseteq notes'.astray
       /\ jobs'[o].job.kind = "create" /\ jobs'[o].job.at = "manage" => jobs'[o].job.slow
  BY <1>2, <1>5, <1>9, <1>12, HookOwns DEF HookInv, TaskKnows
<1> QED BY <1>2, <1>4, <1>5, <1>12, <1>13, <1>15, <1>16, <1>17, <1>18, <1>19, <1>20,
           <1>21, <1>22,
           HookWorks

LEMMA HookCrash == ASSUME HookInv, Hooks!Crash PROVE HookInv'
<1>0. "crash" \in Hooks!Moves /\ HookTyped /\ store \in Stores /\ Hooks!Happens("crash")
  BY DEF HookInv, HookTyped, Hooks!Moves, Hooks!Crash
<1>1. /\ tasks' = {} /\ jobs' = [o \in Owners |-> [lock |-> "free", job |-> Hooks!Resting]]
      /\ store' = [store EXCEPT !.listed = store.managed]
      /\ UNCHANGED <<forge, posts, seen, told, notes>>
  BY DEF Hooks!Crash
<1>2. plan' \in HookPlanOf /\ count' \in [Hooks!Moves -> Nat] /\ (Calm' => Calm)
  BY <1>0, HookHappens
<1>3. /\ store' \in Stores /\ store'.record = store.record /\ store'.managed = store.managed
      /\ store'.listed = store.managed
  BY <1>0, <1>1 DEF Stores
<1>4. /\ Hooks!Resting \in Job /\ Hooks!Resting.at = "idle" /\ Hooks!Resting.id = Nothing
      /\ Hooks!Resting.view = {} /\ Hooks!Resting.kind = "none" /\ Nothing \notin Ids
  BY HooksAssumption DEF Job, Hooks!Resting, Spots
<1>5. jobs' \in JobsOf /\ \A o \in Owners : jobs'[o].job = Hooks!Resting
  BY <1>1, <1>4 DEF JobsOf
<1>6. HookTyped'
  BY <1>0, <1>1, <1>2, <1>3, <1>5 DEF HookTyped
<1>7. (\A o \in Owners : JobKnows(o)') /\ Locked' /\ \A t \in tasks' : TaskKnows(t)'
  BY <1>1, <1>4, <1>5 DEF JobKnows, Locked
<1>8. RecordsInside' /\ SetsAgree' /\ Kept'
  BY <1>1, <1>3, <1>4, <1>5 DEF HookInv, RecordsInside, SetsAgree, Kept
<1>9. \A i \in Ids, q \in Owners : Native(i, q) => Native(i, q)'
  <2>1. \A i \in Ids, q \in Owners : TakenBy(i, q)'
    BY <1>4, <1>5 DEF TakenBy
  <2> QED BY <1>1, <1>3, <2>1 DEF Native, PlacedWith, Fits
<1>10. \A i \in Ids \ forge.born : Unborn(i)'
  <2>1. \A i \in Ids : NotTaken(i)'
    BY <1>4, <1>5 DEF NotTaken
  <2> QED BY <1>1, <1>3, <2>1 DEF HookInv, Births, Unborn, NoPlace, Hooks!NoRecord
<1>11. forge.born \subseteq Ids
  BY <1>0 DEF HookTyped, Forges
<1>12. Births'
  BY <1>1, <1>9, <1>10, <1>11 DEF HookInv, Births
<1>13. AtHome'
  <2>1. Tells' \subseteq Tells
    BY <1>1 DEF Tells
  <2>2. \A o \in Owners : jobs'[o].job.kind # "create"
    BY <1>4, <1>5
  <2> SUFFICES ASSUME Calm' PROVE EachHome'
    BY DEF AtHome
  <2>3. EachHome
    BY <1>2 DEF HookInv, AtHome
  <2>4. \A i \in forge'.born : \E q \in Owners : Native(i, q)' /\ Mail(i, q)'
    BY <1>1, <1>9, <1>11, <2>1, <2>3 DEF EachHome, Mail
  <2> QED BY <1>1, <2>1, <2>2, <2>3, <2>4 DEF EachHome, Unmanaged
<1>14. /\ (notes.handled \subseteq seen)' /\ Hooks!EachOnce' /\ Hooks!EventsStayInside'
  BY <1>1 DEF HookInv, Hooks!EachOnce, Hooks!EventsStayInside
<1>15. Hooks!NothingIsCarried'
  BY <1>1, <1>3 DEF HookInv, Hooks!NothingIsCarried
<1>16. Hooks!OwnNotStrange'
  BY <1>1, <1>2 DEF HookInv, Hooks!OwnNotStrange, Calm
<1> QED BY <1>6, <1>7, <1>8, <1>12, <1>13, <1>14, <1>15, <1>16 DEF HookInv

(* What leaves a record's namespace alone takes nothing from anyone.        *)
LEMMA HookSpared ==
    ASSUME \A i \in Ids : store'.record[i].ns = store.record[i].ns
                       \/ store.record[i].ns \notin Owners
    PROVE  Hooks!OnlyItsOwn
  BY DEF Hooks!OnlyItsOwn

LEMMA HookRunJob == HookInv /\ Hooks!RunJob => HookInv' /\ Hooks!OnlyItsOwn
<1> SUFFICES ASSUME HookInv, NEW o \in Owners,
                    \/ \E i \in Ids : Hooks!Create(o, i)
                    \/ Hooks!Read(o) \/ Hooks!Manage(o) \/ Hooks!Persist(o)
                    \/ Hooks!Roles(o) \/ Hooks!Fail(o)
             PROVE  HookInv' /\ Hooks!OnlyItsOwn
  BY DEF Hooks!RunJob
<1>1. HookInv'
  BY HookCreate, HookRead, HookManage, HookPersist, HookRoles, HookFail
<1>2. Hooks!OnlyItsOwn
  <2>0. store \in Stores /\ Nothing \notin Owners /\ \A k \in Ids : store.record[k] \in Entries
    BY HooksAssumption DEF HookInv, HookTyped, Stores
  <2>1. CASE (\E i \in Ids : Hooks!Create(o, i)) \/ Hooks!Read(o) \/ Hooks!Fail(o)
    <3>1. UNCHANGED store
      BY <2>1 DEF Hooks!Create, Hooks!Read, Hooks!Fail
    <3> QED BY <3>1, HookSpared
  <2>2. CASE Hooks!Persist(o)
    <3>1. store'.record = store.record
      BY <2>0, <2>2 DEF Hooks!Persist, Stores
    <3> QED BY <3>1, HookSpared
  <2>3. CASE Hooks!Manage(o)
    <3>1. PICK i, p : i = jobs[o].job.id /\ p = jobs[o].job.place
      OBVIOUS
    <3>2. /\ i \in Ids /\ p \in Hooks!Places /\ store' = Hooks!Managed(o, i, p)
      BY <2>3, <3>1 DEF HookInv, JobKnows, Hooks!Manage
    <3>3. /\ \A k \in Ids \ {i} : store'.record[k] = store.record[k]
          /\ store'.record[i].ns = IF store.record[i] = Hooks!NoRecord THEN o
                                   ELSE store.record[i].ns
      BY <2>0, <3>2, HookManaged
    <3>4. Hooks!NoRecord.ns = Nothing
      BY DEF Hooks!NoRecord
    <3> QED BY <2>0, <3>2, <3>3, <3>4, HookSpared
  <2>4. CASE Hooks!Roles(o)
    <3>1. PICK i, e : /\ i = jobs[o].job.id
                      /\ e = IF store.record[i] = Hooks!NoRecord
                             THEN Hooks!FirstRecord(o, jobs[o].job.place) ELSE store.record[i]
      OBVIOUS
    <3>2. /\ i \in Ids /\ store' = [store EXCEPT !.record[i] = e]
          /\ store.record[i] # Hooks!NoRecord => e = store.record[i]
      BY <2>4, <3>1 DEF HookInv, JobKnows, Hooks!Roles
    <3>3. \A k \in Ids : store'.record[k] = IF k = i THEN e ELSE store.record[k]
      BY <2>0, <3>2 DEF Stores
    <3>4. Hooks!NoRecord.ns = Nothing
      BY DEF Hooks!NoRecord
    <3> QED BY <2>0, <3>2, <3>3, <3>4, HookSpared
  <2> QED BY <2>1, <2>2, <2>3, <2>4
<1> QED BY <1>1, <1>2

LEMMA HookNext == HookInv /\ Hooks!Next => HookInv' /\ Hooks!OnlyItsOwn
<1> SUFFICES ASSUME HookInv, Hooks!Next PROVE HookInv' /\ Hooks!OnlyItsOwn
  OBVIOUS
<1>0. Hooks!InUse \subseteq Hooks!Places /\ forge \in Forges
  BY DEF HookInv, HookTyped, HookPlanOf, Hooks!InUse, Hooks!Places
<1>1. CASE \E i \in Ids :
             \/ \E p \in Hooks!InUse :
                  Hooks!StrangerCreates(i, p) \/ Hooks!Rename(i, p) \/ Hooks!Transfer(i, p)
             \/ Hooks!Delete(i) \/ Hooks!Edit(i)
  <2>1. HookInv'
    BY <1>0, <1>1, HookStrangerCreates, HookRename, HookTransfer, HookDelete, HookEdit
  <2>2. UNCHANGED store
    BY <1>1 DEF Hooks!StrangerCreates, Hooks!Rename, Hooks!Transfer, Hooks!Delete,
       Hooks!Edit,
                Hooks!World
  <2> QED BY <2>1, <2>2, HookSpared
<1>2. CASE \E o \in Owners, i \in Ids, p, q \in Hooks!InUse,
              k \in {"created", "deleted", "renamed", "transferred"} :
             Hooks!Claim([event |-> forge.events, to |-> o, kind |-> k, id |-> i,
                          from |-> p, at |-> q])
  <2>1. PICK o \in Owners, i \in Ids, p \in Hooks!InUse, q \in Hooks!InUse,
             k \in {"created", "deleted", "renamed", "transferred"} :
          Hooks!Claim([event |-> forge.events, to |-> o, kind |-> k, id |-> i,
                       from |-> p, at |-> q])
    BY <1>2
  <2>2. [event |-> forge.events, to |-> o, kind |-> k, id |-> i, from |-> p, at |-> q]
          \in Hooks!Deliveries
    BY <1>0 DEF Hooks!Deliveries, Forges
  <2>3. HookInv' /\ UNCHANGED store
    BY <2>1, <2>2, HookClaim DEF Hooks!Claim, Hooks!World
  <2> QED BY <2>3, HookSpared
<1>3. CASE \E d \in posts : Hooks!Lose(d) \/ Hooks!Receive(d, TRUE) \/ Hooks!Receive(d, FALSE)
  <2>1. HookInv'
    BY <1>3, HookLose, HookReceive
  <2>2. UNCHANGED store
    BY <1>3 DEF Hooks!Lose, Hooks!Receive, Hooks!World
  <2> QED BY <2>1, <2>2, HookSpared
<1>4. CASE \E o \in Owners :
             \/ \E p \in Hooks!InUse, k \in {"create", "adopt", "roles"} : Hooks!Take(o, k, p)
             \/ Hooks!Stall(o)
  <2>1. HookInv'
    BY <1>0, <1>4, HookTake, HookStall
  <2>2. UNCHANGED store
    BY <1>4 DEF Hooks!Take, Hooks!Stall
  <2> QED BY <2>1, <2>2, HookSpared
<1>5. CASE Hooks!Crash
  <2>1. store'.record = store.record
    BY <1>5 DEF HookInv, HookTyped, Stores, Hooks!Crash
  <2> QED BY <1>5, <2>1, HookCrash, HookSpared
<1>6. CASE Hooks!Handle \/ Hooks!RunJob
  BY <1>6, HookHandle, HookRunJob
<1> QED BY <1>1, <1>2, <1>3, <1>4, <1>5, <1>6 DEF Hooks!Next, Hooks!Proceed

LEMMA HookKnows ==
    HookInv => /\ Hooks!TypeOK /\ Hooks!EachOnce /\ Hooks!EventsStayInside
               /\ Hooks!OwnNotStrange /\ Hooks!NothingIsCarried
  BY HookTypes DEF HookInv

-----------------------------------------------------------------------------
(* The mirror and the lease.                                                 *)
Mirrors == INSTANCE MirrorProofs WITH Keys <- Records, Plans <- MirrorPlans
Leases == INSTANCE StateLeaseProofs WITH MaxTime <- LeaseEnd, Plans <- LeasePlans

LEMMA MirrorAssumed ==
    /\ Mirrors!HostAssumption /\ Mirrors!BigAssumption
    /\ Mirrors!BoundAssumption /\ Mirrors!PlanAssumption
  BY MirrorAssumption
  DEF Mirrors!HostAssumption, Mirrors!BigAssumption, Mirrors!BoundAssumption,
      Mirrors!PlanAssumption, Mir!Mishaps, Mirrors!Mishaps

LEMMA LeaseAssumed ==
    /\ Leases!RequestAssumption /\ Leases!ClockAssumption
    /\ Leases!AttemptsAssumption /\ Leases!NameAssumption
  BY RequestAssumption, ClockAssumption, AttemptsAssumption, NameAssumption
  DEF Leases!RequestAssumption, Leases!ClockAssumption, Leases!AttemptsAssumption,
      Leases!NameAssumption

(* What is proved about is what MCEdges takes an instance of.                *)
LEMMA MirrorSame == (Mir!Init <=> Mirrors!Init) /\ (Mir!Next <=> Mirrors!Next)
  BY DEF Mir!Mishaps, Mirrors!Mishaps, Mir!Values, Mirrors!Values, Mir!NoValue,
     Mirrors!NoValue, Mir!NoRequest, Mirrors!NoRequest, Mir!memory, Mirrors!memory,
     Mir!history, Mirrors!history, Mir!Empty, Mirrors!Empty, Mir!Fresh,
     Mirrors!Fresh, Mir!Init, Mirrors!Init, Mir!Past, Mirrors!Past, Mir!Live,
     Mirrors!Live, Mir!Cache, Mirrors!Cache, Mir!Pending, Mirrors!Pending,
     Mir!LiveVersion, Mirrors!LiveVersion, Mir!Happens, Mirrors!Happens, Mir!Change,
     Mirrors!Change, Mir!Flushed, Mirrors!Flushed, Mir!SendReport,
     Mirrors!SendReport, Mir!StartPass, Mirrors!StartPass, Mir!PutBack,
     Mirrors!PutBack, Mir!Done, Mirrors!Done, Mir!Accepts, Mirrors!Accepts,
     Mir!Write, Mirrors!Write, Mir!Skip, Mirrors!Skip, Mir!Conflict,
     Mirrors!Conflict, Mir!Answered, Mirrors!Answered, Mir!RequestFails,
     Mirrors!RequestFails, Mir!AnswerLost, Mirrors!AnswerLost, Mir!LeaseExpires,
     Mirrors!LeaseExpires, Mir!Listed, Mirrors!Listed, Mir!Snapshot,
     Mirrors!Snapshot, Mir!RolledBack, Mirrors!RolledBack, Mir!Pulled,
     Mirrors!Pulled, Mir!Unmirrored, Mirrors!Unmirrored, Mir!Start, Mirrors!Start,
     Mir!Forget, Mirrors!Forget, Mir!Stop, Mirrors!Stop, Mir!LoseHost,
     Mirrors!LoseHost, Mir!TakeBackup, Mirrors!TakeBackup, Mir!Rollback,
     Mirrors!Rollback, Mir!Reap, Mirrors!Reap, Mir!Local, Mirrors!Local, Mir!Pass,
     Mirrors!Pass, Mir!Next, Mirrors!Next

LEMMA MirrorTypeSame == Mir!TypeOK <=> Mirrors!TypeOK
  BY DEF Mir!Mishaps, Mirrors!Mishaps, Mir!Values, Mirrors!Values, Mir!NoRequest,
     Mirrors!NoRequest, Mir!Pairs, Mirrors!Pairs, Mir!Remotes, Mirrors!Remotes,
     Mir!Disks, Mirrors!Disks, Mir!TypeOK, Mirrors!TypeOK

LEMMA LeaseSame == (Hold!Init <=> Leases!Init) /\ (Hold!Next <=> Leases!Next)
  BY DEF Hold!Keys, Leases!Keys, Hold!Moves, Leases!Moves, Hold!NoLease,
     Leases!NoLease, Hold!NoRecord, Leases!NoRecord, Hold!NoRequest,
     Leases!NoRequest, Hold!Idle, Leases!Idle, Hold!Init, Leases!Init, Hold!Happens,
     Leases!Happens, Hold!Larger, Leases!Larger, Hold!Expiry, Leases!Expiry,
     Hold!Wall, Leases!Wall, Hold!Free, Leases!Free, Hold!Ask, Leases!Ask,
     Hold!Send, Leases!Send, Hold!Begin, Leases!Begin, Hold!Take, Leases!Take,
     Hold!LookAgain, Leases!LookAgain, Hold!GiveUp, Leases!GiveUp, Hold!Granted,
     Leases!Granted, Hold!Left, Leases!Left, Hold!LongEnough, Leases!LongEnough,
     Hold!Renew, Leases!Renew, Hold!Renewed, Leases!Renewed, Hold!RanOut,
     Leases!RanOut, Hold!Seal, Leases!Seal, Hold!Writing, Leases!Writing, Hold!Put,
     Leases!Put, Hold!Delete, Leases!Delete, Hold!SealAgain, Leases!SealAgain,
     Hold!Unpredicted, Leases!Unpredicted, Hold!Written, Leases!Written,
     Hold!Release, Leases!Release, Hold!Released, Leases!Released, Hold!OfLease,
     Leases!OfLease, Hold!Accepts, Leases!Accepts, Hold!Waiting, Leases!Waiting,
     Hold!Apply, Leases!Apply, Hold!Fallen, Leases!Fallen, Hold!Refused,
     Leases!Refused, Hold!Fails, Leases!Fails, Hold!Crash, Leases!Crash, Hold!Lost,
     Leases!Lost, Hold!Foreign, Leases!Foreign, Hold!Tick, Leases!Tick, Hold!Step,
     Leases!Step, Hold!Next, Leases!Next, Hold!TTL, Leases!TTL

LEMMA LeasePropertiesSame ==
    /\ Hold!TypeOK <=> Leases!TypeOK
    /\ Hold!OneWriter <=> Leases!OneWriter
    /\ Hold!SecretsOpen <=> Leases!SecretsOpen
    /\ Hold!SealedAgain <=> Leases!SealedAgain
  BY DEF Hold!Keys, Leases!Keys, Hold!Moves, Leases!Moves, Hold!NoRequest,
     Leases!NoRequest, Hold!Waiting, Leases!Waiting, Hold!Kinds, Leases!Kinds,
     Hold!Requests, Leases!Requests, Hold!Places, Leases!Places, Hold!Vtas,
     Leases!Vtas, Hold!Procs, Leases!Procs, Hold!TypeOK, Leases!TypeOK,
     Hold!Underway, Leases!Underway, Hold!OneWriter, Leases!OneWriter, Hold!Opens,
     Leases!Opens, Hold!SecretsOpen, Leases!SecretsOpen, Hold!Rewriting,
     Leases!Rewriting, Hold!SealedAgain, Leases!SealedAgain

LEMMA MirrorStep ==
    ASSUME Mirrors!TypeOK, Mirrors!Next \/ UNCHANGED Mirrors!vars
    PROVE  Mirrors!TypeOK'
  BY Mirrors!TypeStep, MirrorAssumed

LEMMA LeaseStep ==
    ASSUME Leases!KeptInv, Leases!Next \/ UNCHANGED Leases!vars
    PROVE  Leases!KeptInv'
  BY Leases!InductiveKept, LeaseAssumed

LEMMA LeaseKnows ==
    ASSUME Leases!KeptInv
    PROVE  Hold!TypeOK /\ Hold!OneWriter /\ Hold!SecretsOpen /\ Hold!SealedAgain
<1>1. Leases!IInv /\ Leases!SealedAgain
  BY DEF Leases!KeptInv
<1>2. Leases!TypeOK /\ Leases!SecretsOpen
  BY <1>1 DEF Leases!IInv
<1>3. Leases!OneWriter
  BY <1>1, Leases!SoleWriter, LeaseAssumed
<1> QED BY <1>1, <1>2, <1>3, LeasePropertiesSame

-----------------------------------------------------------------------------
(* The parts together.                                                       *)
AllInv ==
  /\ part = "hooks" => HookInv
  /\ part = "sign" => SignInv
  /\ part = "keys" => KeyInv
  /\ part = "mirror" => Mirrors!TypeOK
  /\ part = "lease" => Leases!KeptInv

LEMMA AllInit == Init => AllInv
<1>1. Mirrors!Init => Mirrors!TypeOK
  BY Mirrors!InitTypes, MirrorAssumed
<1>2. Leases!Init => Leases!KeptInv
  BY Leases!InitiallyKept, LeaseAssumed
<1> QED BY <1>1, <1>2, HookInit, SignInit, KeyInit, MirrorSame, LeaseSame DEF Init, AllInv

(* Nothing happens.                                                          *)
LEMMA HookIdle == ASSUME HookInv, UNCHANGED <<hooks, posts, plan, count>> PROVE HookInv'
<1> USE DEF hooks
<1>1. HookTyped'
  BY DEF Entries, Forges, Handlers, HookInv, HookNotes, HookPlanOf, HookTyped,
     Hooks!Deliveries, Hooks!Moves, Hooks!Places, Hooks!Reports, Job, JobsOf, Spots,
     Stores
<1>2. (\A o \in Owners : JobKnows(o))'
  BY DEF HookInv, Hooks!Inside, Hooks!Places, Hooks!Resting, JobKnows
<1>3. Locked'
  BY DEF HookInv, Locked
<1>4. (\A t \in tasks : TaskKnows(t))'
  BY DEF HookInv, Hooks!Admits, Hooks!Inside, Hooks!Places, TaskKnows
<1>5. (RecordsInside /\ SetsAgree /\ Births)'
  BY DEF AskedBy, Births, Fits, HookInv, Hooks!Inside, Hooks!NoRecord, Hooks!Places,
     Native, NoPlace, NotAsked, NotTaken, PlacedWith, RecordsInside, SetsAgree,
     TakenBy, Unborn
<1>6. (AtHome /\ Kept /\ notes.handled \subseteq seen)'
  BY DEF AskedBy, AtHome, Calm, EachHome, Fits, HookInv, Hooks!Inside,
     Hooks!NoRecord, Hooks!Places, Kept, Mail, Native, PlacedWith, TakenBy, Tells,
     Unmanaged
<1>7. (Hooks!EachOnce /\ Hooks!EventsStayInside /\ Hooks!OwnNotStrange /\ Hooks!NothingIsCarried)'
  BY DEF HookInv, Hooks!EachOnce, Hooks!EventsStayInside, Hooks!Inside,
     Hooks!NothingIsCarried, Hooks!OwnNotStrange
<1> QED BY <1>1, <1>2, <1>3, <1>4, <1>5, <1>6, <1>7 DEF HookInv

LEMMA SignIdle == ASSUME SignInv, UNCHANGED <<signing, posts, plan, count>> PROVE SignInv'
  BY DEF BridgeHead, HeadsWere, LedgerTold, OnRecord, OwnAreOwn, PostsTold, Pushed,
     RunKnows, RunsKnow, Sign!Heads, Sign!Moves, Sign!None, Sign!OnlyDependabots,
     Sign!Pushes, Sign!TypeOK, Sign!Who, SignInv, Told, Vouched, signing

LEMMA KeyIdle == ASSUME KeyInv, UNCHANGED <<rotating, past, plan, count>> PROVE KeyInv'
<1> USE DEF rotating
<1>1. Rot!TypeOK'
  BY KeyTypes DEF KeyInv, KeyCounts, SignsOwn
<1>2. (TimesInOrder /\ WellDated)'
  BY DEF Dated, KeyInv, Rot!Keys, Rot!Never, Rot!NoKeys, Rot!NoView, Rot!None,
     Rot!Stopped, TimesInOrder, WellDated
<1>3. (ChosenWell /\ SessionTold /\ Rot!SignsKnown)'
  BY DEF ChosenWell, KeyInv, Rot!Keys, Rot!Never, Rot!None, Rot!SignsKnown,
     SessionTold, Withdrawn
<1> QED BY <1>1, <1>2, <1>3 DEF KeyInv

LEMMA AllIdle == ASSUME AllInv, UNCHANGED all PROVE AllInv'
<1>0. /\ part' = part
      /\ UNCHANGED <<hooks, posts, signing, rotating, past, mirroring, leasing, plan, count>>
  BY DEF all
<1>1. part = "hooks" => HookInv'
  BY <1>0, HookIdle DEF AllInv
<1>2. part = "sign" => SignInv'
  BY <1>0, SignIdle DEF AllInv
<1>3. part = "keys" => KeyInv'
  BY <1>0, KeyIdle DEF AllInv
<1>4. part = "mirror" => Mirrors!TypeOK'
  BY <1>0, MirrorStep DEF AllInv, mirroring, Mirrors!vars, Mirrors!memory, Mirrors!history
<1>5. part = "lease" => Leases!KeptInv'
  BY <1>0, LeaseStep DEF AllInv, leasing, Leases!vars
<1> QED BY <1>0, <1>1, <1>2, <1>3, <1>4, <1>5 DEF AllInv

LEMMA AllNext == ASSUME AllInv, Next PROVE AllInv'
<1>1. CASE OfHooks /\ Hooks!Next
  BY <1>1, HookNext DEF AllInv, OfHooks
<1>2. CASE OfSign /\ Sign!Next
  BY <1>2, SignNext DEF AllInv, OfSign
<1>3. CASE OfKeys /\ Rot!Next
  BY <1>3, KeyNext DEF AllInv, OfKeys
<1>4. CASE OfMirror /\ Mir!Next
  BY <1>4, MirrorStep, MirrorSame DEF AllInv, OfMirror
<1>5. CASE OfLease /\ Hold!Next
  BY <1>5, LeaseStep, LeaseSame DEF AllInv, OfLease
<1> QED BY <1>1, <1>2, <1>3, <1>4, <1>5 DEF Next

(* Of whichever part a behaviour is, that part's invariant holds throughout. *)
THEOREM AllAlways == Spec => []AllInv
<1>1. AllInv /\ [Next]_all => AllInv'
  BY AllNext, AllIdle
<1> QED BY AllInit, <1>1, PTL DEF Spec

(* Whatever part a behaviour is of, its state keeps its types: what the      *)
(* records, tasks, runs and leases of the code can hold.                     *)
THEOREM EdgesTyped == Spec => []TypeOK
<1>1. AllInv => TypeOK
  BY HookKnows, SignKnows, MirrorTypeSame, LeaseKnows DEF AllInv, KeyInv, SignInv, TypeOK
<1> QED BY <1>1, AllAlways, PTL

(* handle_event and the jobs it meets, and the re-sign's may_sign and        *)
(* record_push: a delivery is acted on once and inside its namespace, what   *)
(* the bridge made itself is never reported as a stranger's, nothing that    *)
(* was announced gone is carried, and only Dependabot's heads are re-signed  *)
(* while the bridge knows its own; for any owners, names, heads and plan.    *)
THEOREM EventsBelieved == Spec => []EventsAreBelieved
<1>1. AllInv => EventsAreBelieved
  BY HookKnows, SignKnows DEF AllInv, EventsAreBelieved
<1> QED BY <1>1, AllAlways, PTL

(* SigningPolicy and refresh_keys: whatever keys are listed, unlisted and    *)
(* withdrawn, and whenever the bridge is killed, no copy of the document     *)
(* that a verifier may still hold lacks the key the bridge signs with, and   *)
(* a session that will be told nothing more has the keys in service.         *)
THEOREM KeysFollowed == Spec => []KeysAreFollowed
<1>1. AllInv => KeysAreFollowed
  BY KeyFollows DEF AllInv, KeyInv, KeysAreFollowed
<1> QED BY <1>1, AllAlways, PTL

(* Lease::acquire, renew_if_due and put_sealed: one writer at a time, and no *)
(* secret left that does not open, by the skew and the timeouts allowed.     *)
THEOREM LeaseSole == Spec => []LeaseIsSole
<1>1. AllInv => LeaseIsSole
  BY LeaseKnows DEF AllInv, LeaseIsSole
<1> QED BY <1>1, AllAlways, PTL

(* handle_event changes only the records its event is about; the key that    *)
(* signs goes only forward, and a check after which keys were taken up       *)
(* leaves no switch due (refresh_keys).                                      *)
THEOREM StepsOwn == Spec => StepsAreOwn
<1> DEFINE Own == /\ part = "hooks" => Hooks!OnlyItsOwn
                  /\ part = "keys" => Rot!MovesOn /\ Rot!ExportsEnd
<1>1. ASSUME AllInv, Next PROVE Own
  <2>1. CASE OfHooks /\ Hooks!Next
    BY <1>1, <2>1, HookNext DEF AllInv, OfHooks
  <2>2. CASE OfKeys /\ Rot!Next
    BY <1>1, <2>2, KeyMovesOn, KeyExportsEnd DEF AllInv, OfKeys
  <2> QED BY <1>1, <2>1, <2>2 DEF Next, OfSign, OfMirror, OfLease
<1>2. AllInv /\ [Next]_all => [Own]_all
  BY <1>1
<1> QED BY <1>2, AllAlways, PTL DEF Spec, StepsAreOwn
=============================================================================
