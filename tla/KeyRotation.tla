----------------------------- MODULE KeyRotation -----------------------------
(***************************************************************************)
(* The bridge's keys in VTA mode: which of them it holds, which one signs,  *)
(* and how a rotation in the VTA and in the DID document reaches the        *)
(* running bridge and its mediator session (vgi-bridge/src/vta.rs           *)
(* load_identity, SigningPolicy, refresh_keys; lib.rs run).                 *)
(*                                                                          *)
(* A key stands for a signing key and the key-agreement key made with it,   *)
(* numbered as the VTA made them; a released key is one the VTA lists as    *)
(* active and exports.  The bridge asks the VTA and then the document: two  *)
(* moments, with anything between them.                                     *)
(***************************************************************************)
EXTENDS Naturals

CONSTANTS MaxKeys, MaxTime,  \* bounds: keys ever made, ticks of the clock
          Horizon,           \* vta.signing_switch_after_secs
          Plans              \* how often each event may happen in a behaviour

Events == {"mint", "list", "unlist", "withdraw", "tick", "hup", "fail", "drop", "crash"}
Keys == 1..MaxKeys
None == 0
Times == 0..MaxTime
Never == MaxTime + 1

VARIABLES
  world,  \* the VTA's keys, the document's, and the time
  kept,   \* when each key was first seen listed, as mirrored to the VTA
  run,    \* the bridge: its identity, first-seen times, and key task
  conn,   \* the mediator session, and whether the rotation it watches moved
  past,   \* history
  plan, count

vars == <<world, kept, run, conn, past, plan, count>>

View == [released |-> world.released, listed |-> world.listed]
NoView == [released |-> {None}, listed |-> {}]
NoKeys == [held |-> {}, signs |-> None]
Stopped == [at |-> "off", why |-> "start", clock |-> 0, asked |-> {}, keys |-> NoKeys,
            first |-> [k \in Keys |-> Never], last |-> NoView, seen |-> NoView]
Down == [at |-> "down", keys |-> NoKeys, changed |-> FALSE]

Steps == {"off", "load", "apply", "link", "ask", "resolve", "wait"}
Identities == [held : SUBSET Keys, signs : Keys \cup {None}]
Views == [released : SUBSET (Keys \cup {None}), listed : SUBSET Keys]

TypeOK ==
  /\ plan \in [Events -> Nat] /\ count \in [Events -> Nat]
  /\ world \in [made : Keys, released : SUBSET Keys, listed : SUBSET Keys,
                since : [Keys -> Times], now : Times]
  /\ kept \in [Keys -> 0..Never]
  /\ run \in [at : Steps, why : {"start", "tick", "hup"}, clock : Times, asked : SUBSET Keys,
              keys : Identities, first : [Keys -> 0..Never], last : Views, seen : Views]
  /\ run.keys.signs # None => run.keys.signs \in run.keys.held
  /\ conn \in [at : {"down", "mark", "connect", "up"}, keys : Identities, changed : BOOLEAN]
  /\ past \in [loaded : Views, blind : BOOLEAN, raced : BOOLEAN, hasty : BOOLEAN,
               unseen : SUBSET Keys, shaky : SUBSET Keys]

Init ==
  /\ plan \in Plans /\ count = [e \in Events |-> 0]
  /\ world = [made |-> 1, released |-> {1}, listed |-> {1}, since |-> [k \in Keys |-> 0],
              now |-> 0]
  /\ kept = [k \in Keys |-> Never]
  /\ run = Stopped /\ conn = Down
  /\ past = [loaded |-> NoView, blind |-> FALSE, raced |-> FALSE, hasty |-> FALSE,
             unseen |-> {}, shaky |-> {}]

Quiet == UNCHANGED <<plan, count>>
Happens(e) ==
  /\ count[e] < plan[e]
  /\ count' = [count EXCEPT ![e] = @ + 1]
  /\ UNCHANGED plan

-----------------------------------------------------------------------------
(* The world.                                                               *)

MintKey ==
  /\ Happens("mint") /\ world.made < MaxKeys
  /\ world' = [world EXCEPT !.made = @ + 1, !.released = @ \cup {world.made + 1}]
  /\ UNCHANGED <<kept, run, conn, past>>

(* Listed under a load already dated, or again before the bridge saw it     *)
(* gone: the first-seen time will be before the listing.                    *)
List(k) ==
  /\ Happens("list") /\ k \in 1..world.made \ world.listed
  /\ world' = [world EXCEPT !.listed = @ \cup {k}, !.since[k] = world.now]
  /\ past' = [past EXCEPT
       !.shaky = IF run.at \in {"load", "apply"} \/ k \in past.unseen THEN @ \cup {k} ELSE @ \ {k}]
  /\ UNCHANGED <<kept, run, conn>>

Unlist(k) ==
  /\ Happens("unlist") /\ k \in world.listed
  /\ world' = [world EXCEPT !.listed = @ \ {k}]
  /\ past' = [past EXCEPT !.unseen = @ \cup {k}]
  /\ UNCHANGED <<kept, run, conn>>

Withdraw(k) ==
  /\ Happens("withdraw") /\ k \in world.released
  /\ world' = [world EXCEPT !.released = @ \ {k}]
  /\ UNCHANGED <<kept, run, conn, past>>

Tick ==
  /\ Happens("tick") /\ world.now < MaxTime
  /\ world' = [world EXCEPT !.now = @ + 1]
  /\ UNCHANGED <<kept, run, conn, past>>

(* The bridge starts again from the times the mirror carried over: of a key *)
(* listed anew meanwhile that may be the time it was listed before.         *)
Crash ==
  /\ run.at # "off" /\ Happens("crash")
  /\ run' = Stopped /\ conn' = Down
  /\ past' = [past EXCEPT !.unseen = @ \cup {k \in Keys : kept[k] # Never /\ k \notin world.listed},
                          !.shaky = @ \cup {k \in world.listed : kept[k] < world.since[k]},
                          !.blind = FALSE, !.raced = FALSE]
  /\ UNCHANGED <<world, kept>>

-----------------------------------------------------------------------------
(* Which key signs: SigningPolicy.                                          *)

(* (Mistake: a key the document dropped keeps its time.)                    *)
ObserveKeeps(first, listed, now) ==
  [k \in Keys |-> IF k \in listed /\ first[k] = Never THEN now ELSE first[k]]

Observe(first, listed, now) ==
  [k \in Keys |-> IF k \notin listed THEN Never ELSE IF first[k] = Never THEN now ELSE first[k]]

Later(first, k, l) == first[k] > first[l] \/ (first[k] = first[l] /\ k > l)

(* The newest key listed for the horizon, or else the oldest of all.        *)
Choice(first, usable, now) ==
  LET known == {k \in usable : first[k] + Horizon <= now}
  IN  IF known # {} THEN CHOOSE k \in known : \A l \in known \ {k} : Later(first, k, l)
      ELSE CHOOSE k \in usable : \A l \in usable \ {k} : Later(first, l, k)

SwitchDue(first, signs, now) ==
  /\ signs # None /\ first[signs] # Never
  /\ \E k \in Keys : /\ first[k] # Never /\ first[k] > first[signs]
                     /\ first[k] + Horizon <= now

-----------------------------------------------------------------------------
(* The key task: loaded at the start, then checked on every tick.           *)

Start ==
  /\ run.at = "off" /\ Quiet
  /\ run' = [run EXCEPT !.at = "load", !.why = "start", !.clock = world.now, !.first = kept]
  /\ UNCHANGED <<world, kept, conn, past>>

Load ==
  /\ run.at = "load" /\ Quiet
  /\ run' = [run EXCEPT !.at = "apply", !.asked = world.released]
  /\ UNCHANGED <<world, kept, conn, past>>

(* A check given up leaves everything as it was; the start tries again.     *)
Again(r) == [r EXCEPT !.at = IF r.why = "start" THEN "load" ELSE "wait"]

Usable == run.asked \cap world.listed
Keep == (run.asked \cup run.keys.held) \cap world.listed

(* What the verifiers hold in their caches can tell the key.                *)
Known(k) == k \in world.listed /\ world.since[k] + Horizon <= world.now

(* replace_identity: keys in service change, and the session is told.       *)
Replace(keys, first) ==
  LET differs == keys # run.keys
  IN  /\ conn' = [conn EXCEPT !.changed = @ \/ differs]
      /\ past' = [past EXCEPT
           !.loaded = [released |-> run.asked, listed |-> world.listed],
           !.blind = run.why # "start" /\ run.seen # [released |-> run.asked, listed |-> world.listed],
           !.raced = @ \/ (conn.at = "mark" /\ differs),
           !.hasty = /\ keys.signs \notin past.shaky /\ ~Known(keys.signs)
                     /\ \E k \in Usable : first[k] + Horizon <= run.clock,
           !.unseen = @ \cap world.listed]

(* reconcile, policy.save, replace_identity.                                *)
Apply ==
  /\ run.at = "apply" /\ Usable # {} /\ Quiet
  /\ LET first == Observe(run.first, world.listed, run.clock)
         keys == [held |-> Keep, signs |-> Choice(first, Usable, run.clock)]
     IN  /\ run' = [run EXCEPT !.at = IF run.why = "start" THEN "link" ELSE "wait",
                               !.last = run.seen, !.first = first, !.keys = keys]
         /\ Replace(keys, first)
  /\ UNCHANGED <<world, kept>>

(* No listed signing key that the VTA still releases.                       *)
Refuse ==
  /\ run.at = "apply" /\ Usable = {} /\ Quiet
  /\ run' = Again(run)
  /\ UNCHANGED <<world, kept, conn, past>>

Fail ==
  /\ run.at \in {"load", "apply", "ask", "resolve"} /\ Happens("fail")
  /\ run' = IF run.at \in {"ask", "resolve"} THEN [run EXCEPT !.at = "wait"] ELSE Again(run)
  /\ UNCHANGED <<world, kept, conn, past>>

Wake(why) ==
  /\ run.at = "wait" /\ IF why = "hup" THEN Happens("hup") ELSE Quiet
  /\ run' = [run EXCEPT !.at = "ask", !.why = why]
  /\ UNCHANGED <<world, kept, conn, past>>

Ask ==
  /\ run.at = "ask" /\ Quiet
  /\ run' = [run EXCEPT !.at = "resolve", !.asked = world.released]
  /\ UNCHANGED <<world, kept, conn, past>>

Fingerprint == [released |-> run.asked, listed |-> world.listed]

(* The first fingerprint is what the later ones are compared with.          *)
Baseline ==
  /\ run.at = "resolve" /\ run.why = "start" /\ Quiet
  /\ run' = [run EXCEPT !.at = "wait", !.last = Fingerprint]
  /\ past' = [past EXCEPT !.blind = Fingerprint # past.loaded]
  /\ UNCHANGED <<world, kept, conn>>

Check ==
  /\ run.at = "resolve" /\ run.why # "start" /\ Quiet
  /\ run' = IF \/ run.why = "hup" \/ SwitchDue(run.first, run.keys.signs, world.now)
               \/ Fingerprint # run.last
            THEN [run EXCEPT !.at = "load", !.clock = world.now, !.seen = Fingerprint]
            ELSE [run EXCEPT !.at = "wait"]
  /\ UNCHANGED <<world, kept, conn, past>>

(* The mirror carries the first-seen times to the VTA.                      *)
MirrorTimes ==
  /\ run.at # "off" /\ kept # run.first /\ Quiet
  /\ kept' = run.first
  /\ UNCHANGED <<world, run, conn, past>>

-----------------------------------------------------------------------------
(* The mediator session: the keys are read, the rotations so far are taken  *)
(* as seen, and then it connects.                                           *)

ReadKeys ==
  /\ conn.at = "down" /\ run.keys # NoKeys /\ Quiet
  /\ conn' = [conn EXCEPT !.at = "mark", !.keys = run.keys]
  /\ past' = [past EXCEPT !.raced = FALSE]
  /\ UNCHANGED <<world, kept, run>>

MarkSeen ==
  /\ conn.at = "mark" /\ Quiet
  /\ conn' = [conn EXCEPT !.at = "connect", !.changed = FALSE]
  /\ UNCHANGED <<world, kept, run, past>>

(* The first session lets the services start, the key task among them.      *)
Connect ==
  /\ conn.at = "connect" /\ Quiet
  /\ conn' = [conn EXCEPT !.at = "up"]
  /\ run' = IF run.at = "link" THEN [run EXCEPT !.at = "ask"] ELSE run
  /\ UNCHANGED <<world, kept, past>>

Reconnect ==
  /\ conn.at = "up" /\ conn.changed /\ Quiet
  /\ conn' = [conn EXCEPT !.at = "down"]
  /\ UNCHANGED <<world, kept, run, past>>

(* The mediator is not reached, or the session ends.                        *)
Drop ==
  /\ conn.at \in {"connect", "up"} /\ Happens("drop")
  /\ conn' = [conn EXCEPT !.at = "down"]
  /\ UNCHANGED <<world, kept, run, past>>

-----------------------------------------------------------------------------
KeyTask == Start \/ Load \/ Apply \/ Refuse \/ Wake("tick") \/ Ask \/ Baseline \/ Check
Session == ReadKeys \/ MarkSeen \/ Connect \/ Reconnect

Next ==
  \/ KeyTask \/ Session
  \/ Wake("hup") \/ Fail \/ MirrorTimes \/ Drop
  \/ MintKey \/ (\E k \in Keys : List(k) \/ Unlist(k) \/ Withdraw(k)) \/ Tick \/ Crash

(* The timer ticks for ever, and the session is dialled again for ever.     *)
Spec == Init /\ [][Next]_vars /\ WF_vars(KeyTask) /\ WF_vars(Session)

-----------------------------------------------------------------------------
(* No signature a verifier cannot check: once a key was recorded as listed  *)
(* for the horizon, a key is put in service only when every copy of the     *)
(* document a verifier may still hold lists it, across restarts, failures   *)
(* and keys that come back (SigningPolicy, vta.rs:464).                     *)
SignsKnown == ~past.hasty

(* The signing key never moves back to one seen listed earlier, unless it   *)
(* is no longer listed or no longer released (SigningPolicy::choose).       *)
MovesOn ==
  run.keys.signs # None /\ run'.keys.signs \notin {None, run.keys.signs}
    => \/ run.keys.signs \notin Usable
       \/ run'.first[run'.keys.signs] >= run'.first[run.keys.signs]

(* Keys just taken up are not due for a switch: the next check exports      *)
(* nothing again, but for a newer key listed that the VTA does not release  *)
(* (refresh_keys, vta.rs:610; SigningPolicy::switch_due).                   *)
ExportsEnd ==
  Apply => \/ ~SwitchDue(run'.first, run'.keys.signs, run.clock)
           \/ world.listed \ run.asked # {}

(* A session that will not be told of a change has the keys in service,     *)
(* unless they changed between its reading them and its marking the         *)
(* rotations as seen (lib.rs run: the mediator session).                    *)
SessionFollows ==
  conn.at = "up" /\ ~conn.changed /\ ~past.raced => conn.keys = run.keys

(* The keys in service are those the document lists and the VTA releases;   *)
(* with none, those there were stay.                                        *)
Due == world.released \cap world.listed
KeysCurrent ==
  Due # {} => /\ Due \subseteq run.keys.held /\ run.keys.held \subseteq world.listed
              /\ run.keys.signs \in Due

Switched ==
  \A k \in Due : run.first[k] > run.first[run.keys.signs] => run.first[k] + Horizon > world.now

(* A rotation is taken up in the end, a switch that is due is made, and the *)
(* session follows, unless the last check is of a moment the keys were not  *)
(* loaded in (refresh_keys, vta.rs:610; lib.rs run).                        *)
TakenUp ==
  \/ Due = {}
  \/ past.blind /\ run.last = View
  \/ /\ KeysCurrent /\ Switched
     /\ conn.at = "up" /\ (past.raced \/ conn.keys = run.keys)
=============================================================================
