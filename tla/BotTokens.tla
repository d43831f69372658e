------------------------------ MODULE BotTokens ------------------------------
(***************************************************************************)
(* The rotation of a Forgejo bot's token: minted at the forge and put in    *)
(* use (vgi-forge-forgejo/src/forge.rs mint_token), stored, written to the  *)
(* VTA in VTA mode, and only then the old one deleted                       *)
(* (vgi-bridge/src/flows.rs rotate_forgejo_tokens).                         *)
(*                                                                          *)
(* The bridge may crash between any two steps and starts again with the     *)
(* durable copy; the operator may store a token of their own, in VTA mode   *)
(* also under a running bridge; tokens of other people are the same bot's,  *)
(* and may end in the same eight characters.                                *)
(***************************************************************************)
EXTENDS Naturals, FiniteSets

CONSTANTS MaxTokens,  \* bounds the tokens ever made
          Plans       \* the mode, the tail of each token, and how often each
              \*   event may happen in a behaviour

Events == {"crash", "tick", "set", "refused", "lost", "unlike", "unstored", "slow", "stays"}
Tokens == 1..MaxTokens
None == 0
Original == 1        \* what the operator stored first
Others == 2       \* another bridge's, or a person's
Clocks == {"none", "fresh", "due"}

VARIABLES
  live,    \* the bot's tokens at the forge
  made,    \* how many were ever made
  kept,    \* the durable copy: the store, or in VTA mode the VTA
  run,     \* the bridge's process
  past,    \* history: what it had in use, what it deleted, what faults left
  plan, count

vars == <<live, made, kept, run, past, plan, count>>

Steps == {"idle", "verify", "store", "stamp", "flush", "retire"}
Stopped == [up |-> FALSE, token |-> None, tracked |-> None, minted |-> None,
            mem |-> None, clock |-> "none",
            at |-> "idle", previous |-> None, pending |-> {}, seen |-> None, halted |-> FALSE]
Started ==
  [Stopped EXCEPT !.up = TRUE, !.token = kept.token, !.mem = kept.token, !.clock = kept.clock,
                  !.seen = kept.token]

TypeOK ==
  /\ plan \in [mode : {"file", "vta"}, tail : [Tokens -> Nat], events : [Events -> Nat]]
  /\ live \subseteq Tokens /\ made \in Tokens
  /\ kept \in [token : Tokens, clock : Clocks]
  /\ run \in [up : BOOLEAN, token : Tokens \cup {None}, tracked : Tokens \cup {None},
              minted : Tokens \cup {None}, mem : Tokens \cup {None}, clock : Clocks, at : Steps,
              previous : Tokens \cup {None}, pending : SUBSET {"secret", "clock"},
              seen : Tokens \cup {None}, halted : BOOLEAN]
  /\ past \in [used : SUBSET Tokens, deleted : SUBSET Tokens, faults : Nat]

Init ==
  /\ plan \in Plans /\ count = [e \in Events |-> 0]
  /\ live = {Original, Others} /\ made = Others
  /\ kept = [token |-> Original, clock |-> "none"]
  /\ run = Stopped
  /\ past = [used |-> {}, deleted |-> {}, faults |-> 0]

Quiet == UNCHANGED <<plan, count>>
Happens(e) ==
  /\ count[e] < plan.events[e]
  /\ count' = [count EXCEPT ![e] = @ + 1]
  /\ UNCHANGED plan
(* An event that may leave one more live token behind.                      *)
Fault(e) == Happens(e) /\ past' = [past EXCEPT !.faults = @ + 1]

Idle(r) == [r EXCEPT !.at = "idle", !.minted = None, !.previous = None]

-----------------------------------------------------------------------------
(* The world around the rotation.                                           *)

Start ==
  /\ ~run.up /\ Quiet
  /\ run' = Started
  /\ past' = [past EXCEPT !.used = @ \cup {kept.token}]
  /\ UNCHANGED <<live, made, kept>>

Crash ==
  /\ run.up /\ Fault("crash")
  /\ run' = Stopped
  /\ UNCHANGED <<live, made, kept>>

Older(c) == IF c = "fresh" THEN "due" ELSE c
Tick ==
  /\ Happens("tick")
  /\ kept' = [kept EXCEPT !.clock = Older(@)]
  /\ run' = [run EXCEPT !.clock = Older(@)]
  /\ UNCHANGED <<live, made, past>>

(* `secret set': the store is the running bridge's alone; the VTA is not.   *)
Set ==
  /\ plan.mode = "file" => ~run.up
  /\ made < MaxTokens /\ Fault("set")
  /\ made' = made + 1 /\ live' = live \cup {made + 1}
  /\ kept' = [kept EXCEPT !.token = made + 1]
  /\ UNCHANGED run

(* The mirror's task: one change at a time, each only over the version this *)
(* host saw; the bridge writes nothing after a conflict.                    *)
Mirror(item) ==
  /\ run.up /\ item \in run.pending /\ ~run.halted /\ Quiet
  /\ IF item = "secret" /\ kept.token # run.seen
     THEN run' = [run EXCEPT !.halted = TRUE] /\ UNCHANGED kept
     ELSE /\ run' = [run EXCEPT !.pending = @ \ {item},
                                !.seen = IF item = "secret" THEN run.mem ELSE @]
          /\ kept' = IF item = "secret" THEN [kept EXCEPT !.token = run.mem]
                     ELSE [kept EXCEPT !.clock = run.clock]
  /\ UNCHANGED <<live, made, past>>

-----------------------------------------------------------------------------
(* A put to the store: durable at once, or in VTA mode once it is mirrored. *)
Put(item, r) ==
  IF plan.mode = "vta"
  THEN run' = [r EXCEPT !.pending = @ \cup {item}] /\ UNCHANGED kept
  ELSE /\ run' = [r EXCEPT !.seen = r.mem]
       /\ kept' = IF item = "secret" THEN [kept EXCEPT !.token = r.mem]
                  ELSE [kept EXCEPT !.clock = r.clock]

(* The first run starts the clock: the operator has just stored the token.  *)
StartClock ==
  /\ run.up /\ run.at = "idle" /\ run.clock = "none" /\ Quiet
  /\ Put("clock", [run EXCEPT !.clock = "fresh"])
  /\ UNCHANGED <<live, made, past>>

(* What the new token replaces: the one this adapter minted, or the only one*)
(* listed with the tail of the token in use.                                *)
SameTail == {t \in live : plan.tail[t] = plan.tail[run.token]}
Previous ==
  IF run.tracked # None THEN run.tracked
  ELSE IF \E t \in SameTail : SameTail = {t} THEN CHOOSE t \in SameTail : TRUE
  ELSE None

Due == run.up /\ run.at = "idle" /\ run.clock = "due"
(* Made at the forge; the answer may be lost.                               *)
Mint ==
  /\ Due /\ made < MaxTokens
  /\ made' = made + 1 /\ live' = live \cup {made + 1}
  /\ \/ /\ run' = [run EXCEPT !.at = "verify", !.minted = made + 1, !.previous = Previous]
        /\ Quiet
        /\ past' = [past EXCEPT !.faults = IF Previous = None THEN @ + 1 ELSE @]
     \/ Fault("lost") /\ UNCHANGED run
  /\ UNCHANGED kept
MintFails ==
  /\ Due /\ Happens("refused")
  /\ UNCHANGED <<live, made, kept, run, past>>

(* Checked to be the bot's before it is in use; what is not is deleted, if  *)
(* the forge lets it.                                                       *)
InUse(r) == [r EXCEPT !.at = "store", !.token = r.minted, !.tracked = r.minted]
Verify ==
  /\ run.up /\ run.at = "verify" /\ Quiet
  /\ run' = InUse(run)
  /\ past' = [past EXCEPT !.used = @ \cup {run.minted}]
  /\ UNCHANGED <<live, made, kept>>
VerifyFails ==
  /\ run.up /\ run.at = "verify" /\ Fault("unlike")
  /\ run' = Idle(run)
  /\ live' \in {live, live \ {run.minted}}
  /\ UNCHANGED <<made, kept>>

AfterPutAtOnce == "retire"
AfterPut == "flush"
Persist ==
  /\ run.up /\ run.at = "store" /\ Quiet
  /\ Put("secret", [run EXCEPT !.at = "stamp", !.mem = run.minted])
  /\ UNCHANGED <<live, made, past>>
PersistFails ==
  /\ run.up /\ run.at = "store" /\ Fault("unstored")
  /\ run' = Idle(run)
  /\ UNCHANGED <<live, made, kept>>
Rotated(r) == [r EXCEPT !.at = AfterPut, !.clock = "fresh"]
Stamp ==
  /\ run.up /\ run.at = "stamp" /\ Quiet
  /\ Put("clock", Rotated(run))
  /\ UNCHANGED <<live, made, past>>

(* Everything is durable, or half a minute went by: the old one is kept.    *)
Flush ==
  /\ run.up /\ run.at = "flush"
  /\ \/ run.pending = {} /\ Quiet /\ run' = [run EXCEPT !.at = "retire"] /\ UNCHANGED past
     \/ run.pending # {} /\ Fault("slow") /\ run' = Idle(run)
     \/ /\ run.halted /\ Quiet /\ run' = Idle(run)
        /\ past' = [past EXCEPT !.faults = @ + 1]
  /\ UNCHANGED <<live, made, kept>>

(* Exactly the one replaced, never the one in use.                          *)
Retired(r) == {r.previous} \ {None, r.tracked}
Retire ==
  /\ run.up /\ run.at = "retire"
  /\ \/ /\ Quiet /\ live' = live \ Retired(run)
        /\ past' = [past EXCEPT !.deleted = @ \cup Retired(run)]
     \/ Fault("stays") /\ UNCHANGED live
  /\ run' = Idle(run)
  /\ UNCHANGED <<made, kept>>

-----------------------------------------------------------------------------
Rotation == StartClock \/ Mint \/ Verify \/ Persist \/ Stamp \/ Flush \/ Retire
Work == Start \/ Rotation \/ \E item \in {"secret", "clock"} : Mirror(item)
Next == Work \/ MintFails \/ VerifyFails \/ PersistFails \/ Crash \/ Tick \/ Set

(* The bridge is started again, its hourly round and its mirror go on.      *)
Spec == Init /\ [][Next]_vars /\ WF_vars(Work)

-----------------------------------------------------------------------------
(* Never a dead credential (flows.rs:826-829): neither what the bridge runs *)
(* with nor what it or another host would start with was deleted, whatever  *)
(* crashed, failed or was not mirrored in between.                          *)
NeverDead == kept.token \in live /\ (run.up => run.token \in live)

(* Only a token that the bridge itself ran with is deleted, never another   *)
(* bridge's or a person's (forge.rs:383-386).                               *)
OnlyReplaced == past.deleted \subseteq past.used

(* A fault leaves at worst one extra live token (flows.rs:828): of those    *)
(* made for the bridge all others but the one in use and the one on its way *)
(* in or out are gone.                                                      *)
Ours == live \ {Others}
ExtrasAreFaults ==
  Cardinality(Ours \ {kept.token, run.token, run.minted, run.previous}) <= past.faults

(* What is due is rotated in the end, whatever failed before.               *)
DueIsRotated == []<>(run.clock # "due")
=============================================================================
