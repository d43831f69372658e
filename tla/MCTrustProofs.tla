---------------------------- MODULE MCTrustProofs ----------------------------
(* Whom the checks believe, and who acts and signs: what the run TrustWork  *)
(* checks of its parts, for any constants that satisfy their assumptions.   *)
(* A behaviour is of one part, so each part has its own invariant:          *)
(*                                                                          *)
(* BotInv    what is known of the bot's tokens at each step of a rotation,  *)
(*           and that every live token nobody knows of was paid for by a    *)
(*           fault: one more once the token replaced cannot be told;        *)
(* DocInv    when a job's record goes, every document of the job is too old *)
(*           to be looked at; what was resolved is believed no longer than  *)
(*           its lifetime;                                                  *)
(* MeetInv   who holds the lock holds a session that neither failed nor was *)
(*           closed, and the registry's frames say what it did;             *)
(* AskInv    an id is of one query under way, what was said to it is what   *)
(*           the registry thought at some moment since, and every check     *)
(*           that waits has its waiter, or its reply being handed to it;    *)
(* SignInv   what a removal beside which nobody set the key up again, and of*)
(*           which no step failed, has undone so far stays undone; what a   *)
(*           removal took in hand is still its own, nobody's, or of one set *)
(*           up beside it; a commit has seen what is selected; and while    *)
(*           commands do not overlap whoever has credentials is an allowed  *)
(*           signer or is being made one.                                   *)
(*                                                                          *)
(* IInv      whom a platform merge still waits for is only other platform   *)
(*           merges, whoever signed has his verdict, and who passes for     *)
(*           good is vouched for: so that a commit passes if and only if it *)
(*           is vouched for, in whatever order the merges are settled, and  *)
(*           though a parent chain were cyclic.                             *)
EXTENDS MCTrust, FiniteSetTheorems, TLAPS

-----------------------------------------------------------------------------
(* The range's verdicts.                                                    *)

Platform(c) ==
  range[c].sign.armor = "pgp" /\ range[c].sign.holds /\ range[c].sign.key = "exempt"

Early == {"unsigned", "malformed", "conflicting", "nobody", "unresolved", "unknownKey",
          "bad", "pgpRejected", "valid", "exempt"}

(* The invariant of the rounds: whom a platform merge still waits for is    *)
(* only other platform merges; whoever signed has his verdict; who passes   *)
(* for good is vouched for; and a merge that does not, though it is clean,  *)
(* has a parent that does not pass for good either.                         *)
WaitingArePlatforms == \A c \in undecided : Platform(c) /\ status[c] = "exempt"
SignedAreTrusted == \A c \in Commits : Signed(c) => status[c] = "trusted"
PassingAreVouched == \A c \in Commits \ undecided : Passes(status[c]) => c \in Vouched
FailsForGood(p) ==
  p \notin OnBranch /\ (p \in Commits => p \notin undecided /\ ~Passes(status[p]))
FailingHaveAReason ==
  \A c \in Commits \ undecided :
    Merges(c) /\ ~Passes(status[c]) => \E p \in ParentsOf(c) : FailsForGood(p)
Rounds ==
  WaitingArePlatforms /\ SignedAreTrusted /\ PassingAreVouched /\ FailingHaveAReason

IInv ==
  /\ TypeOK
  /\ at = "registry" => status = [c \in Commits |-> Checked(range[c].sign)]
  /\ at \in {"merges", "done"} => Rounds
  /\ at = "done" => undecided = {}

-----------------------------------------------------------------------------
(* What the signature check finds (lib.rs:923 check_commit_signature).      *)

LEMMA CheckedIsEarly ==
  ASSUME NEW s \in Signatures
  PROVE  Checked(s) \in Early
<1>1. BySigner(s) \in {"unresolved", "unknownKey", "bad", "valid"}
  BY DEF BySigner
<1>2. SshChecked(s) \in {"nobody", "conflicting", "unresolved", "unknownKey", "bad", "valid"}
  BY <1>1 DEF SshChecked
<1>3. s.armor \in {"none", "cut", "pgp", "ssh"}
  BY DEF Signatures
<1>4. QED
  BY <1>2, <1>3 DEF Checked, Early

LEMMA CheckedExempt ==
  ASSUME NEW s \in Signatures
  PROVE  Checked(s) = "exempt" <=> s.armor = "pgp" /\ s.holds /\ s.key = "exempt"
<1>1. SshChecked(s) # "exempt"
  BY DEF SshChecked, BySigner
<1>2. s.armor \in {"none", "cut", "pgp", "ssh"}
  BY DEF Signatures
<1>3. QED
  BY <1>1, <1>2 DEF Checked

LEMMA BySignerOf ==
  ASSUME NEW s \in Signatures, NEW d \in Dids, s.names = {d}
  PROVE  BySigner(s) = "valid" <=> s.key \in Publishes[d] /\ s.holds
<1>1. (CHOOSE x \in Dids : s.names = {x}) = d
  OBVIOUS
<1>2. QED
  BY <1>1 DEF BySigner

LEMMA CheckedValid ==
  ASSUME NEW s \in Signatures
  PROVE  Checked(s) = "valid" <=>
           /\ s.armor = "ssh" /\ s.holds
           /\ \E d \in Dids : s.names = {d} /\ s.key \in Publishes[d]
<1>1. s.armor \in {"none", "cut", "pgp", "ssh"} /\ s.names \in SUBSET Dids
  BY DEF Signatures
<1>2. Checked(s) = "valid" <=> s.armor = "ssh" /\ SshChecked(s) = "valid"
  BY <1>1 DEF Checked
<1>3. SshChecked(s) = "valid" <=>
        (\E d \in Dids : s.names = {d}) /\ BySigner(s) = "valid"
  BY <1>1 DEF SshChecked
<1>4. ASSUME NEW d \in Dids, s.names = {d}
      PROVE  BySigner(s) = "valid" <=> s.key \in Publishes[d] /\ s.holds
  BY <1>4, BySignerOf
<1>5. QED
  BY <1>2, <1>3, <1>4

-----------------------------------------------------------------------------
(* The reference.                                                           *)

(* Vouched is itself closed, and within every closed set.                   *)
LEMMA VouchedIsClosed == Closed(Vouched)
<1> SUFFICES ASSUME NEW c \in Commits,
                    Signed(c) \/ (Merges(c) /\ ParentsOf(c) \subseteq Vouched \cup OnBranch),
                    NEW S \in SUBSET Commits, Closed(S)
             PROVE  c \in S
  BY DEF Closed, Vouched
<1>1. Vouched \subseteq S
  BY DEF Vouched
<1>2. QED
  BY <1>1 DEF Closed

LEMMA VouchedStays ==
  ASSUME UNCHANGED <<range, decides>>
  PROVE  /\ Vouched' = Vouched
         /\ \A c : Signed(c)' = Signed(c) /\ Merges(c)' = Merges(c)
                     /\ ParentsOf(c)' = ParentsOf(c) /\ Platform(c)' = Platform(c)
<1>1. /\ \A c : Signed(c)' = Signed(c) /\ Merges(c)' = Merges(c)
                   /\ ParentsOf(c)' = ParentsOf(c) /\ Platform(c)' = Platform(c)
  BY DEF Signed, Merges, ParentsOf, Platform, Names
<1>2. \A S : Closed(S)' = Closed(S)
  BY <1>1 DEF Closed
<1>3. QED
  BY <1>1, <1>2 DEF Vouched

-----------------------------------------------------------------------------
(* Every step keeps the invariant.                                          *)

LEMMA InitHolds == Init => IInv
<1> SUFFICES ASSUME Init PROVE IInv
  OBVIOUS
<1>1. TypeOK
  BY RangesAssumption DEF Init, TypeOK, Statuses
<1>2. QED
  BY <1>1 DEF IInv, Init

(* Pass 2 gives whoever signed the registry's word.                         *)
LEMMA QueryRegistryHolds ==
  ASSUME IInv, QueryRegistry
  PROVE  IInv'
<1> USE DEF QueryRegistry
<1>1. \A c \in Commits :
        /\ range[c].sign \in Signatures
        /\ status[c] = Checked(range[c].sign)
        /\ status[c] \in Early
  BY CheckedIsEarly DEF IInv, TypeOK, CommitRanges
<1>2. ASSUME NEW c \in Commits, status[c] = "valid"
      PROVE  \E d \in Dids : /\ Names(c) = {d} /\ status'[c] = StatusOf(decides[d])
                             /\ decides[d] \in Decisions
                             /\ Signed(c) <=> decides[d] = "granted"
  <2>1. PICK d \in Dids : Names(c) = {d} /\ range[c].sign.key \in Publishes[d]
    BY <1>1, <1>2, CheckedValid DEF Names
  <2>2. (CHOOSE x \in Dids : Names(c) = {x}) = d
    BY <2>1
  <2>3. status'[c] = StatusOf(decides[d])
    BY <1>2, <2>2
  <2>4. range[c].sign.armor = "ssh" /\ range[c].sign.holds
    BY <1>1, <1>2, CheckedValid
  <2>5. Signed(c) <=> decides[d] = "granted"
    BY <2>1, <2>4 DEF Signed
  <2>6. QED
    BY <2>1, <2>3, <2>5 DEF IInv, TypeOK
<1>3. ASSUME NEW c \in Commits, status[c] # "valid"
      PROVE  status'[c] = status[c] /\ ~Signed(c)
  BY <1>1, <1>3, CheckedValid DEF Signed, Names
<1>4. TypeOK'
  <2>1. \A c \in Commits : status'[c] \in Statuses
    BY <1>1, <1>2, <1>3 DEF Early, Statuses, StatusOf, Decisions
  <2>2. QED
    BY <2>1 DEF IInv, TypeOK
<1>5. WaitingArePlatforms'
  BY <1>1, <1>3, CheckedExempt, VouchedStays DEF WaitingArePlatforms, Platform
<1>6. SignedAreTrusted'
  BY <1>2, <1>3, VouchedStays DEF SignedAreTrusted, StatusOf
<1>7. PassingAreVouched'
  <2> SUFFICES ASSUME NEW c \in Commits, c \notin undecided', Passes(status'[c])
               PROVE  c \in Vouched
    BY VouchedStays DEF PassingAreVouched, Passes
  <2>1. status[c] = "valid"
    BY <1>1, <1>3 DEF Passes, Early
  <2>2. Signed(c)
    BY <2>1, <1>2 DEF Passes, StatusOf, Decisions
  <2>3. QED
    BY <2>2, VouchedIsClosed DEF Closed
<1>8. FailingHaveAReason'
  BY <1>1, CheckedExempt, VouchedStays DEF FailingHaveAReason, Merges
<1>9. QED
  BY <1>4, <1>5, <1>6, <1>7, <1>8 DEF IInv, Rounds

(* A round judges right whom it judges.                                     *)
LEMMA SettleHolds ==
  ASSUME IInv, Settle
  PROVE  IInv'
<1> DEFINE ready == {c \in undecided : Ready(c)}
<1>1. Rounds /\ TypeOK /\ UNCHANGED <<range, decides, at>> /\ at = "merges"
  BY DEF IInv, Settle
<1> USE DEF Rounds
<1>a. \A c \in undecided : c \in Commits /\ ~Signed(c)
  BY <1>1 DEF WaitingArePlatforms, SignedAreTrusted, TypeOK
<1>2. CASE ready = {}
  <2>1. /\ status' = [c \in Commits |->
                        IF c \in undecided THEN "unverifiedParent" ELSE status[c]]
        /\ undecided' = {}
    BY <1>2 DEF Settle
  <2>2. \A c \in undecided : \E p \in ParentsOf(c) : p \in undecided
    BY <1>2 DEF Ready, Waits
  <2>3. TypeOK'
    BY <1>1, <2>1 DEF TypeOK, Statuses
  <2>4. WaitingArePlatforms' /\ SignedAreTrusted'
    BY <1>1, <1>a, <2>1, VouchedStays DEF WaitingArePlatforms, SignedAreTrusted
  <2>5. PassingAreVouched'
    BY <1>1, <2>1, VouchedStays DEF PassingAreVouched, Passes
  <2>6. FailingHaveAReason'
    <3> SUFFICES ASSUME NEW c \in Commits, Merges(c), ~Passes(status'[c])
                 PROVE  \E p \in ParentsOf(c) : FailsForGood(p)'
      BY <1>1, VouchedStays DEF FailingHaveAReason, Passes
    <3>1. CASE c \in undecided
      <4>1. PICK p \in ParentsOf(c) : p \in undecided
        BY <2>2, <3>1
      <4>2. FailsForGood(p)'
        BY <1>a, <2>1, <4>1, OutsideAssumption DEF FailsForGood, Passes
      <4>3. QED
        BY <4>2
    <3>2. CASE c \notin undecided
      <4>1. PICK p \in ParentsOf(c) : FailsForGood(p)
        BY <1>1, <2>1, <3>2 DEF FailingHaveAReason
      <4>2. FailsForGood(p)'
        BY <2>1, <4>1 DEF FailsForGood, Passes
      <4>3. QED
        BY <4>2
    <3>3. QED
      BY <3>1, <3>2
  <2>7. QED
    BY <1>1, <2>1, <2>3, <2>4, <2>5, <2>6 DEF IInv
<1>3. CASE ready # {}
  <2>1. /\ status' = [c \in Commits |-> IF c \in ready THEN Judged(c) ELSE status[c]]
        /\ undecided' = undecided \ ready
    BY <1>3 DEF Settle, Rest
  <2>2. \A c \in Commits : Judged(c) \in Statuses
    BY DEF Judged, Statuses
  <2>3. TypeOK'
    BY <1>1, <2>1, <2>2 DEF TypeOK
  <2>4. WaitingArePlatforms' /\ SignedAreTrusted'
    BY <1>1, <1>a, <2>1, VouchedStays DEF WaitingArePlatforms, SignedAreTrusted, TypeOK
  <2>5. ASSUME NEW c \in ready, Judged(c) = "exempt"
        PROVE  c \in Vouched
    <3>1. /\ Len(range[c].parents) = 2 /\ CleanMerge(c)
          /\ \A p \in ParentsOf(c) : ~Fails(p) /\ p \notin undecided
      BY <2>5 DEF Judged, Ready, Waits, CleanMerge
    <3>2. Merges(c)
      BY <1>1, <3>1 DEF Merges, CleanMerge, WaitingArePlatforms, Platform
    <3>3. ParentsOf(c) \subseteq Vouched \cup OnBranch
      BY <1>1, <3>1 DEF Fails, PassingAreVouched
    <3>4. QED
      BY <1>a, <3>2, <3>3, VouchedIsClosed DEF Closed
  <2>6. PassingAreVouched'
    <3> SUFFICES ASSUME NEW c \in Commits, c \notin undecided', Passes(status'[c])
                 PROVE  c \in Vouched
      BY <1>1, VouchedStays DEF PassingAreVouched, Passes
    <3>1. CASE c \in ready
      BY <2>1, <2>5, <3>1 DEF Passes, Judged
    <3>2. CASE c \notin ready
      BY <1>1, <2>1, <3>2 DEF PassingAreVouched
    <3>3. QED
      BY <3>1, <3>2
  <2>7. FailingHaveAReason'
    <3> SUFFICES ASSUME NEW c \in Commits, c \notin undecided', Merges(c),
                        ~Passes(status'[c])
                 PROVE  \E p \in ParentsOf(c) : FailsForGood(p)'
      BY <1>1, VouchedStays DEF FailingHaveAReason, Passes
    <3>1. ASSUME NEW p \in ParentsOf(c), FailsForGood(p)
          PROVE  FailsForGood(p)'
      BY <2>1, <3>1 DEF FailsForGood, Passes
    <3>2. CASE c \in ready
      <4>1. Judged(c) # "exempt"
        BY <2>1, <3>2 DEF Passes
      <4>2. PICK p \in ParentsOf(c) : Fails(p)
        BY <4>1 DEF Judged, Merges, CleanMerge
      <4>3. FailsForGood(p)
        BY <4>2, OutsideAssumption DEF Fails, FailsForGood
      <4>4. QED
        BY <3>1, <4>3
    <3>3. CASE c \notin ready
      <4>1. PICK p \in ParentsOf(c) : FailsForGood(p)
        BY <1>1, <2>1, <3>3 DEF FailingHaveAReason
      <4>2. QED
        BY <3>1, <4>1
    <3>4. QED
      BY <3>2, <3>3
  <2>8. QED
    BY <1>1, <2>3, <2>4, <2>6, <2>7 DEF IInv
<1>4. QED
  BY <1>2, <1>3

LEMMA NextHolds == IInv /\ [Next]_vars => IInv'
<1> SUFFICES ASSUME IInv, [Next]_vars PROVE IInv'
  OBVIOUS
<1>1. CASE Claims
  BY <1>1 DEF Claims, IInv, TypeOK
<1>2. CASE CheckSignatures
  <2>1. \A c \in Commits : Checked(range[c].sign) \in Statuses
    BY CheckedIsEarly DEF IInv, TypeOK, CommitRanges, Early, Statuses
  <2>2. TypeOK'
    BY <1>2, <2>1 DEF CheckSignatures, IInv, TypeOK
  <2>3. status' = [c \in Commits |-> Checked(range'[c].sign)] /\ at' = "registry"
    BY <1>2 DEF CheckSignatures
  <2>4. QED
    BY <2>2, <2>3 DEF IInv
<1>3. CASE QueryRegistry
  BY <1>3, QueryRegistryHolds
<1>4. CASE Settle
  BY <1>4, SettleHolds
<1>5. CASE Report
  <2>1. Rounds' <=> Rounds
    BY <1>5, VouchedStays DEF Report, Rounds, WaitingArePlatforms, SignedAreTrusted,
       PassingAreVouched, FailingHaveAReason, FailsForGood, Passes
  <2>2. QED
    BY <1>5, <2>1 DEF Report, IInv, TypeOK
<1>6. CASE UNCHANGED vars
  <2>1. Rounds' <=> Rounds
    BY <1>6, VouchedStays DEF vars, Rounds, WaitingArePlatforms, SignedAreTrusted,
       PassingAreVouched, FailingHaveAReason, FailsForGood, Passes
  <2>2. TypeOK'
    BY <1>6 DEF vars, IInv, TypeOK
  <2>3. range' = range /\ status' = status /\ at' = at /\ undecided' = undecided
    BY <1>6 DEF vars
  <2>4. at = "registry" => status' = [c \in Commits |-> Checked(range'[c].sign)]
    BY <2>3 DEF IInv
  <2>5. QED
    BY <2>1, <2>2, <2>3, <2>4 DEF IInv
<1>7. QED
  BY <1>1, <1>2, <1>3, <1>4, <1>5, <1>6 DEF Next

-----------------------------------------------------------------------------
(* The state always has its type.                                           *)
THEOREM TypeCorrect == Spec => []TypeOK
<1>1. IInv => TypeOK
  BY DEF IInv
<1>2. QED
  BY InitHolds, NextHolds, <1>1, PTL DEF Spec

(* What the invariant says when the rounds are over: those that pass are    *)
(* closed under both ways to be vouched for, so they are all of these.      *)
LEMMA InvariantSuffices == IInv => PassesIffVouched
<1> SUFFICES ASSUME IInv, at = "done"
             PROVE  \A c \in Commits : Passes(status[c]) <=> c \in Vouched
  BY DEF PassesIffVouched
<1> DEFINE S == {c \in Commits : Passes(status[c])}
<1>1. Rounds /\ undecided = {}
  BY DEF IInv
<1>2. \A c \in Commits : Passes(status[c]) => c \in Vouched
  BY <1>1 DEF Rounds, PassingAreVouched
<1>3. Closed(S)
  <2> SUFFICES ASSUME NEW c \in Commits,
                      Signed(c) \/ (Merges(c) /\ ParentsOf(c) \subseteq S \cup OnBranch)
               PROVE  Passes(status[c])
    BY DEF Closed
  <2>1. CASE Signed(c)
    BY <1>1, <2>1 DEF Rounds, SignedAreTrusted, Passes
  <2>2. CASE Merges(c) /\ ParentsOf(c) \subseteq S \cup OnBranch
    <3> SUFFICES ASSUME ~Passes(status[c]) PROVE FALSE
      OBVIOUS
    <3>1. PICK p \in ParentsOf(c) : FailsForGood(p)
      BY <1>1, <2>2 DEF Rounds, FailingHaveAReason
    <3>2. QED
      BY <2>2, <3>1 DEF FailsForGood
  <2>3. QED
    BY <2>1, <2>2
<1>4. Vouched \subseteq S
  BY <1>3 DEF Vouched
<1>5. QED
  BY <1>2, <1>4

(* A commit passes if and only if it is vouched for: by its own signer,     *)
(* whom the registry authorises, or as a clean platform merge of parents    *)
(* that are (lib.rs:602 apply_platform_merge_policy).                       *)
THEOREM Vouching == Spec => []PassesIffVouched
BY InitHolds, NextHolds, InvariantSuffices, PTL DEF Spec

-----------------------------------------------------------------------------
(* The bot's token.                                                         *)

(* What the bridge knows of its tokens at each step of a rotation.          *)
LiveKnown ==
  /\ Bots!Others <= made /\ live \subseteq 1..made
  /\ kept.token \in live /\ kept.token # Bots!Others
  /\ past.deleted \subseteq past.used
ProcessKnown ==
  /\ run.mem <= made
  /\ ~run.up => run = Bots!Stopped
  /\ run.up => /\ run.token \in live \cap past.used /\ run.token # Bots!Others
               /\ run.tracked \in {Bots!None, run.token} /\ run.mem # Bots!None
PendingKnown ==
  /\ "secret" \in run.pending => run.mem \in live /\ run.mem # Bots!Others
  /\ plan.mode = "file" => run.pending = {}
RotationKnown ==
  /\ run.at = "idle" => run.minted = Bots!None /\ run.previous = Bots!None
  /\ run.at # "idle" =>
       /\ run.minted \in live /\ run.minted # Bots!Others
       /\ run.previous < run.minted
       /\ run.previous # Bots!None =>
            run.previous \in live \cap past.used /\ run.previous # Bots!Others
  /\ run.at \in {"verify", "store"} => run.mem < run.minted /\ kept.token # run.minted
  /\ run.at = "verify" => run.token # run.minted
  /\ run.at \in {"store", "stamp", "flush", "retire"} =>
       run.token = run.minted /\ run.tracked = run.minted
  /\ run.at \in {"stamp", "flush", "retire"} =>
       /\ run.mem = run.minted
       /\ "secret" \notin run.pending => kept.token # run.previous
  /\ run.at = "retire" => run.pending = {}

(* The token on its way in until it is durable, the one on its way out      *)
(* then; what is neither of these nor durable was left by a fault; and one  *)
(* that replaces an unidentified one was counted ahead.                     *)
Unsaved == run.at \in {"verify", "store"} \/ "secret" \in run.pending
OnTheWay == IF Unsaved THEN run.minted ELSE run.previous
Extra == Bots!Ours \ {kept.token, OnTheWay}
Ahead == IF run.at # "idle" /\ Unsaved /\ run.previous = Bots!None THEN 1 ELSE 0
ExtrasCounted == Cardinality(Extra) + Ahead <= past.faults

BotKnown == Bots!TypeOK /\ LiveKnown /\ ProcessKnown /\ PendingKnown /\ RotationKnown
BotInv == BotKnown /\ ExtrasCounted

(* The steps of the process that rotates, and those of the world around it.*)
LEMMA BotSteps ==
  Bots!Next =>
    \/ Bots!Start \/ Bots!StartClock \/ Bots!Mint \/ Bots!Verify \/ Bots!Persist \/ Bots!Stamp
    \/ Bots!Flush \/ Bots!Retire \/ Bots!Mirror("secret") \/ Bots!Mirror("clock")
    \/ Bots!MintFails \/ Bots!VerifyFails \/ Bots!PersistFails \/ Bots!Crash \/ Bots!Tick \/ Bots!Set
BY DEF Bots!Next, Bots!Work, Bots!Rotation

(* It begins with one token, live and kept.                                *)
LEMMA BotInit == Bots!Init => Bots!TypeOK /\ LiveKnown /\ ProcessKnown /\ PendingKnown /\ RotationKnown
<1> SUFFICES ASSUME Bots!Init PROVE Bots!TypeOK /\ LiveKnown /\ ProcessKnown /\ PendingKnown /\ RotationKnown
  OBVIOUS
<1> USE DEF Bots!None, Bots!Original, Bots!Others, Bots!Tokens, Bots!Clocks, Bots!Steps
<1>1. Bots!TypeOK
  BY TokensAssumption DEF Bots!Init, Bots!TypeOK, Bots!Stopped
<1> QED BY <1>1 DEF Bots!Init, Bots!Stopped, LiveKnown, ProcessKnown, PendingKnown, RotationKnown


(* The types, part by part.                                                 *)
TokenOrNone == Bots!Tokens \cup {Bots!None}
Runs == [up : BOOLEAN, token : TokenOrNone, tracked : TokenOrNone, minted : TokenOrNone,
         mem : TokenOrNone, clock : Bots!Clocks, at : Bots!Steps, previous : TokenOrNone,
         pending : SUBSET {"secret", "clock"}, seen : TokenOrNone, halted : BOOLEAN]
Copies == [token : Bots!Tokens, clock : Bots!Clocks]
TokenPasts == [used : SUBSET Bots!Tokens, deleted : SUBSET Bots!Tokens, faults : Nat]
PlanOK ==
  plan \in [mode : {"file", "vta"}, tail : [Bots!Tokens -> Nat], events : [Bots!Events -> Nat]]

(* The type invariant, record by record.                                   *)
LEMMA BotParts ==
  Bots!TypeOK <=> /\ run \in Runs /\ kept \in Copies /\ past \in TokenPasts /\ PlanOK
                  /\ live \subseteq Bots!Tokens /\ made \in Bots!Tokens
BY DEF Bots!TypeOK, Runs, Copies, TokenPasts, PlanOK, TokenOrNone

(* A put changes the durable copy at once, or waits for the mirror.         *)
LEMMA PutEffect ==
  ASSUME NEW item \in {"secret", "clock"}, NEW r \in Runs, Bots!Put(item, r),
         r.mem # Bots!None, kept \in Copies
  PROVE  /\ run' \in Runs /\ kept' \in Copies
         /\ run'.up = r.up /\ run'.token = r.token /\ run'.tracked = r.tracked
         /\ run'.minted = r.minted /\ run'.mem = r.mem /\ run'.at = r.at
         /\ run'.previous = r.previous
         /\ \/ /\ plan.mode = "vta" /\ kept' = kept
               /\ run'.pending = r.pending \cup {item}
            \/ /\ plan.mode # "vta" /\ run'.pending = r.pending
               /\ kept'.token = IF item = "secret" THEN r.mem ELSE kept.token
<1>1. CASE plan.mode = "vta"
  <2>1. run' = [r EXCEPT !.pending = @ \cup {item}] /\ kept' = kept
    BY <1>1 DEF Bots!Put
  <2>2. r.pending \cup {item} \in SUBSET {"secret", "clock"}
    BY DEF Runs
  <2> QED BY <1>1, <2>1, <2>2 DEF Runs
<1>2. CASE plan.mode # "vta"
  <2>1. run' = [r EXCEPT !.seen = r.mem]
    BY <1>2 DEF Bots!Put
  <2>2. kept' = IF item = "secret" THEN [kept EXCEPT !.token = r.mem]
                ELSE [kept EXCEPT !.clock = r.clock]
    BY <1>2 DEF Bots!Put
  <2>3. r.mem \in Bots!Tokens
    BY DEF Runs, TokenOrNone
  <2>4. run' \in Runs
    BY <2>1, <2>3 DEF Runs, TokenOrNone
  <2>5. kept' \in Copies
    BY <2>2, <2>3 DEF Runs, Copies
  <2> QED BY <1>2, <2>1, <2>2, <2>4, <2>5 DEF Runs, Copies
<1> QED BY <1>1, <1>2

(* Every step of a rotation, of a crash, a halt or a person's hand keeps it. *)
LEMMA BotKnownStep == BotKnown /\ Bots!Next => BotKnown'
<1> SUFFICES ASSUME BotKnown, Bots!Next PROVE BotKnown'
  OBVIOUS
<1>0. /\ run \in Runs /\ kept \in Copies /\ past \in TokenPasts /\ PlanOK
      /\ live \subseteq Bots!Tokens /\ made \in Bots!Tokens
      /\ LiveKnown /\ ProcessKnown /\ PendingKnown /\ RotationKnown
  BY BotParts DEF BotKnown
<1>b. /\ made \in Nat /\ 1 <= made
      /\ \A t \in live : t \in Nat /\ 1 <= t /\ t <= made
  BY <1>0, TokensAssumption DEF LiveKnown, ProcessKnown, PendingKnown, RotationKnown, Bots!Tokens
<1>c. /\ run.mem \in Nat /\ run.minted \in Nat /\ run.previous \in Nat /\ run.token \in Nat
      /\ run.tracked \in Nat
  BY <1>0, TokensAssumption DEF Runs, TokenOrNone, Bots!Tokens, Bots!None
<1>a. UNCHANGED plan => PlanOK'
  BY <1>0 DEF PlanOK
<1>d. ASSUME run' \in Runs, kept' \in Copies, past' \in TokenPasts, PlanOK',
             live' \subseteq Bots!Tokens, made' \in Bots!Tokens, LiveKnown', ProcessKnown', PendingKnown',
             RotationKnown'
      PROVE  BotKnown'
  BY <1>d, BotParts DEF BotKnown, Bots!TypeOK, Runs, Copies, TokenPasts, PlanOK, TokenOrNone
<1>e. ASSUME made' = made + 1, live' = live \cup {made + 1}
      PROVE  /\ live' \subseteq 1..made' /\ 2 <= made' /\ made + 1 # 2
             /\ \A t \in live : t < made + 1
  <2>1. /\ made + 1 \in 1..made' /\ 2 <= made' /\ made + 1 # 2
        /\ \A t \in live : t \in 1..made' /\ t < made + 1
    BY <1>0, <1>b, <1>e DEF LiveKnown, Bots!Others
  <2> QED BY <1>e, <2>1
<1> USE DEF Bots!None, Bots!Others, Bots!Quiet
<1>1. CASE Bots!Start
  <2>1. /\ run' \in Runs /\ run'.up /\ run'.at = "idle" /\ run'.pending = {}
        /\ run'.token = kept.token /\ run'.mem = kept.token /\ run'.tracked = 0
        /\ run'.minted = 0 /\ run'.previous = 0
    BY <1>0, <1>1 DEF Runs, Copies, TokenOrNone, Bots!Start, Bots!Started, Bots!Stopped,
       Bots!Steps, Bots!Clocks
  <2>2. /\ past' \in TokenPasts /\ past'.used = past.used \cup {kept.token}
        /\ past'.deleted = past.deleted
    BY <1>0, <1>1 DEF TokenPasts, Bots!Start, Copies
  <2>3. UNCHANGED <<plan, live, made, kept>>
    BY <1>1 DEF Bots!Start
  <2>4. LiveKnown'
    BY <1>0, <1>a, <1>b, <2>1, <2>2, <2>3 DEF LiveKnown, RotationKnown
  <2>5. ProcessKnown'
    <3>1. run'.mem <= made' /\ run'.mem # 0
      BY <1>0, <1>b, <2>1, <2>3 DEF LiveKnown
    <3>2. run'.token \in live' \cap past'.used /\ run'.token # 2
      BY <1>0, <2>1, <2>2, <2>3 DEF LiveKnown
    <3> QED BY <2>1, <3>1, <3>2 DEF ProcessKnown
  <2>6. PendingKnown'
    BY <1>0, <1>a, <1>b, <2>1, <2>2, <2>3 DEF ProcessKnown, PendingKnown, RotationKnown
  <2>7. RotationKnown'
    BY <1>0, <1>a, <1>b, <2>1, <2>2, <2>3 DEF LiveKnown, ProcessKnown, PendingKnown, RotationKnown
  <2> QED BY <1>0, <1>a, <1>b, <2>1, <2>2, <2>3, <1>d, <2>4, <2>5, <2>6, <2>7
<1>2. CASE Bots!StartClock
  <2> DEFINE r == [run EXCEPT !.clock = "fresh"]
  <2>1. /\ r \in Runs /\ r.up /\ r.at = "idle" /\ r.minted = 0 /\ r.previous = 0
        /\ r.token = run.token /\ r.tracked = run.tracked /\ r.mem = run.mem
        /\ r.pending = run.pending
    BY <1>0, <1>2 DEF Runs, Bots!StartClock, Bots!Clocks, RotationKnown
  <2>2. Bots!Put("clock", r) /\ run.up /\ UNCHANGED <<plan, live, made, past>>
    BY <1>2 DEF Bots!StartClock
  <2> HIDE DEF r
  <2>3. /\ run' \in Runs /\ kept' \in Copies
        /\ run'.up = r.up /\ run'.token = r.token /\ run'.tracked = r.tracked
        /\ run'.minted = r.minted /\ run'.mem = r.mem /\ run'.at = r.at
        /\ run'.previous = r.previous
        /\ \/ /\ plan.mode = "vta" /\ kept' = kept
              /\ run'.pending = r.pending \cup {"clock"}
           \/ /\ plan.mode # "vta" /\ run'.pending = r.pending
              /\ kept'.token = kept.token
    BY <1>0, <1>b, <1>c, <2>1, <2>2, PutEffect DEF LiveKnown, ProcessKnown, PendingKnown, RotationKnown
  <2>4. LiveKnown'
    BY <1>0, <1>a, <1>b, <1>c, <2>1, <2>2, <2>3 DEF LiveKnown, RotationKnown, PlanOK
  <2>5. ProcessKnown'
    BY <1>0, <1>a, <1>b, <1>c, <2>1, <2>2, <2>3 DEF LiveKnown, ProcessKnown, RotationKnown, PlanOK
  <2>6. PendingKnown'
    BY <1>0, <1>a, <1>b, <1>c, <2>1, <2>2, <2>3 DEF ProcessKnown, PendingKnown, RotationKnown, PlanOK
  <2>7. RotationKnown'
    BY <1>0, <1>a, <1>b, <1>c, <2>1, <2>2, <2>3 DEF LiveKnown, ProcessKnown, PendingKnown, RotationKnown, PlanOK
  <2> QED BY <1>0, <1>a, <1>b, <1>c, <2>1, <2>2, <2>3, <1>d, <2>4, <2>5, <2>6, <2>7
<1>3. CASE Bots!Mint
  <2>1. made + 1 \in Bots!Tokens /\ made' = made + 1 /\ live' = live \cup {made + 1}
        /\ kept' = kept /\ UNCHANGED plan /\ run.up /\ run.at = "idle"
    BY <1>0, <1>3, <1>b, TokensAssumption
       DEF Bots!Mint, Bots!Due, Bots!Tokens, Bots!Fault, Bots!Happens
  <2>2. past' \in TokenPasts /\ past'.used = past.used /\ past'.deleted = past.deleted
    BY <1>0, <1>3 DEF Bots!Mint, Bots!Fault, TokenPasts
  <2>3. CASE run' = [run EXCEPT !.at = "verify", !.minted = made + 1, !.previous = Bots!Previous]
    <3>1. Bots!Previous \in {0, run.token}
      <4>1. run.token \in live /\ run.tracked \in {0, run.token}
        BY <1>0, <2>1 DEF LiveKnown, ProcessKnown, PendingKnown, RotationKnown
      <4>2. run.token \in Bots!SameTail
        BY <4>1 DEF Bots!SameTail
      <4> QED BY <4>1, <4>2 DEF Bots!Previous
    <3>2. Bots!Previous \in TokenOrNone
      BY <1>0, <3>1 DEF Runs, TokenOrNone
    <3>3. /\ run' \in Runs /\ run'.up /\ run'.at = "verify" /\ run'.minted = made + 1
          /\ run'.previous \in {0, run.token} /\ run'.token = run.token /\ run'.mem = run.mem
          /\ run'.tracked = run.tracked /\ run'.pending = run.pending
      BY <1>0, <2>1, <2>3, <3>1, <3>2 DEF Runs, TokenOrNone, Bots!Steps
    <3>4. LiveKnown'
      <4>1. live' \subseteq 1..made' /\ kept'.token \in live' /\ 2 <= made'
        BY <1>0, <1>e, <2>1 DEF LiveKnown
      <4> QED BY <1>0, <2>1, <2>2, <4>1 DEF LiveKnown
    <3>5. ProcessKnown'
      BY <1>0, <1>a, <1>b, <1>c, <2>1, <2>2, <3>3 DEF LiveKnown, ProcessKnown, RotationKnown
    <3>6. PendingKnown'
      BY <1>0, <1>a, <1>b, <1>c, <2>1, <2>2, <3>3 DEF ProcessKnown, PendingKnown, RotationKnown
    <3>7. RotationKnown'
      <4>1. run'.minted \in live' /\ run'.minted # 2 /\ run'.previous < run'.minted
        <5>1. 0 < made + 1 /\ run.token < made + 1
          <6>1. run.token \in live
            BY <1>0, <2>1 DEF ProcessKnown
          <6> QED BY <1>b, <1>e, <2>1, <6>1
        <5> QED BY <1>e, <2>1, <3>3, <5>1
      <4>2. run'.previous # 0 => run'.previous \in live' \cap past'.used /\ run'.previous # 2
        BY <1>0, <2>1, <2>2, <3>3 DEF ProcessKnown
      <4>3. run'.mem < run'.minted /\ kept'.token # run'.minted /\ run'.token # run'.minted
        BY <1>0, <1>b, <1>c, <2>1, <3>3 DEF ProcessKnown, LiveKnown
      <4> QED BY <3>3, <4>1, <4>2, <4>3 DEF RotationKnown
    <3> QED BY <1>0, <1>a, <1>b, <1>c, <2>1, <2>2, <3>3, <1>d, <3>4, <3>5, <3>6, <3>7
  <2>4. CASE run' = run
    <3>1. LiveKnown'
      <4>1. live' \subseteq 1..made' /\ kept'.token \in live' /\ 2 <= made'
        BY <1>0, <1>e, <2>1 DEF LiveKnown
      <4> QED BY <1>0, <2>1, <2>2, <4>1 DEF LiveKnown
    <3>2. ProcessKnown'
      BY <1>0, <1>b, <1>c, <2>1, <2>2, <2>4 DEF ProcessKnown
    <3>3. PendingKnown' /\ RotationKnown'
      BY <1>0, <2>1, <2>2, <2>4 DEF PendingKnown, RotationKnown
    <3> QED BY <1>0, <1>a, <1>d, <2>1, <2>2, <2>4, <3>1, <3>2, <3>3
  <2> QED BY <1>3, <2>3, <2>4 DEF Bots!Mint
<1>4. CASE Bots!Verify
  <2>1. /\ run' \in Runs /\ run'.up = run.up /\ run'.at = "store" /\ run'.minted = run.minted
        /\ run'.token = run.minted /\ run'.tracked = run.minted /\ run'.mem = run.mem
        /\ run'.previous = run.previous /\ run'.pending = run.pending
    BY <1>0, <1>4 DEF Bots!Verify, Bots!InUse, Runs, Bots!Steps
  <2>2. /\ past' \in TokenPasts /\ past'.used = past.used \cup {run.minted}
        /\ past'.deleted = past.deleted
    BY <1>0, <1>4 DEF Bots!Verify, TokenPasts, RotationKnown
  <2>3. UNCHANGED <<plan, live, made, kept>> /\ run.at = "verify" /\ run.up
    BY <1>4 DEF Bots!Verify
  <2>4. LiveKnown'
    BY <1>0, <1>a, <1>b, <1>c, <2>1, <2>2, <2>3 DEF LiveKnown, RotationKnown
  <2>5. ProcessKnown'
    BY <1>0, <1>a, <1>b, <1>c, <2>1, <2>2, <2>3 DEF LiveKnown, ProcessKnown, RotationKnown
  <2>6. PendingKnown'
    BY <1>0, <1>a, <1>b, <1>c, <2>1, <2>2, <2>3 DEF ProcessKnown, PendingKnown, RotationKnown
  <2>7. RotationKnown'
    BY <1>0, <1>a, <1>b, <1>c, <2>1, <2>2, <2>3 DEF LiveKnown, ProcessKnown, PendingKnown, RotationKnown
  <2> QED BY <1>0, <1>a, <1>b, <1>c, <2>1, <2>2, <2>3, <1>d, <2>4, <2>5, <2>6, <2>7
<1>5. CASE Bots!Persist
  <2> DEFINE r == [run EXCEPT !.at = "stamp", !.mem = run.minted]
  <2>1. /\ r \in Runs /\ r.up = run.up /\ r.at = "stamp" /\ r.minted = run.minted
        /\ r.previous = run.previous /\ r.token = run.token /\ r.tracked = run.tracked
        /\ r.mem = run.minted /\ r.pending = run.pending
    BY <1>0 DEF Runs, Bots!Steps
  <2>2. /\ Bots!Put("secret", r) /\ run.up /\ run.at = "store"
        /\ UNCHANGED <<plan, live, made, past>>
    BY <1>5 DEF Bots!Persist
  <2> HIDE DEF r
  <2>3. /\ run' \in Runs /\ kept' \in Copies
        /\ run'.up = r.up /\ run'.token = r.token /\ run'.tracked = r.tracked
        /\ run'.minted = r.minted /\ run'.mem = r.mem /\ run'.at = r.at
        /\ run'.previous = r.previous
        /\ \/ /\ plan.mode = "vta" /\ kept' = kept
              /\ run'.pending = r.pending \cup {"secret"}
           \/ /\ plan.mode # "vta" /\ run'.pending = r.pending
              /\ kept'.token = r.mem
    <3>1. r.mem # 0
      BY <1>0, <1>c, <1>b, <2>1, <2>2 DEF RotationKnown
    <3> QED BY <1>0, <2>2, <2>1, <3>1, PutEffect
  <2>4. LiveKnown'
    BY <1>0, <1>a, <1>b, <1>c, <2>1, <2>2, <2>3 DEF LiveKnown, RotationKnown, PlanOK
  <2>5. ProcessKnown'
    BY <1>0, <1>a, <1>b, <1>c, <2>1, <2>2, <2>3 DEF LiveKnown, ProcessKnown, RotationKnown, PlanOK
  <2>6. PendingKnown'
    BY <1>0, <1>a, <1>b, <1>c, <2>1, <2>2, <2>3 DEF ProcessKnown, PendingKnown, RotationKnown, PlanOK
  <2>7. RotationKnown'
    BY <1>0, <1>a, <1>b, <1>c, <2>1, <2>2, <2>3 DEF LiveKnown, ProcessKnown, PendingKnown, RotationKnown, PlanOK
  <2> QED BY <1>0, <1>a, <1>b, <1>c, <2>1, <2>2, <2>3, <1>d, <2>4, <2>5, <2>6, <2>7
<1>6. CASE Bots!Stamp
  <2> DEFINE r == [run EXCEPT !.at = "flush", !.clock = "fresh"]
  <2>1. /\ r \in Runs /\ r.up = run.up /\ r.at = "flush" /\ r.minted = run.minted
        /\ r.previous = run.previous /\ r.token = run.token /\ r.tracked = run.tracked
        /\ r.mem = run.mem /\ r.pending = run.pending
    BY <1>0 DEF Runs, Bots!Steps, Bots!Clocks
  <2>2. /\ Bots!Put("clock", r) /\ run.up /\ run.at = "stamp"
        /\ UNCHANGED <<plan, live, made, past>>
    BY <1>6 DEF Bots!Stamp, Bots!Rotated, Bots!AfterPut
  <2> HIDE DEF r
  <2>3. /\ run' \in Runs /\ kept' \in Copies
        /\ run'.up = r.up /\ run'.token = r.token /\ run'.tracked = r.tracked
        /\ run'.minted = r.minted /\ run'.mem = r.mem /\ run'.at = r.at
        /\ run'.previous = r.previous
        /\ \/ /\ plan.mode = "vta" /\ kept' = kept
              /\ run'.pending = r.pending \cup {"clock"}
           \/ /\ plan.mode # "vta" /\ run'.pending = r.pending
              /\ kept'.token = kept.token
    BY <1>0, <1>b, <1>c, <2>1, <2>2, PutEffect DEF LiveKnown, ProcessKnown, PendingKnown, RotationKnown
  <2>4. LiveKnown'
    BY <1>0, <1>a, <1>b, <1>c, <2>1, <2>2, <2>3 DEF LiveKnown, RotationKnown, PlanOK
  <2>5. ProcessKnown'
    BY <1>0, <1>a, <1>b, <1>c, <2>1, <2>2, <2>3 DEF LiveKnown, ProcessKnown, RotationKnown, PlanOK
  <2>6. PendingKnown'
    BY <1>0, <1>a, <1>b, <1>c, <2>1, <2>2, <2>3 DEF ProcessKnown, PendingKnown, RotationKnown, PlanOK
  <2>7. RotationKnown'
    BY <1>0, <1>a, <1>b, <1>c, <2>1, <2>2, <2>3 DEF LiveKnown, ProcessKnown, PendingKnown, RotationKnown, PlanOK
  <2> QED BY <1>0, <1>a, <1>b, <1>c, <2>1, <2>2, <2>3, <1>d, <2>4, <2>5, <2>6, <2>7
<1>7. ASSUME Bots!Idle(run) = run', past' \in TokenPasts, past'.used = past.used, run.up,
             past'.deleted = past.deleted, UNCHANGED <<plan, made, kept>>,
             \/ live' = live
             \/ run.at = "verify" /\ live' = live \ {run.minted}
      PROVE  BotKnown'
  <2>1. /\ run' \in Runs /\ run'.up = run.up /\ run'.at = "idle" /\ run'.minted = 0
        /\ run'.previous = 0 /\ run'.token = run.token /\ run'.tracked = run.tracked
        /\ run'.mem = run.mem /\ run'.pending = run.pending
    BY <1>0, <1>7 DEF Bots!Idle, Runs, TokenOrNone, Bots!Steps
  <2>2. LiveKnown'
    BY <1>0, <1>a, <1>b, <1>c, <1>7, <2>1 DEF LiveKnown, RotationKnown
  <2>3. ProcessKnown'
    BY <1>0, <1>a, <1>b, <1>c, <1>7, <2>1 DEF LiveKnown, ProcessKnown, RotationKnown
  <2>4. PendingKnown'
    BY <1>0, <1>a, <1>b, <1>c, <1>7, <2>1 DEF ProcessKnown, PendingKnown, RotationKnown
  <2>5. RotationKnown'
    BY <1>0, <1>a, <1>b, <1>c, <1>7, <2>1 DEF LiveKnown, ProcessKnown, PendingKnown, RotationKnown
  <2> QED BY <1>0, <1>a, <1>b, <1>c, <1>7, <2>1, <1>d, <2>2, <2>3, <2>4, <2>5
<1>8. CASE Bots!Flush
  <2>1. CASE run' = [run EXCEPT !.at = "retire"] /\ run.pending = {} /\ UNCHANGED <<plan, past>>
    <3>1. /\ run' \in Runs /\ run'.up = run.up /\ run'.at = "retire"
          /\ run'.minted = run.minted /\ run'.previous = run.previous
          /\ run'.token = run.token /\ run'.tracked = run.tracked /\ run'.mem = run.mem
          /\ run'.pending = {}
      BY <1>0, <2>1 DEF Runs, Bots!Steps
    <3>2. UNCHANGED <<live, made, kept>> /\ run.at = "flush" /\ run.up
      BY <1>8 DEF Bots!Flush
    <3>3. LiveKnown'
      BY <1>0, <1>a, <1>b, <1>c, <2>1, <3>1, <3>2 DEF LiveKnown, RotationKnown
    <3>4. ProcessKnown'
      BY <1>0, <1>a, <1>b, <1>c, <2>1, <3>1, <3>2 DEF LiveKnown, ProcessKnown, RotationKnown
    <3>5. PendingKnown'
      BY <1>0, <1>a, <1>b, <1>c, <2>1, <3>1, <3>2 DEF ProcessKnown, PendingKnown, RotationKnown
    <3>6. RotationKnown'
      BY <1>0, <1>a, <1>b, <1>c, <2>1, <3>1, <3>2 DEF LiveKnown, ProcessKnown, PendingKnown, RotationKnown
    <3> QED BY <1>0, <1>a, <1>b, <1>c, <2>1, <3>1, <3>2, <1>d, <3>3, <3>4, <3>5, <3>6
  <2>2. CASE run' = Bots!Idle(run) /\ past' = [past EXCEPT !.faults = @ + 1] /\ UNCHANGED plan
    <3>1. past' \in TokenPasts /\ past'.used = past.used /\ past'.deleted = past.deleted
      BY <1>0, <2>2 DEF TokenPasts
    <3>2. UNCHANGED <<live, made, kept>> /\ run.up
      BY <1>8 DEF Bots!Flush
    <3> QED BY <1>7, <2>2, <3>1, <3>2
  <2> QED BY <1>8, <2>1, <2>2 DEF Bots!Flush, Bots!Fault, Bots!Happens
<1>9. CASE Bots!Retire
  <2>1. /\ run' \in Runs /\ run'.up = run.up /\ run'.at = "idle" /\ run'.minted = 0
        /\ run'.previous = 0 /\ run'.token = run.token /\ run'.tracked = run.tracked
        /\ run'.mem = run.mem /\ run'.pending = run.pending
    BY <1>0, <1>9 DEF Bots!Retire, Bots!Idle, Runs, TokenOrNone, Bots!Steps
  <2>2. UNCHANGED <<plan, made, kept>> /\ run.up /\ run.at = "retire"
    BY <1>9 DEF Bots!Retire, Bots!Fault, Bots!Happens
  <2>3. Bots!Retired(run) = IF run.previous = 0 THEN {} ELSE {run.previous}
    BY <1>0, <1>c, <2>2 DEF Bots!Retired, RotationKnown
  <2>4. \/ /\ live' = live /\ past' \in TokenPasts /\ past'.used = past.used
           /\ past'.deleted = past.deleted
        \/ /\ live' = live \ Bots!Retired(run) /\ past' = [past EXCEPT !.deleted = @ \cup Bots!Retired(run)]
    BY <1>0, <1>9 DEF Bots!Retire, Bots!Fault, TokenPasts
  <2>5. CASE live' = live /\ past' \in TokenPasts /\ past'.used = past.used
             /\ past'.deleted = past.deleted
    <3>1. LiveKnown'
      BY <1>0, <2>2, <2>5 DEF LiveKnown
    <3>2. ProcessKnown'
      BY <1>0, <2>1, <2>2, <2>5 DEF ProcessKnown
    <3>3. PendingKnown' /\ RotationKnown'
      BY <1>0, <2>1, <2>2, <2>5 DEF PendingKnown, RotationKnown
    <3> QED BY <1>0, <1>a, <1>d, <2>1, <2>2, <2>5, <3>1, <3>2, <3>3
  <2>6. CASE /\ live' = live \ Bots!Retired(run)
             /\ past' = [past EXCEPT !.deleted = @ \cup Bots!Retired(run)]
    <3>1. Bots!Retired(run) \subseteq live \cap past.used
      BY <1>0, <2>2, <2>3 DEF RotationKnown
    <3>2. /\ past' \in TokenPasts /\ past'.used = past.used
          /\ past'.deleted = past.deleted \cup Bots!Retired(run)
      BY <1>0, <2>6, <3>1 DEF TokenPasts
    <3>3. /\ \A t \in Bots!Retired(run) : t # kept.token /\ t # run.token /\ t # run.mem
          /\ run.pending = {}
      BY <1>0, <1>c, <2>2, <2>3 DEF RotationKnown
    <3>4. LiveKnown'
      BY <1>0, <1>a, <1>b, <1>c, <2>1, <2>2, <2>6, <3>1, <3>2, <3>3 DEF LiveKnown, RotationKnown
    <3>5. ProcessKnown'
      BY <1>0, <1>a, <1>b, <1>c, <2>1, <2>2, <2>6, <3>1, <3>2, <3>3 DEF LiveKnown, ProcessKnown, RotationKnown
    <3>6. PendingKnown'
      BY <1>0, <1>a, <1>b, <1>c, <2>1, <2>2, <2>6, <3>1, <3>2, <3>3 DEF ProcessKnown, PendingKnown, RotationKnown
    <3>7. RotationKnown'
      BY <1>0, <1>a, <1>b, <1>c, <2>1, <2>2, <2>6, <3>1, <3>2, <3>3 DEF LiveKnown, ProcessKnown, PendingKnown, RotationKnown
    <3> QED BY <1>0, <1>a, <1>b, <1>c, <2>1, <2>2, <2>6, <3>1, <3>2, <3>3, <1>d, <3>4, <3>5, <3>6, <3>7
  <2> QED BY <2>4, <2>5, <2>6
<1>10. CASE Bots!MintFails
  <2>1. UNCHANGED <<plan, live, made, kept, run, past>>
    BY <1>10 DEF Bots!MintFails, Bots!Happens
  <2>2. LiveKnown' /\ ProcessKnown' /\ PendingKnown' /\ RotationKnown'
    BY <1>0, <2>1 DEF LiveKnown, ProcessKnown, PendingKnown, RotationKnown
  <2> QED BY <1>0, <1>a, <1>d, <2>1, <2>2
<1>11. CASE Bots!VerifyFails \/ Bots!PersistFails
  <2>1. past' \in TokenPasts /\ past'.used = past.used /\ past'.deleted = past.deleted
    BY <1>0, <1>11 DEF Bots!VerifyFails, Bots!PersistFails, Bots!Fault, TokenPasts
  <2>2. /\ Bots!Idle(run) = run' /\ run.up /\ UNCHANGED <<plan, made, kept>>
        /\ \/ live' = live
           \/ run.at = "verify" /\ live' = live \ {run.minted}
    BY <1>11 DEF Bots!VerifyFails, Bots!PersistFails, Bots!Fault, Bots!Happens
  <2> QED BY <1>7, <2>1, <2>2
<1>12. CASE Bots!Crash
  <2>1. past' \in TokenPasts /\ past'.used = past.used /\ past'.deleted = past.deleted
    BY <1>0, <1>12 DEF Bots!Crash, Bots!Fault, TokenPasts
  <2>2. run' = Bots!Stopped /\ UNCHANGED <<plan, live, made, kept>>
    BY <1>12 DEF Bots!Crash, Bots!Fault, Bots!Happens
  <2>3. Bots!Stopped \in Runs
    BY DEF Bots!Stopped, Runs, TokenOrNone, Bots!Steps, Bots!Clocks
  <2>4. /\ ~run'.up /\ run'.at = "idle" /\ run'.pending = {} /\ run'.mem = 0
        /\ run'.minted = 0 /\ run'.previous = 0
    BY <2>2 DEF Bots!Stopped
  <2>5. LiveKnown'
    BY <1>0, <1>a, <1>b, <2>1, <2>2, <2>3, <2>4 DEF LiveKnown, RotationKnown
  <2>6. ProcessKnown'
    BY <1>0, <1>a, <1>b, <2>1, <2>2, <2>3, <2>4 DEF LiveKnown, ProcessKnown, RotationKnown
  <2>7. PendingKnown'
    BY <1>0, <1>a, <1>b, <2>1, <2>2, <2>3, <2>4 DEF ProcessKnown, PendingKnown, RotationKnown
  <2>8. RotationKnown'
    BY <1>0, <1>a, <1>b, <2>1, <2>2, <2>3, <2>4 DEF LiveKnown, ProcessKnown, PendingKnown, RotationKnown
  <2> QED BY <1>0, <1>a, <1>b, <2>1, <2>2, <2>3, <2>4, <1>d, <2>5, <2>6, <2>7, <2>8
<1>13. CASE Bots!Tick
  <2>1. /\ run' \in Runs /\ run'.up = run.up /\ run'.at = run.at /\ run'.minted = run.minted
        /\ run'.previous = run.previous /\ run'.token = run.token
        /\ run'.tracked = run.tracked /\ run'.mem = run.mem /\ run'.pending = run.pending
    BY <1>0, <1>13 DEF Bots!Tick, Runs, Bots!Older, Bots!Clocks
  <2>2. kept' \in Copies /\ kept'.token = kept.token /\ UNCHANGED <<plan, live, made, past>>
    BY <1>0, <1>13 DEF Bots!Tick, Copies, Bots!Older, Bots!Clocks, Bots!Happens
  <2>3. run = Bots!Stopped => run' = run
    BY <1>13 DEF Bots!Tick, Bots!Stopped, Bots!Older
  <2>4. LiveKnown'
    BY <1>0, <1>a, <1>b, <1>c, <2>1, <2>2, <2>3 DEF LiveKnown, RotationKnown
  <2>5. ProcessKnown'
    BY <1>0, <1>a, <1>b, <1>c, <2>1, <2>2, <2>3 DEF LiveKnown, ProcessKnown, RotationKnown
  <2>6. PendingKnown'
    BY <1>0, <1>a, <1>b, <1>c, <2>1, <2>2, <2>3 DEF ProcessKnown, PendingKnown, RotationKnown
  <2>7. RotationKnown'
    BY <1>0, <1>a, <1>b, <1>c, <2>1, <2>2, <2>3 DEF LiveKnown, ProcessKnown, PendingKnown, RotationKnown
  <2> QED BY <1>0, <1>a, <1>b, <1>c, <2>1, <2>2, <2>3, <1>d, <2>4, <2>5, <2>6, <2>7
<1>14. CASE Bots!Set
  <2>1. made + 1 \in Bots!Tokens /\ made' = made + 1 /\ live' = live \cup {made + 1}
        /\ UNCHANGED <<plan, run>>
    BY <1>0, <1>14, <1>b, TokensAssumption DEF Bots!Set, Bots!Tokens, Bots!Fault, Bots!Happens
  <2>2. kept' \in Copies /\ kept'.token = made + 1
    BY <1>0, <1>14, <2>1 DEF Bots!Set, Copies
  <2>3. past' \in TokenPasts /\ past'.used = past.used /\ past'.deleted = past.deleted
    BY <1>0, <1>14 DEF Bots!Set, Bots!Fault, TokenPasts
  <2>4. LiveKnown'
    <3>1. live' \subseteq 1..made' /\ kept'.token \in live' /\ kept'.token # 2 /\ 2 <= made'
      BY <1>e, <2>1, <2>2
    <3> QED BY <1>0, <2>3, <3>1 DEF LiveKnown
  <2>5. ProcessKnown'
    BY <1>0, <1>a, <1>b, <1>c, <2>1, <2>2, <2>3 DEF LiveKnown, ProcessKnown, RotationKnown
  <2>6. PendingKnown'
    BY <1>0, <1>a, <1>b, <1>c, <2>1, <2>2, <2>3 DEF ProcessKnown, PendingKnown, RotationKnown
  <2>7. RotationKnown'
    BY <1>0, <1>a, <1>b, <1>c, <2>1, <2>2, <2>3 DEF LiveKnown, ProcessKnown, PendingKnown, RotationKnown
  <2> QED BY <1>0, <1>a, <1>b, <1>c, <2>1, <2>2, <2>3, <1>d, <2>4, <2>5, <2>6, <2>7
<1>15. ASSUME NEW item \in {"secret", "clock"}, Bots!Mirror(item) PROVE BotKnown'
  <2>1. UNCHANGED <<plan, live, made, past>> /\ run.up /\ item \in run.pending
    BY <1>15 DEF Bots!Mirror
  <2>2. CASE run' = [run EXCEPT !.halted = TRUE] /\ kept' = kept
    <3>1. /\ run' \in Runs /\ run'.up = run.up /\ run'.at = run.at /\ run'.minted = run.minted
          /\ run'.previous = run.previous /\ run'.token = run.token
          /\ run'.tracked = run.tracked /\ run'.mem = run.mem /\ run'.pending = run.pending
      BY <1>0, <2>2 DEF Runs
    <3>2. LiveKnown'
      BY <1>0, <1>a, <1>b, <1>c, <2>1, <2>2, <3>1 DEF LiveKnown, RotationKnown
    <3>3. ProcessKnown'
      BY <1>0, <1>a, <1>b, <1>c, <2>1, <2>2, <3>1 DEF LiveKnown, ProcessKnown, RotationKnown
    <3>4. PendingKnown'
      BY <1>0, <1>a, <1>b, <1>c, <2>1, <2>2, <3>1 DEF ProcessKnown, PendingKnown, RotationKnown
    <3>5. RotationKnown'
      BY <1>0, <1>a, <1>b, <1>c, <2>1, <2>2, <3>1 DEF LiveKnown, ProcessKnown, PendingKnown, RotationKnown
    <3> QED BY <1>0, <1>a, <1>b, <1>c, <2>1, <2>2, <3>1, <1>d, <3>2, <3>3, <3>4, <3>5
  <2>3. CASE /\ run' = [run EXCEPT !.pending = @ \ {item},
                                   !.seen = IF item = "secret" THEN run.mem ELSE @]
             /\ kept' = IF item = "secret" THEN [kept EXCEPT !.token = run.mem]
                        ELSE [kept EXCEPT !.clock = run.clock]
    <3>1. /\ run' \in Runs /\ run'.up = run.up /\ run'.at = run.at /\ run'.minted = run.minted
          /\ run'.previous = run.previous /\ run'.token = run.token
          /\ run'.tracked = run.tracked /\ run'.mem = run.mem
          /\ run'.pending = run.pending \ {item}
      BY <1>0, <2>3 DEF Runs
    <3>2. /\ kept' \in Copies
          /\ kept'.token = IF item = "secret" THEN run.mem ELSE kept.token
      BY <1>0, <2>1, <2>3 DEF Copies, Runs, TokenOrNone, LiveKnown, ProcessKnown, PendingKnown
    <3>3. LiveKnown'
      <4>1. kept'.token \in live /\ kept'.token # 2
        BY <1>0, <2>1, <3>2 DEF LiveKnown, PendingKnown
      <4> QED BY <1>0, <2>1, <4>1 DEF LiveKnown
    <3>4. ProcessKnown'
      BY <1>0, <1>a, <1>b, <1>c, <2>1, <3>1, <3>2 DEF LiveKnown, ProcessKnown, RotationKnown
    <3>5. PendingKnown'
      BY <1>0, <1>a, <1>b, <1>c, <2>1, <3>1, <3>2 DEF ProcessKnown, PendingKnown, RotationKnown
    <3>6. RotationKnown'
      BY <1>0, <1>a, <1>b, <1>c, <2>1, <3>1, <3>2 DEF LiveKnown, ProcessKnown, PendingKnown, RotationKnown
    <3> QED BY <1>0, <1>a, <1>b, <1>c, <2>1, <3>1, <3>2, <1>d, <3>3, <3>4, <3>5, <3>6
  <2> QED BY <1>15, <2>2, <2>3 DEF Bots!Mirror
<1> QED
  BY <1>1, <1>2, <1>3, <1>4, <1>5, <1>6, <1>8, <1>9, <1>10, <1>11, <1>12, <1>13, <1>14, <1>15,
     BotSteps

-----------------------------------------------------------------------------
(* How a count of tokens changes: they only go, one comes, or one comes for *)
(* one that goes.                                                           *)
LEMMA Fewer ==
  ASSUME NEW S, IsFiniteSet(S), NEW T, T \subseteq S
  PROVE  IsFiniteSet(T) /\ Cardinality(T) <= Cardinality(S)
BY FS_Subset

(* Sets that gain, or change, one element at most.                         *)
LEMMA OneMore ==
  ASSUME NEW S, IsFiniteSet(S), NEW T, NEW x, T \subseteq S \cup {x}
  PROVE  IsFiniteSet(T) /\ Cardinality(T) <= Cardinality(S) + 1
<1>1. IsFiniteSet(S \cup {x}) /\ Cardinality(S \cup {x}) <= Cardinality(S) + 1
  <2>1. Cardinality(S) \in Nat
    BY FS_CardinalityType
  <2>2. /\ IsFiniteSet(S \cup {x})
        /\ Cardinality(S \cup {x}) = IF x \in S THEN Cardinality(S) ELSE Cardinality(S) + 1
    BY FS_AddElement
  <2> QED BY <2>1, <2>2
<1>2. IsFiniteSet(T) /\ Cardinality(T) <= Cardinality(S \cup {x})
  BY <1>1, FS_Subset
<1> QED BY <1>1, <1>2, FS_CardinalityType

LEMMA Swapped ==
  ASSUME NEW S, IsFiniteSet(S), NEW T, NEW x, NEW y \in S, T \subseteq (S \ {y}) \cup {x}
  PROVE  IsFiniteSet(T) /\ Cardinality(T) <= Cardinality(S)
<1>1. IsFiniteSet(S \ {y}) /\ Cardinality(S \ {y}) = Cardinality(S) - 1
  BY FS_RemoveElement
<1>2. IsFiniteSet(T) /\ Cardinality(T) <= Cardinality(S \ {y}) + 1
  BY <1>1, OneMore
<1> QED BY <1>1, <1>2, FS_CardinalityType

(* There are no more tokens than numbers for them.                         *)
LEMMA TokensAreFinite == ASSUME NEW S, S \subseteq Bots!Tokens PROVE IsFiniteSet(S)
<1>1. IsFiniteSet(Bots!Tokens)
  BY TokensAssumption, FS_Interval DEF Bots!Tokens
<1> QED BY <1>1, FS_Subset

(* A live token nobody knows of costs a fault.                             *)
LEMMA ExtraSteps ==
  ASSUME BotKnown, BotKnown', ExtrasCounted,
         \/ /\ Extra' \subseteq Extra
            /\ Ahead' + past.faults <= Ahead + past'.faults
         \/ \E x : /\ Extra' \subseteq Extra \cup {x}
                   /\ Ahead' + past.faults + 1 <= Ahead + past'.faults
         \/ \E x, y : /\ Extra' \subseteq (Extra \ {y}) \cup {x} /\ y \in Extra
                      /\ Ahead' + past.faults <= Ahead + past'.faults
  PROVE  ExtrasCounted'
<1>1. IsFiniteSet(Extra) /\ IsFiniteSet(Extra')
  <2>1. Extra \subseteq Bots!Tokens /\ Extra' \subseteq Bots!Tokens
    BY DEF Extra, Bots!Ours, BotKnown, Bots!TypeOK
  <2> QED BY <2>1, TokensAreFinite
<1>2. /\ Cardinality(Extra) \in Nat /\ Cardinality(Extra') \in Nat /\ Ahead \in {0, 1}
      /\ Ahead' \in {0, 1} /\ past.faults \in Nat /\ past'.faults \in Nat
  BY <1>1, FS_CardinalityType DEF Ahead, BotKnown, Bots!TypeOK
<1>3. CASE /\ Extra' \subseteq Extra
           /\ Ahead' + past.faults <= Ahead + past'.faults
  <2>1. Cardinality(Extra') <= Cardinality(Extra)
    BY <1>1, <1>3, Fewer
  <2> QED BY <1>2, <1>3, <2>1 DEF ExtrasCounted
<1>4. ASSUME NEW x, Extra' \subseteq Extra \cup {x},
             Ahead' + past.faults + 1 <= Ahead + past'.faults
      PROVE  ExtrasCounted'
  <2>1. Cardinality(Extra') <= Cardinality(Extra) + 1
    BY <1>1, <1>4, OneMore
  <2> QED BY <1>2, <1>4, <2>1 DEF ExtrasCounted
<1>5. ASSUME NEW x, NEW y, Extra' \subseteq (Extra \ {y}) \cup {x}, y \in Extra,
             Ahead' + past.faults <= Ahead + past'.faults
      PROVE  ExtrasCounted'
  <2>1. Cardinality(Extra') <= Cardinality(Extra)
    BY <1>1, <1>5, Swapped
  <2> QED BY <1>2, <1>5, <2>1 DEF ExtrasCounted
<1> QED BY <1>3, <1>4, <1>5

(* What every step does to the live tokens that nobody knows of.           *)
LEMMA ExtrasStep ==
  ASSUME BotKnown, BotKnown', ExtrasCounted, Bots!Next PROVE ExtrasCounted'
<1>0. /\ run \in Runs /\ kept \in Copies /\ past \in TokenPasts
      /\ LiveKnown /\ ProcessKnown /\ PendingKnown /\ RotationKnown
      /\ past.faults \in Nat /\ kept.token \in Nat
  BY BotParts, TokensAssumption DEF BotKnown, TokenPasts, Copies, Bots!Tokens
<1>a. past'.faults = past.faults + 1 =>
        /\ past'.faults \in Nat /\ past'.faults # past.faults
        /\ \A n, m \in {0, 1} : n <= m => n + past.faults + 1 <= m + past'.faults
  BY <1>0
<1>b. Ahead \in {0, 1} /\ Ahead' \in {0, 1}
  BY DEF Ahead
<1>c. ASSUME Extra' \subseteq Extra, Ahead' <= Ahead, past'.faults = past.faults
      PROVE  ExtrasCounted'
  <2>1. Ahead' + past.faults <= Ahead + past'.faults
    BY <1>0, <1>b, <1>c
  <2> QED BY <1>c, <2>1, ExtraSteps
<1>d. ASSUME NEW x, Extra' \subseteq Extra \cup {x}, Ahead' <= Ahead,
             past'.faults = past.faults + 1
      PROVE  ExtrasCounted'
  <2>1. Ahead' + past.faults + 1 <= Ahead + past'.faults
    BY <1>0, <1>b, <1>d
  <2> QED BY <1>d, <2>1, ExtraSteps
<1>e. ASSUME UNCHANGED live, kept'.token = kept.token, run'.previous = run.previous,
             run'.minted = run.minted, Unsaved' = Unsaved, past'.faults = past.faults,
             run'.at = "idle" <=> run.at = "idle"
      PROVE  ExtrasCounted'
  <2>1. Extra' = Extra /\ Ahead' = Ahead
    BY <1>e DEF Extra, Ahead, OnTheWay, Bots!Ours
  <2> QED BY <1>b, <1>c, <1>e, <2>1
<1>f. ASSUME live' \subseteq live, kept'.token = kept.token, run'.at = "idle",
             past'.faults = past.faults + 1
      PROVE  ExtrasCounted'
  <2>1. Extra' \subseteq Extra \cup {OnTheWay} /\ Ahead' = 0
    BY <1>f DEF Extra, Ahead, Bots!Ours
  <2>2. Ahead' <= Ahead
    BY <1>b, <2>1
  <2> QED BY <1>d, <1>f, <2>1, <2>2
<1> USE DEF Bots!None, Bots!Others, Bots!Quiet
(* A rotation's token gets durable.                                         *)
<1>g. ASSUME UNCHANGED live, run.at \in {"store", "stamp", "flush"}, Unsaved, ~Unsaved',
             kept'.token = run.minted, run'.previous = run.previous,
             past'.faults = past.faults
      PROVE  ExtrasCounted'
  <2>0. Ahead' = 0
    BY <1>g DEF Ahead
  <2>1. CASE run.previous = 0
    <3>1. Ahead = 1
      BY <1>g, <2>1 DEF Ahead
    <3>2. Ahead' + past.faults + 1 <= Ahead + past'.faults
      BY <1>0, <1>g, <2>0, <3>1
    <3>3. Extra' \subseteq Extra \cup {kept.token}
      BY <1>g DEF Extra, OnTheWay, Bots!Ours
    <3> QED BY <3>2, <3>3, ExtraSteps
  <2>2. CASE run.previous = kept.token
    <3>1. Extra' \subseteq Extra
      BY <1>g, <2>2 DEF Extra, OnTheWay, Bots!Ours
    <3> QED BY <1>b, <1>c, <1>g, <2>0, <3>1
  <2>3. CASE run.previous # 0 /\ run.previous # kept.token
    <3>1. run.previous \in live /\ run.previous # 2 /\ run.previous # run.minted
      BY <1>0, <1>g, <2>3, TokensAssumption DEF RotationKnown, Runs, TokenOrNone, Bots!Tokens
    <3>2. run.previous \in Extra
      BY <1>g, <2>3, <3>1 DEF Extra, OnTheWay, Bots!Ours
    <3>3. Extra' \subseteq (Extra \ {run.previous}) \cup {kept.token}
      BY <1>g DEF Extra, OnTheWay, Bots!Ours
    <3>4. Ahead' + past.faults <= Ahead + past'.faults
      BY <1>0, <1>b, <1>g, <2>0
    <3> QED BY <3>2, <3>3, <3>4, ExtraSteps
  <2> QED BY <2>1, <2>2, <2>3
<1>1. CASE Bots!Start
  <2>1. run.at = "idle" /\ run.minted = 0 /\ run.previous = 0 /\ run.pending = {}
    BY <1>0, <1>1 DEF Bots!Start, ProcessKnown, Bots!Stopped
  <2>2. run'.at = "idle" /\ run'.minted = 0 /\ run'.previous = 0 /\ run'.pending = {}
    BY <1>1 DEF Bots!Start, Bots!Started, Bots!Stopped
  <2>3. UNCHANGED live /\ kept'.token = kept.token /\ past'.faults = past.faults
    BY <1>0, <1>1 DEF Bots!Start, TokenPasts
  <2> QED BY <1>e, <2>1, <2>2, <2>3 DEF Unsaved
<1>2. CASE Bots!StartClock
  <2> DEFINE r == [run EXCEPT !.clock = "fresh"]
  <2>1. /\ r \in Runs /\ r.at = run.at /\ r.minted = run.minted /\ r.previous = run.previous
        /\ r.mem = run.mem /\ r.pending = run.pending
    BY <1>0 DEF Runs, Bots!Clocks
  <2>2. Bots!Put("clock", r) /\ run.mem # 0 /\ UNCHANGED <<live, past>>
    BY <1>0, <1>2 DEF Bots!StartClock, ProcessKnown
  <2> HIDE DEF r
  <2>3. /\ run'.at = run.at /\ run'.minted = run.minted /\ run'.previous = run.previous
        /\ kept'.token = kept.token
        /\ run'.pending = run.pending \/ run'.pending = run.pending \cup {"clock"}
    BY <1>0, <2>1, <2>2, PutEffect
  <2>4. Unsaved' = Unsaved
    BY <2>3 DEF Unsaved
  <2> QED BY <1>e, <2>2, <2>3, <2>4
<1>3. CASE Bots!Mint
  <2>1. live' = live \cup {made + 1} /\ kept' = kept /\ run.at = "idle"
    BY <1>3 DEF Bots!Mint, Bots!Due
  <2>2. OnTheWay \notin live /\ Ahead = 0
    BY <1>0, <2>1 DEF OnTheWay, RotationKnown, LiveKnown, Ahead
  <2>3. CASE /\ run' = [run EXCEPT !.at = "verify", !.minted = made + 1,
                                   !.previous = Bots!Previous]
             /\ past' = [past EXCEPT !.faults = IF Bots!Previous = 0 THEN @ + 1 ELSE @]
    <3>1. run'.at = "verify" /\ run'.minted = made + 1 /\ run'.previous = Bots!Previous
      BY <1>0, <2>3 DEF Runs
    <3>2. past'.faults = IF Bots!Previous = 0 THEN past.faults + 1 ELSE past.faults
      BY <1>0, <2>3 DEF TokenPasts
    <3>3. OnTheWay' = made + 1 /\ Ahead' = IF Bots!Previous = 0 THEN 1 ELSE 0
      BY <3>1 DEF OnTheWay, Unsaved, Ahead
    <3>4. Extra' \subseteq Extra
      BY <2>1, <2>2, <3>3 DEF Extra, Bots!Ours
    <3>5. Ahead' + past.faults <= Ahead + past'.faults
      BY <1>0, <2>2, <3>2, <3>3
    <3> QED BY <3>4, <3>5, ExtraSteps
  <2>4. CASE run' = run /\ past' = [past EXCEPT !.faults = @ + 1]
    <3>1. past'.faults = past.faults + 1
      BY <1>0, <2>4 DEF TokenPasts
    <3>2. Extra' \subseteq Extra \cup {made + 1} /\ Ahead' = Ahead
      BY <2>1, <2>4 DEF Extra, OnTheWay, Unsaved, Ahead, Bots!Ours
    <3> QED BY <1>b, <1>d, <3>1, <3>2
  <2> QED BY <1>3, <2>3, <2>4 DEF Bots!Mint, Bots!Fault
<1>4. CASE Bots!Verify
  <2>1. /\ run.at = "verify" /\ run'.at = "store" /\ run'.minted = run.minted
        /\ run'.previous = run.previous
    BY <1>0, <1>4 DEF Bots!Verify, Bots!InUse, Runs
  <2>2. UNCHANGED live /\ kept'.token = kept.token /\ past'.faults = past.faults
    BY <1>0, <1>4 DEF Bots!Verify, TokenPasts
  <2> QED BY <1>e, <2>1, <2>2 DEF Unsaved
<1>5. CASE Bots!Persist
  <2> DEFINE r == [run EXCEPT !.at = "stamp", !.mem = run.minted]
  <2>1. /\ r \in Runs /\ r.at = "stamp" /\ r.minted = run.minted /\ r.previous = run.previous
        /\ r.mem = run.minted /\ r.pending = run.pending
    BY <1>0 DEF Runs, Bots!Steps
  <2>2. /\ Bots!Put("secret", r) /\ run.up /\ run.at = "store" /\ UNCHANGED <<live, past>>
    BY <1>5 DEF Bots!Persist
  <2> HIDE DEF r
  <2>3. r.mem # 0 /\ (plan.mode # "vta" => run.pending = {})
    <3>1. r.mem \in live
      BY <1>0, <2>1, <2>2 DEF RotationKnown
    <3>2. plan.mode \in {"file", "vta"}
      BY DEF BotKnown, Bots!TypeOK
    <3> QED BY <1>0, <3>1, <3>2 DEF LiveKnown, PendingKnown
  <2>4. /\ run'.at = "stamp" /\ run'.minted = run.minted /\ run'.previous = run.previous
        /\ \/ kept' = kept /\ "secret" \in run'.pending
           \/ plan.mode # "vta" /\ run'.pending = run.pending /\ kept'.token = run.minted
    BY <1>0, <2>1, <2>2, <2>3, PutEffect
  <2>5. CASE kept' = kept /\ "secret" \in run'.pending
    BY <1>e, <2>2, <2>4, <2>5 DEF Unsaved
  <2>6. CASE run'.pending = {} /\ kept'.token = run.minted
    BY <1>g, <2>2, <2>4, <2>6 DEF Unsaved
  <2> QED BY <2>3, <2>4, <2>5, <2>6
<1>6. CASE Bots!Stamp
  <2> DEFINE r == [run EXCEPT !.at = "flush", !.clock = "fresh"]
  <2>1. /\ r \in Runs /\ r.at = "flush" /\ r.minted = run.minted /\ r.previous = run.previous
        /\ r.mem = run.mem /\ r.pending = run.pending
    BY <1>0 DEF Runs, Bots!Steps, Bots!Clocks
  <2>2. /\ Bots!Put("clock", r) /\ run.at = "stamp" /\ run.mem # 0 /\ UNCHANGED <<live, past>>
    BY <1>0, <1>6 DEF Bots!Stamp, Bots!Rotated, Bots!AfterPut, ProcessKnown
  <2> HIDE DEF r
  <2>3. /\ run'.at = "flush" /\ run'.minted = run.minted /\ run'.previous = run.previous
        /\ kept'.token = kept.token
        /\ run'.pending = run.pending \/ run'.pending = run.pending \cup {"clock"}
    BY <1>0, <2>1, <2>2, PutEffect
  <2>4. Unsaved' = Unsaved
    BY <2>2, <2>3 DEF Unsaved
  <2> QED BY <1>e, <2>2, <2>3, <2>4
<1>7. CASE Bots!Flush
  <2>1. UNCHANGED <<live, kept>> /\ run.at = "flush"
    BY <1>7 DEF Bots!Flush
  <2>2. CASE run' = [run EXCEPT !.at = "retire"] /\ run.pending = {} /\ past' = past
    <3>1. /\ run'.at = "retire" /\ run'.minted = run.minted /\ run'.previous = run.previous
          /\ run'.pending = {}
      BY <1>0, <2>2 DEF Runs
    <3> QED BY <1>e, <2>1, <2>2, <3>1 DEF Unsaved
  <2>3. CASE run' = Bots!Idle(run) /\ past' = [past EXCEPT !.faults = @ + 1]
    <3>1. run'.at = "idle" /\ past'.faults = past.faults + 1
      BY <1>0, <2>3 DEF Bots!Idle, Runs, TokenPasts
    <3> QED BY <1>f, <2>1, <3>1
  <2> QED BY <1>7, <2>2, <2>3 DEF Bots!Flush, Bots!Fault
<1>8. CASE Bots!Retire
  <2>1. /\ run'.at = "idle" /\ run'.minted = 0 /\ run'.previous = 0
        /\ run'.pending = run.pending /\ kept' = kept /\ run.at = "retire"
    BY <1>0, <1>8 DEF Bots!Retire, Bots!Idle, Runs
  <2>2. CASE live' = live \ Bots!Retired(run) /\ past'.faults = past.faults
    <3>1. run.pending = {} /\ run.minted = run.tracked /\ run.previous # run.minted
      BY <1>0, <2>1, TokensAssumption DEF RotationKnown, Runs, TokenOrNone, Bots!Tokens
    <3>2. OnTheWay = run.previous
      BY <2>1, <3>1 DEF OnTheWay, Unsaved
    <3>3. live' = live \ {run.previous}
      <4>1. 0 \notin live
        BY <1>0 DEF LiveKnown
      <4> QED BY <2>2, <3>1, <4>1 DEF Bots!Retired
    <3>4. Extra' \subseteq Extra /\ Ahead' = 0
      BY <2>1, <3>2, <3>3 DEF Extra, Ahead, Bots!Ours
    <3> QED BY <1>b, <1>c, <2>2, <3>4
  <2>3. CASE live' = live /\ past'.faults = past.faults + 1
    BY <1>f, <2>1, <2>3
  <2> QED BY <1>0, <1>8, <2>2, <2>3 DEF Bots!Retire, Bots!Fault, TokenPasts
<1>9. CASE Bots!MintFails
  BY <1>9, <1>e DEF Bots!MintFails, Unsaved
<1>10. CASE Bots!VerifyFails \/ Bots!PersistFails
  <2>1. /\ live' \subseteq live /\ kept' = kept /\ run' = Bots!Idle(run)
        /\ past' = [past EXCEPT !.faults = @ + 1]
    BY <1>10 DEF Bots!VerifyFails, Bots!PersistFails, Bots!Fault
  <2>2. run'.at = "idle" /\ past'.faults = past.faults + 1
    BY <1>0, <2>1 DEF Bots!Idle, Runs, TokenPasts
  <2> QED BY <1>f, <2>1, <2>2
<1>11. CASE Bots!Crash
  <2>1. /\ live' = live /\ kept' = kept /\ run' = Bots!Stopped
        /\ past' = [past EXCEPT !.faults = @ + 1]
    BY <1>11 DEF Bots!Crash, Bots!Fault
  <2>2. run'.at = "idle" /\ past'.faults = past.faults + 1
    BY <1>0, <2>1 DEF Bots!Stopped, TokenPasts
  <2> QED BY <1>f, <2>1, <2>2
<1>12. CASE Bots!Tick
  <2>1. /\ run'.at = run.at /\ run'.minted = run.minted /\ run'.previous = run.previous
        /\ run'.pending = run.pending /\ kept'.token = kept.token /\ UNCHANGED <<live, past>>
    BY <1>0, <1>12 DEF Bots!Tick, Runs, Copies
  <2> QED BY <1>e, <2>1 DEF Unsaved
<1>13. CASE Bots!Set
  <2>1. /\ live' = live \cup {made + 1} /\ run' = run /\ kept'.token = made + 1
        /\ past'.faults = past.faults + 1
    BY <1>0, <1>13 DEF Bots!Set, Bots!Fault, Copies, TokenPasts
  <2>2. Extra' \subseteq Extra \cup {kept.token} /\ Ahead' = Ahead
    BY <2>1 DEF Extra, Ahead, OnTheWay, Unsaved, Bots!Ours
  <2> QED BY <1>b, <1>d, <2>1, <2>2
<1>14. CASE Bots!Mirror("clock")
  <2>1. /\ run'.at = run.at /\ run'.minted = run.minted /\ run'.previous = run.previous
        /\ run'.pending = run.pending \/ run'.pending = run.pending \ {"clock"}
        /\ kept'.token = kept.token /\ UNCHANGED <<live, past>>
    BY <1>0, <1>14 DEF Bots!Mirror, Runs, Copies
  <2>2. Unsaved' = Unsaved
    BY <2>1 DEF Unsaved
  <2> QED BY <1>e, <2>1, <2>2
<1>15. CASE Bots!Mirror("secret")
  <2>1. UNCHANGED <<live, past>> /\ "secret" \in run.pending
    BY <1>15 DEF Bots!Mirror
  <2>2. CASE run' = [run EXCEPT !.halted = TRUE] /\ kept' = kept
    <3>1. /\ run'.at = run.at /\ run'.minted = run.minted /\ run'.previous = run.previous
          /\ run'.pending = run.pending
      BY <1>0, <2>2 DEF Runs
    <3> QED BY <1>e, <2>1, <2>2, <3>1 DEF Unsaved
  <2>3. CASE /\ run' = [run EXCEPT !.pending = @ \ {"secret"}, !.seen = run.mem]
             /\ kept' = [kept EXCEPT !.token = run.mem]
    <3>1. /\ run'.at = run.at /\ run'.minted = run.minted /\ run'.previous = run.previous
          /\ run'.pending = run.pending \ {"secret"} /\ kept'.token = run.mem
      BY <1>0, <2>3 DEF Runs, Copies
    <3>2. CASE run.at \in {"stamp", "flush", "retire"}
      <4>1. run.mem = run.minted /\ run.at # "retire"
        BY <1>0, <2>1, <3>2 DEF RotationKnown
      <4> QED BY <1>g, <2>1, <3>1, <3>2, <4>1 DEF Unsaved
    <3>3. CASE run.at \in {"idle", "verify", "store"}
      <4>1. run.mem \in live /\ run.mem # 2 /\ run.mem # run.minted
        <5>1. run.mem \in live /\ run.mem # 2 /\ 0 \notin live
          BY <1>0, <2>1 DEF PendingKnown, LiveKnown
        <5>2. run.mem \in Nat /\ run.minted \in Nat
          BY <1>0, TokensAssumption DEF Runs, TokenOrNone, Bots!Tokens
        <5> QED BY <1>0, <3>3, <5>1, <5>2 DEF RotationKnown
      <4>2. OnTheWay = run.minted /\ OnTheWay' = run.minted
        BY <1>0, <2>1, <3>1, <3>3 DEF OnTheWay, Unsaved, RotationKnown
      <4>3. Ahead' = Ahead
        BY <2>1, <3>1, <3>3 DEF Ahead, Unsaved
      <4>4. CASE run.mem = kept.token
        <5>1. Extra' \subseteq Extra
          BY <2>1, <3>1, <4>2, <4>4 DEF Extra, Bots!Ours
        <5> QED BY <1>b, <1>c, <2>1, <4>3, <5>1
      <4>5. CASE run.mem # kept.token
        <5>1. run.mem \in Extra
          BY <4>1, <4>2, <4>5 DEF Extra, Bots!Ours
        <5>2. Extra' \subseteq (Extra \ {run.mem}) \cup {kept.token}
          BY <2>1, <3>1, <4>2 DEF Extra, Bots!Ours
        <5>3. Ahead' + past.faults <= Ahead + past'.faults
          BY <1>0, <1>b, <2>1, <4>3
        <5> QED BY <5>1, <5>2, <5>3, ExtraSteps
      <4> QED BY <4>4, <4>5
    <3> QED BY <1>0, <3>2, <3>3 DEF Runs, Bots!Steps
  <2> QED BY <1>15, <2>2, <2>3 DEF Bots!Mirror
<1> QED
  BY <1>1, <1>2, <1>3, <1>4, <1>5, <1>6, <1>7, <1>8, <1>9, <1>10, <1>11, <1>12, <1>13, <1>14,
     <1>15, BotSteps

(* The invariant of the bot's token, and what it gives.                    *)
LEMMA BotInvInit == Bots!Init => BotInv
<1> SUFFICES ASSUME Bots!Init PROVE BotInv
  OBVIOUS
<1>1. Extra = {} /\ Ahead = 0 /\ past.faults = 0
  BY DEF Bots!Init, Extra, Ahead, Bots!Ours, Bots!Original, Bots!Others, Bots!Stopped
<1>2. ExtrasCounted
  BY <1>1, FS_EmptySet DEF ExtrasCounted
<1> QED BY <1>2, BotInit DEF BotInv, BotKnown

LEMMA BotInvStep == BotInv /\ Bots!Next => BotInv'
BY BotKnownStep, ExtrasStep DEF BotInv

LEMMA BotIsSafe ==
  BotInv => Bots!TypeOK /\ Bots!NeverDead /\ Bots!OnlyReplaced /\ Bots!ExtrasAreFaults
<1> SUFFICES ASSUME BotInv
             PROVE  Bots!TypeOK /\ Bots!NeverDead /\ Bots!OnlyReplaced /\ Bots!ExtrasAreFaults
  OBVIOUS
<1>1. Bots!TypeOK /\ Bots!NeverDead /\ Bots!OnlyReplaced
  BY DEF BotInv, BotKnown, LiveKnown, ProcessKnown, Bots!NeverDead, Bots!OnlyReplaced
<1>2. Bots!ExtrasAreFaults
  <2> DEFINE X == Bots!Ours \ {kept.token, run.token, run.minted, run.previous}
  <2>1. Extra \subseteq Bots!Tokens /\ X \subseteq Extra
    BY <1>1 DEF Bots!TypeOK, Extra, OnTheWay, Bots!Ours
  <2>2. IsFiniteSet(Extra) /\ Cardinality(X) <= Cardinality(Extra) /\ IsFiniteSet(X)
    BY <2>1, TokensAreFinite, Fewer
  <2>3. Cardinality(X) \in Nat /\ Cardinality(Extra) \in Nat /\ Ahead \in {0, 1}
        /\ past.faults \in Nat
    BY <1>1, <2>2, FS_CardinalityType DEF Ahead, Bots!TypeOK
  <2>4. Cardinality(Extra) + Ahead <= past.faults
    BY DEF BotInv, ExtrasCounted
  <2> HIDE DEF X
  <2>5. Cardinality(X) <= past.faults
    BY <2>2, <2>3, <2>4
  <2>6. Bots!Cardinality(X) = Cardinality(X)
    BY DEF Bots!Cardinality, Cardinality, Bots!IsFiniteSet, IsFiniteSet
  <2> QED BY <2>5, <2>6 DEF X, Bots!ExtrasAreFaults
<1> QED BY <1>1, <1>2

-----------------------------------------------------------------------------
(* The VTC's documents.                                                     *)

(* None is dated ahead of what clocks differ by, and the one being handled  *)
(* was fresh and is handled in time.                                        *)
Timely ==
  /\ \A d \in sent : d.at <= now + Skew
  /\ doing.at # "idle" => /\ doing.doc \in sent
                          /\ doing.since <= now /\ now <= doing.since + Slow
                          /\ doing.since <= doing.doc.at + MaxAge

(* A result that reached the VTC in time reached it so early that all the   *)
(* job's documents are too old when its record goes.                        *)
JobKnown(j) ==
  /\ ledger[j].acked => vtc.holds[j]
  /\ ledger[j].state = "none" /\ told.ran[j] > 0 => vtc.holds[j]
  /\ told.ran[j] > 1 => told.late[j]
  /\ vtc.holds[j] /\ ~told.late[j] =>
       /\ ledger[j].state \in {"none", "finished"}
       /\ \A d \in sent : d.job = j =>
            IF ledger[j].state = "finished"
            THEN d.at + MaxAge + Slow <= ledger[j].at + Retention
            ELSE d.at + MaxAge + Slow < now
JobsKnown == \A j \in Jobs : JobKnown(j)

(* What was resolved is not believed beyond its lifetime, and is the key of *)
(* the time it was resolved at.                                             *)
KeysKnown ==
  /\ vtc.dropped[vtc.key] = Docs!Never
  /\ resolver.key # Nobody =>
       /\ resolver.until <= now + Lifetime
       /\ vtc.dropped[resolver.key] # Docs!Never =>
            resolver.until <= vtc.dropped[resolver.key] + Lifetime
  /\ doing.at = "job" =>
       /\ doing.passed <= now
       /\ vtc.dropped[doing.doc.key] # Docs!Never =>
            doing.passed <= vtc.dropped[doing.doc.key] + Lifetime

(* A pause is only ever counted from a resolution that was tried.           *)
PauseKnown ==
  /\ -Pause <= told.again
  /\ doing.at # "again" => resolver.last <= told.again
  /\ resolver.last <= now

DocInv == Docs!TypeOK /\ Timely /\ JobsKnown /\ KeysKnown /\ PauseKnown

(* The types, part by part.                                                 *)
Vtcs == [key : VtcKeys, dropped : [VtcKeys -> Nat \cup {Docs!Never}], holds : [Jobs -> BOOLEAN]]
Resolvers == [key : VtcKeys \cup {Nobody}, until : Nat, last : Int]
Records == [state : {"none", "open", "finished"}, at : Nat, acked : BOOLEAN]
Doings == [at : {"idle", "proof", "again", "job"}, doc : Docs!Docs \cup {Docs!NoDoc},
           since : Nat, passed : Nat]
Tolds == [ran : [Jobs -> Nat], late : [Jobs -> BOOLEAN], again : Int]
DocPlanOK == plan \in [moves : [Docs!Moves -> Nat], ahead : 0..Skew] /\ count \in [Docs!Moves -> Nat]
DocTypes ==
  /\ now \in Nat /\ vtc \in Vtcs /\ sent \subseteq Docs!Docs /\ resolver \in Resolvers
  /\ ledger \in [Jobs -> Records] /\ doing \in Doings /\ told \in Tolds
  /\ doing.at # "idle" => doing.doc \in Docs!Docs

(* The type invariant, record by record.                                   *)
LEMMA DocParts == Docs!TypeOK <=> DocTypes /\ DocPlanOK
BY DEF Docs!TypeOK, DocTypes, DocPlanOK, Vtcs, Resolvers, Records, Doings, Tolds

(* It begins with nothing sent and nothing resolved.                       *)
LEMMA DocInit == Docs!Init => DocInv
<1> SUFFICES ASSUME Docs!Init PROVE DocInv
  OBVIOUS
<1> USE DocumentsAssumption, TimesAssumption, NobodyAssumption
<1>1. vtc \in Vtcs /\ vtc.dropped[vtc.key] = Docs!Never
  BY DEF Docs!Init, Vtcs, Docs!Never
<1>2. resolver \in Resolvers /\ resolver.key = Nobody /\ resolver.last = -Pause
  BY DEF Docs!Init, Resolvers
<1>3. ledger \in [Jobs -> Records] /\ \A j \in Jobs : ledger[j] = Docs!NoJob
  BY DEF Docs!Init, Records, Docs!NoJob
<1>4. doing \in Doings /\ doing.at = "idle"
  BY DEF Docs!Init, Doings, Docs!Idle
<1>5. /\ told \in Tolds /\ told.again = -Pause
      /\ \A j \in Jobs : told.ran[j] = 0 /\ vtc.holds[j] = FALSE
  BY DEF Docs!Init, Tolds
<1>6. DocPlanOK
  BY DEF Docs!Init, DocPlanOK
<1>7. now = 0 /\ sent = {}
  BY DEF Docs!Init
<1>8. DocTypes
  BY <1>1, <1>2, <1>3, <1>4, <1>5, <1>7 DEF DocTypes
<1>9. Timely
  BY <1>4, <1>7 DEF Timely
<1>10. JobsKnown
  BY <1>3, <1>5 DEF JobsKnown, JobKnown, Docs!NoJob
<1>11. KeysKnown
  BY <1>1, <1>2, <1>4 DEF KeysKnown
<1>12. PauseKnown
  BY <1>2, <1>4, <1>5, <1>7 DEF PauseKnown
<1> QED BY <1>6, <1>8, <1>9, <1>10, <1>11, <1>12, DocParts DEF DocInv

(* What a plan allows is counted.                                          *)
LEMMA HappensCounts ==
  ASSUME NEW m \in Docs!Moves, Docs!Happens(m), DocPlanOK PROVE DocPlanOK' /\ count' # count
<1>1. count[m] \in Nat /\ count' = [count EXCEPT ![m] = @ + 1] /\ plan' = plan
  BY DEF Docs!Happens, DocPlanOK
<1>2. count'[m] = count[m] + 1 /\ count' \in [Docs!Moves -> Nat]
  BY <1>1 DEF DocPlanOK
<1>3. count'[m] # count[m]
  BY <1>1, <1>2
<1> QED BY <1>1, <1>2, <1>3 DEF DocPlanOK

(* The times that documents, keys and records are believed for.            *)
LEMMA DocTimes ==
  /\ MaxAge \in Nat /\ Skew \in Nat /\ Retention \in Nat /\ Lifetime \in Nat /\ Pause \in Nat
  /\ Slow \in Nat /\ MaxAge + Skew + Slow <= Retention
BY TimesAssumption

(* Who cannot act on a document: the one whose time is over.                *)
LEMMA TooLate ==
  ASSUME DocInv, doing.at # "idle", NEW t \in Nat, doing.doc.at + MaxAge + Slow < t, t <= now
  PROVE  FALSE
<1>1. /\ doing.since \in Nat /\ now \in Nat /\ doing.doc.at \in Nat
      /\ doing.since <= doing.doc.at + MaxAge /\ now <= doing.since + Slow
  BY DocParts DEF DocInv, DocTypes, Doings, Timely, Docs!Docs
<1> QED BY <1>1, DocTimes

(* The VTC signs a document, dated by its clock.                           *)
LEMMA SignStep ==
  ASSUME DocInv, NEW j \in Jobs, NEW k \in VtcKeys, Docs!Sign(j, k), DocPlanOK' PROVE DocInv'
<1>0. DocTypes /\ DocPlanOK /\ Timely /\ JobsKnown /\ KeysKnown /\ PauseKnown
  BY DocParts DEF DocInv
<1>1. UNCHANGED <<now, vtc, resolver, ledger, doing, told>> /\ ~vtc.holds[j]
  BY DEF Docs!Sign
<1>2. PICK d \in Docs!Docs : sent' = sent \cup {d} /\ d.job = j /\ d.at <= now + Skew
  <2>1. plan.ahead \in Nat /\ plan.ahead <= Skew /\ now \in Nat
    BY <1>0, DocTimes DEF DocPlanOK, DocTypes
  <2>2. now + plan.ahead \in Nat /\ now + plan.ahead <= now + Skew
    BY <2>1, DocTimes
  <2> DEFINE d == [job |-> j, key |-> k, at |-> now + plan.ahead]
  <2>3. d \in Docs!Docs /\ d.job = j /\ d.at <= now + Skew
    BY <2>2 DEF Docs!Docs
  <2> QED BY <2>3 DEF Docs!Sign
<1>3. DocTypes'
  BY <1>0, <1>1, <1>2 DEF DocTypes
<1>4. Timely'
  BY <1>0, <1>1, <1>2 DEF Timely
<1>5. JobsKnown'
  BY <1>0, <1>1, <1>2 DEF JobsKnown, JobKnown
<1>6. KeysKnown' /\ PauseKnown'
  BY <1>0, <1>1 DEF KeysKnown, PauseKnown
<1> QED BY <1>3, <1>4, <1>5, <1>6, DocParts DEF DocInv, Docs!TypeOK, DocTypes, DocPlanOK, Vtcs, Resolvers, Records, Doings, Tolds

LEMMA DocPartsNext ==
  DocTypes' /\ DocPlanOK' /\ Timely' /\ JobsKnown' /\ KeysKnown' /\ PauseKnown' => DocInv'
BY DEF DocInv, Docs!TypeOK, DocTypes, DocPlanOK, Vtcs, Resolvers, Records, Doings, Tolds

(* The VTC changes its key: what was resolved is now of the past.          *)
LEMMA RotateStep ==
  ASSUME DocInv, NEW k \in VtcKeys, Docs!Rotate(k) PROVE DocInv'
<1>0. DocTypes /\ DocPlanOK /\ Timely /\ JobsKnown /\ KeysKnown /\ PauseKnown
  BY DocParts DEF DocInv
<1>1. UNCHANGED <<now, sent, resolver, ledger, doing, told>>
  BY DEF Docs!Rotate
<1>2. DocPlanOK'
  BY <1>0, HappensCounts DEF Docs!Rotate, Docs!Moves
<1>3. vtc \in Vtcs /\ now \in Nat
  BY <1>0 DEF DocTypes
<1>4. vtc' = [vtc EXCEPT !.key = k, !.dropped[vtc.key] = now] /\ k # vtc.key /\ vtc.dropped[k] = Docs!Never
  BY DEF Docs!Rotate
<1>5. /\ vtc' \in Vtcs /\ vtc'.key = k /\ vtc'.holds = vtc.holds /\ vtc'.dropped[k] = Docs!Never
      /\ \A c \in VtcKeys : vtc'.dropped[c] = IF c = vtc.key THEN now ELSE vtc.dropped[c]
  BY <1>3, <1>4 DEF Vtcs
<1>6. DocTypes'
  BY <1>0, <1>1, <1>5 DEF DocTypes
<1>7. Timely'
  BY <1>0, <1>1 DEF Timely
<1>8. JobsKnown'
  BY <1>0, <1>1, <1>5 DEF JobsKnown, JobKnown
<1>9. KeysKnown'
  <2>1. /\ resolver.key # Nobody => resolver.key \in VtcKeys
        /\ doing.at = "job" => doing.doc.key \in VtcKeys
        /\ doing.passed \in Nat /\ resolver.until \in Nat
    BY <1>0 DEF DocTypes, Resolvers, Doings, Docs!Docs
  <2>2. doing.at = "job" => doing.passed <= now + Lifetime
    BY <1>0, <1>3, <2>1, DocTimes DEF KeysKnown
  <2> QED BY <1>0, <1>1, <1>5, <2>1, <2>2 DEF KeysKnown
<1>10. PauseKnown'
  BY <1>0, <1>1 DEF PauseKnown
<1> QED BY <1>2, <1>6, <1>7, <1>8, <1>9, <1>10, DocPartsNext


(* What a step changes when it is about one job's record.                   *)
OnlyJob(j) ==
  /\ \A i \in Jobs \ {j} : /\ ledger'[i] = ledger[i] /\ vtc'.holds[i] = vtc.holds[i]
                           /\ told'.ran[i] = told.ran[i] /\ told'.late[i] = told.late[i]
  /\ vtc'.key = vtc.key /\ vtc'.dropped = vtc.dropped /\ told'.again = told.again
  /\ UNCHANGED <<now, sent, resolver, plan, count>>

(* What concerns one job leaves what is known of the others.               *)
LEMMA JobStep ==
  ASSUME DocInv, NEW j \in Jobs, OnlyJob(j), JobKnown(j)',
         ledger' \in [Jobs -> Records], told' \in Tolds, vtc' \in Vtcs,
         doing' = doing \/ (doing' = Docs!Idle /\ doing.at # "again")
  PROVE  DocInv'
<1>0. DocTypes /\ DocPlanOK /\ Timely /\ JobsKnown /\ KeysKnown /\ PauseKnown
  BY DocParts DEF DocInv
<1>1. Docs!Idle \in Doings /\ Docs!Idle.at = "idle"
  BY DEF Docs!Idle, Doings
<1>2. doing'.at # "idle" \/ doing'.at = "again" => doing' = doing
  BY <1>1
<1>3. doing.at # "again" <=> doing'.at # "again"
  BY <1>1
<1>4. doing' \in Doings
  BY <1>0, <1>1 DEF DocTypes
<1>5. DocTypes'
  BY <1>0, <1>1, <1>4 DEF DocTypes, OnlyJob
<1>6. DocPlanOK'
  BY <1>0 DEF DocPlanOK, OnlyJob
<1>7. Timely'
  BY <1>0, <1>1 DEF Timely, OnlyJob
<1>8. JobsKnown'
  <2>1. ASSUME NEW i \in Jobs, i # j PROVE JobKnown(i)'
    BY <1>0, <2>1 DEF JobsKnown, JobKnown, OnlyJob
  <2> QED BY <2>1 DEF JobsKnown
<1>9. KeysKnown'
  BY <1>0, <1>1 DEF KeysKnown, OnlyJob
<1>10. PauseKnown'
  BY <1>0, <1>3 DEF PauseKnown, OnlyJob
<1> QED BY <1>5, <1>6, <1>7, <1>8, <1>9, <1>10, DocPartsNext

(* The VTC takes the result of a job.                                      *)
LEMMA TakeStep ==
  ASSUME DocInv, NEW j \in Jobs, Docs!TakeResult(j) PROVE DocInv'
<1>0. DocTypes /\ Timely /\ JobKnown(j)
  BY DocParts DEF DocInv, JobsKnown
<1>1. /\ UNCHANGED <<now, sent, resolver, ledger, doing, plan, count>>
      /\ ledger[j].state = "finished" /\ ~ledger[j].acked
  BY DEF Docs!TakeResult
<1>2. vtc' \in Vtcs /\ vtc'.key = vtc.key /\ vtc'.dropped = vtc.dropped
      /\ \A i \in Jobs : vtc'.holds[i] = IF i = j THEN TRUE ELSE vtc.holds[i]
  <2>1. vtc \in Vtcs /\ vtc' = [vtc EXCEPT !.holds[j] = TRUE]
    BY <1>0 DEF DocTypes, Docs!TakeResult
  <2> QED BY <2>1 DEF Vtcs
<1> DEFINE Late == told.late[j] \/ (~vtc.holds[j] /\ now + Skew + MaxAge + Slow > ledger[j].at + Retention)
<1>3. told' \in Tolds /\ told'.ran = told.ran /\ told'.again = told.again
      /\ \A i \in Jobs : told'.late[i] = IF i = j THEN Late ELSE told.late[i]
  <2>1. told \in Tolds /\ told' = [told EXCEPT !.late[j] = Late]
    BY <1>0 DEF DocTypes, Docs!TakeResult
  <2>2. Late \in BOOLEAN
    BY <2>1 DEF Tolds
  <2> HIDE DEF Late
  <2> QED BY <2>1, <2>2 DEF Tolds
<1>4. ASSUME ~Late, NEW d \in sent, d.job = j
      PROVE  d.at + MaxAge + Slow <= ledger[j].at + Retention
  <2>1. d.at \in Nat /\ now \in Nat /\ ledger[j].at \in Nat /\ d.at <= now + Skew
    BY <1>0 DEF DocTypes, Docs!Docs, Records, Timely
  <2>2. CASE vtc.holds[j]
    BY <1>0, <1>1, <1>4, <2>2 DEF JobKnown
  <2>3. CASE ~vtc.holds[j]
    BY <1>4, <2>1, <2>3, DocTimes
  <2> QED BY <2>2, <2>3
<1>5. JobKnown(j)'
  <2>1. told.ran[j] > 1 => Late
    BY <1>0 DEF JobKnown
  <2> HIDE DEF Late
  <2> QED BY <1>0, <1>1, <1>2, <1>3, <1>4, <2>1 DEF JobKnown
<1>6. OnlyJob(j)
  BY <1>1, <1>2, <1>3 DEF OnlyJob
<1>7. ledger' \in [Jobs -> Records]
  BY <1>0, <1>1 DEF DocTypes
<1> QED BY <1>1, <1>2, <1>3, <1>5, <1>6, <1>7, JobStep

(* A record of one job that changes alone.                                  *)
LEMMA RecordEffect ==
  ASSUME DocTypes, NEW j \in Jobs, NEW r \in Records, ledger' = [ledger EXCEPT ![j] = r],
         UNCHANGED <<now, vtc, sent, resolver, plan, count>>, told'.again = told.again, told' \in Tolds,
         \A i \in Jobs \ {j} : told'.ran[i] = told.ran[i] /\ told'.late[i] = told.late[i]
  PROVE  ledger' \in [Jobs -> Records] /\ ledger'[j] = r /\ OnlyJob(j) /\ vtc' \in Vtcs
<1>1. ledger' \in [Jobs -> Records] /\ ledger'[j] = r /\ \A i \in Jobs \ {j} : ledger'[i] = ledger[i]
  BY DEF DocTypes
<1> QED BY <1>1 DEF DocTypes, OnlyJob

(* The job ends, and its record is kept for the retention from then on.    *)
LEMMA FinishStep ==
  ASSUME DocInv, NEW j \in Jobs, Docs!Finish(j) PROVE DocInv'
<1>0. DocTypes /\ JobKnown(j)
  BY DocParts DEF DocInv, JobsKnown
<1>1. PICK r \in Records : r.state = "finished" /\ r.acked = FALSE /\ ledger' = [ledger EXCEPT ![j] = r]
  <2>1. [Docs!NoJob EXCEPT !.state = "finished", !.at = now] \in Records
    BY <1>0 DEF DocTypes, Docs!NoJob, Records
  <2>2. [Docs!NoJob EXCEPT !.state = "finished", !.at = now].state = "finished"
        /\ [Docs!NoJob EXCEPT !.state = "finished", !.at = now].acked = FALSE
    BY DEF Docs!NoJob
  <2> QED BY <2>1, <2>2 DEF Docs!Finish
<1>2. ledger[j].state = "open" /\ UNCHANGED <<now, vtc, sent, resolver, doing, told, plan, count>>
  BY DEF Docs!Finish
<1>3. told' \in Tolds
  BY <1>0, <1>2 DEF DocTypes
<1>4. ledger' \in [Jobs -> Records] /\ ledger'[j] = r /\ OnlyJob(j) /\ vtc' \in Vtcs
  BY <1>0, <1>1, <1>2, <1>3, RecordEffect
<1>5. JobKnown(j)'
  BY <1>0, <1>1, <1>2, <1>4 DEF JobKnown
<1> QED BY <1>2, <1>3, <1>4, <1>5, JobStep

(* An acknowledgement reaches the ledger.                                  *)
LEMMA AcknowledgeStep ==
  ASSUME DocInv, NEW j \in Jobs, Docs!Acknowledge(j) PROVE DocInv'
<1>0. DocTypes /\ JobKnown(j)
  BY DocParts DEF DocInv, JobsKnown
<1>1. PICK r \in Records : r.state = ledger[j].state /\ r.at = ledger[j].at /\ r.acked = TRUE
                          /\ ledger' = [ledger EXCEPT ![j] = r]
  <2>1. ledger[j] \in Records
    BY <1>0 DEF DocTypes
  <2>2. [ledger[j] EXCEPT !.acked = TRUE] \in Records
        /\ [ledger[j] EXCEPT !.acked = TRUE].state = ledger[j].state
        /\ [ledger[j] EXCEPT !.acked = TRUE].at = ledger[j].at
        /\ [ledger[j] EXCEPT !.acked = TRUE].acked = TRUE
    BY <2>1 DEF Records
  <2>3. ledger' = [ledger EXCEPT ![j] = [ledger[j] EXCEPT !.acked = TRUE]]
    BY DEF Docs!Acknowledge
  <2> QED BY <2>2, <2>3
<1>2. vtc.holds[j] /\ UNCHANGED <<now, vtc, sent, resolver, doing, told, plan, count>>
  BY DEF Docs!Acknowledge
<1>3. told' \in Tolds
  BY <1>0, <1>2 DEF DocTypes
<1>4. ledger' \in [Jobs -> Records] /\ ledger'[j] = r /\ OnlyJob(j) /\ vtc' \in Vtcs
  BY <1>0, <1>1, <1>2, <1>3, RecordEffect
<1>5. JobKnown(j)'
  BY <1>0, <1>1, <1>2, <1>4 DEF JobKnown
<1> QED BY <1>2, <1>3, <1>4, <1>5, JobStep

(* The record goes: only when all the job's documents are too old.         *)
LEMMA PruneStep ==
  ASSUME DocInv, NEW j \in Jobs, Docs!Prune(j) PROVE DocInv'
<1>0. DocTypes /\ JobKnown(j) /\ Timely
  BY DocParts DEF DocInv, JobsKnown
<1>1. Docs!NoJob \in Records /\ Docs!NoJob.state = "none" /\ Docs!NoJob.acked = FALSE
  BY DEF Docs!NoJob, Records
<1>2. /\ ledger[j].state = "finished" /\ ledger[j].acked /\ now - ledger[j].at > Retention
      /\ ledger' = [ledger EXCEPT ![j] = Docs!NoJob]
      /\ UNCHANGED <<now, vtc, sent, resolver, doing, told, plan, count>>
  BY DEF Docs!Prune, Docs!Old
<1>3. told' \in Tolds
  BY <1>0, <1>2 DEF DocTypes
<1>4. ledger' \in [Jobs -> Records] /\ ledger'[j] = Docs!NoJob /\ OnlyJob(j) /\ vtc' \in Vtcs
  BY <1>0, <1>1, <1>2, <1>3, RecordEffect
<1>5. ASSUME ~told.late[j], NEW d \in sent, d.job = j PROVE d.at + MaxAge + Slow < now
  <2>1. d.at \in Nat /\ now \in Nat /\ ledger[j].at \in Nat
    BY <1>0 DEF DocTypes, Docs!Docs, Records
  <2>2. d.at + MaxAge + Slow <= ledger[j].at + Retention
    BY <1>0, <1>2, <1>5 DEF JobKnown
  <2> QED BY <1>2, <2>1, <2>2, DocTimes
<1>6. JobKnown(j)'
  BY <1>0, <1>1, <1>2, <1>4, <1>5 DEF JobKnown
<1> QED BY <1>2, <1>3, <1>4, <1>6, JobStep

(* A document that passed all checks is acted upon, or its record is there.*)
LEMMA ActStep ==
  ASSUME DocInv, Docs!Act PROVE DocInv'
<1>0. DocTypes /\ Timely /\ JobsKnown /\ doing.at = "job" /\ doing.doc \in Docs!Docs /\ doing.doc \in sent
  BY DocParts DEF DocInv, DocTypes, Docs!Act, Timely
<1>10. PICK j \in Jobs : j = doing.doc.job
  BY <1>0 DEF Docs!Docs
<1>1. j \in Jobs /\ JobKnown(j)
  BY <1>0 DEF JobsKnown
<1>2. doing' = Docs!Idle /\ UNCHANGED <<now, vtc, sent, resolver, plan, count>>
  BY DEF Docs!Act
<1>3. CASE ledger[j].state = "none"
  <2>1. PICK r \in Records : r.state = "open" /\ r.acked = FALSE /\ ledger' = [ledger EXCEPT ![j] = r]
    <3>1. [Docs!NoJob EXCEPT !.state = "open"] \in Records
          /\ [Docs!NoJob EXCEPT !.state = "open"].state = "open"
          /\ [Docs!NoJob EXCEPT !.state = "open"].acked = FALSE
      BY DEF Docs!NoJob, Records
    <3>2. ledger' = [ledger EXCEPT ![j] = [Docs!NoJob EXCEPT !.state = "open"]]
      BY <1>3, <1>10 DEF Docs!Act
    <3> QED BY <3>1, <3>2
  <2>2. told \in Tolds /\ told' = [told EXCEPT !.ran[j] = told.ran[j] + 1]
    BY <1>0, <1>3, <1>10 DEF DocTypes, Docs!Act
  <2>3. /\ told' \in Tolds /\ told'.again = told.again /\ told'.late = told.late
        /\ told'.ran[j] = told.ran[j] + 1 /\ told.ran[j] \in Nat
        /\ \A i \in Jobs \ {j} : told'.ran[i] = told.ran[i]
    BY <1>1, <2>2 DEF Tolds
  <2>4. ledger' \in [Jobs -> Records] /\ ledger'[j] = r /\ OnlyJob(j) /\ vtc' \in Vtcs
    BY <1>0, <1>1, <1>2, <2>1, <2>3, RecordEffect
  <2>5. ASSUME vtc.holds[j], ~told.late[j] PROVE FALSE
    <3>1. doing.doc.at \in Nat /\ now \in Nat /\ doing.doc.job = j
      BY <1>0, <1>10 DEF DocTypes, Docs!Docs
    <3>2. doing.doc.at + MaxAge + Slow < now
      BY <1>0, <1>1, <1>3, <1>10, <2>5, <3>1 DEF JobKnown
    <3> QED BY <1>0, <3>1, <3>2, TooLate
  <2>6. told'.ran[j] > 1 => told.late[j]
    <3>1. told.ran[j] > 0 => vtc.holds[j]
      BY <1>1, <1>3 DEF JobKnown
    <3> QED BY <2>3, <2>5, <3>1
  <2>7. JobKnown(j)'
    BY <1>1, <1>2, <2>1, <2>3, <2>4, <2>5, <2>6 DEF JobKnown
  <2> QED BY <1>0, <1>1, <1>2, <2>3, <2>4, <2>7, JobStep
<1>4. CASE ledger[j].state # "none"
  <2>1. PICK r \in Records : r.state = ledger[j].state /\ r.at = ledger[j].at /\ r.acked = FALSE
                            /\ ledger' = [ledger EXCEPT ![j] = r]
    <3>1. ledger[j] \in Records
      BY <1>0, <1>1 DEF DocTypes
    <3>2. [ledger[j] EXCEPT !.acked = FALSE] \in Records
          /\ [ledger[j] EXCEPT !.acked = FALSE].state = ledger[j].state
          /\ [ledger[j] EXCEPT !.acked = FALSE].at = ledger[j].at
          /\ [ledger[j] EXCEPT !.acked = FALSE].acked = FALSE
      BY <3>1 DEF Records
    <3>3. ledger' = [ledger EXCEPT ![j] = [ledger[j] EXCEPT !.acked = FALSE]]
      BY <1>4, <1>10 DEF Docs!Act
    <3> QED BY <3>2, <3>3
  <2>2. told' = told /\ told' \in Tolds
    BY <1>0, <1>4, <1>10 DEF Docs!Act, DocTypes
  <2>3. ledger' \in [Jobs -> Records] /\ ledger'[j] = r /\ OnlyJob(j) /\ vtc' \in Vtcs
    BY <1>0, <1>1, <1>2, <2>1, <2>2, RecordEffect
  <2>4. JobKnown(j)'
    BY <1>1, <1>2, <2>1, <2>2, <2>3 DEF JobKnown
  <2> QED BY <1>0, <1>1, <1>2, <2>2, <2>3, <2>4, JobStep
<1> QED BY <1>3, <1>4

(* What a step changes when no record changes.                              *)
LEMMA HandlingStep ==
  ASSUME DocInv, UNCHANGED <<now, vtc, sent, ledger>>, DocPlanOK',
         resolver' \in Resolvers, doing' \in Doings, told' \in Tolds,
         told'.ran = told.ran, told'.late = told.late,
         doing'.at # "idle" => /\ doing'.doc \in Docs!Docs /\ doing'.doc \in sent
                               /\ doing'.since <= now /\ now <= doing'.since + Slow
                               /\ doing'.since <= doing'.doc.at + MaxAge,
         KeysKnown', PauseKnown'
  PROVE  DocInv'
<1>0. DocTypes /\ Timely /\ JobsKnown
  BY DocParts DEF DocInv
<1>1. DocTypes'
  BY <1>0 DEF DocTypes
<1>2. Timely'
  BY <1>0 DEF Timely
<1>3. JobsKnown'
  BY <1>0 DEF JobsKnown, JobKnown
<1> QED BY <1>1, <1>2, <1>3, DocPartsNext

(* A document arrives, and is looked at if it is fresh.                    *)
LEMMA ReceiveStep ==
  ASSUME DocInv, NEW d \in sent, Docs!Receive(d) PROVE DocInv'
<1>0. DocTypes /\ DocPlanOK /\ Timely /\ KeysKnown /\ PauseKnown /\ now \in Nat /\ d \in Docs!Docs
  BY DocParts DEF DocInv, DocTypes
<1>1. /\ UNCHANGED <<now, vtc, sent, resolver, ledger, told, plan, count>> /\ now <= d.at + MaxAge
      /\ doing.at = "idle"
  BY DEF Docs!Receive, Docs!Fresh
<1>2. doing' \in Doings /\ doing'.at = "proof" /\ doing'.doc = d /\ doing'.since = now
  BY <1>0 DEF Docs!Receive, Docs!Idle, Docs!NoDoc, Doings
<1>3. DocPlanOK'
  BY <1>0, <1>1 DEF DocPlanOK
<1>4. resolver' \in Resolvers /\ told' \in Tolds
  BY <1>0, <1>1 DEF DocTypes
<1>5. KeysKnown'
  BY <1>0, <1>1, <1>2 DEF KeysKnown
<1>6. PauseKnown'
  BY <1>0, <1>1, <1>2 DEF PauseKnown
<1>7. now <= now + Slow
  BY <1>0, DocTimes
<1> QED BY <1>0, <1>1, <1>2, <1>3, <1>4, <1>5, <1>6, <1>7, HandlingStep

(* What is believed while the proof is checked: some key of the VTC's, for  *)
(* no longer than it may be.                                                *)
Believable(r) ==
  /\ r \in Resolvers /\ r.last = resolver.last
  /\ r.key # Nobody =>
       /\ r.until <= now + Lifetime
       /\ vtc.dropped[r.key] # Docs!Never => r.until <= vtc.dropped[r.key] + Lifetime

(* What the resolver says is of the moment.                                *)
LEMMA ResolvedIsBelievable ==
  ASSUME DocInv PROVE Believable(Docs!Resolved) /\ Docs!Resolved.key = vtc.key
<1>0. DocTypes /\ KeysKnown
  BY DocParts DEF DocInv
<1>1. resolver \in Resolvers /\ now \in Nat /\ now + Lifetime \in Nat /\ vtc.key \in VtcKeys
  BY <1>0, DocTimes DEF DocTypes, Vtcs
<1>2. /\ Docs!Resolved \in Resolvers /\ Docs!Resolved.last = resolver.last
      /\ Docs!Resolved.key = vtc.key /\ Docs!Resolved.until = now + Lifetime
  BY <1>1 DEF Docs!Resolved, Resolvers
<1> QED BY <1>0, <1>1, <1>2 DEF Believable, KeysKnown

(* The proof holds under what is believed: the document is passed on.       *)
LEMMA PassStep ==
  ASSUME DocInv, NEW r \in Resolvers, Believable(r), resolver' = r, r.key = doing.doc.key,
         doing.doc.key \in VtcKeys,
         vtc.dropped[doing.doc.key] # Docs!Never => now <= vtc.dropped[doing.doc.key] + Lifetime,
         doing.at # "idle", Docs!Pass, UNCHANGED <<now, vtc, sent, ledger>>, DocPlanOK',
         told' \in Tolds, told'.ran = told.ran, told'.late = told.late,
         r.last <= told'.again, -Pause <= told'.again, r.last <= now
  PROVE  DocInv'
<1>0. DocTypes /\ Timely /\ KeysKnown /\ PauseKnown
  BY DocParts DEF DocInv
<1>1. /\ doing' \in Doings /\ doing'.at = "job" /\ doing'.doc = doing.doc
      /\ doing'.since = doing.since /\ doing'.passed = now
  BY <1>0 DEF DocTypes, Docs!Pass, Doings
<1>2. KeysKnown'
  <2>1. now <= now
    BY <1>0 DEF DocTypes
  <2> QED BY <1>0, <1>1, <2>1 DEF KeysKnown, Believable
<1>3. PauseKnown'
  BY <1>1 DEF PauseKnown
<1> QED BY <1>0, <1>1, <1>2, <1>3, HandlingStep DEF DocTypes, Timely

(* It does not, and the document is given up.                               *)
LEMMA RefuseStep ==
  ASSUME DocInv, NEW r \in Resolvers, resolver' = r, Docs!Refuse,
         r.key # Nobody => Believable(r),
         UNCHANGED <<now, vtc, sent, ledger>>, DocPlanOK',
         told' \in Tolds, told'.ran = told.ran, told'.late = told.late,
         r.last <= told'.again, -Pause <= told'.again, r.last <= now
  PROVE  DocInv'
<1>0. DocTypes /\ KeysKnown
  BY DocParts DEF DocInv
<1>1. doing' \in Doings /\ doing'.at = "idle"
  BY DEF Docs!Refuse, Docs!Idle, Doings
<1>2. KeysKnown'
  BY <1>0, <1>1 DEF KeysKnown, Believable
<1>3. PauseKnown'
  BY <1>1 DEF PauseKnown
<1> QED BY <1>1, <1>2, <1>3, HandlingStep

(* The first failure in a while has the document checked again.             *)
LEMMA AgainStep ==
  ASSUME DocInv, doing.at = "proof", UNCHANGED <<now, vtc, sent, ledger, told>>, DocPlanOK',
         NEW r \in Resolvers, resolver' = r, r.key = Nobody, r.last = now,
         doing' \in Doings, doing'.at = "again", doing'.doc = doing.doc, doing'.since = doing.since
  PROVE  DocInv'
<1>0. DocTypes /\ Timely /\ KeysKnown /\ PauseKnown
  BY DocParts DEF DocInv
<1>1. KeysKnown'
  BY <1>0 DEF KeysKnown
<1>2. PauseKnown'
  BY <1>0 DEF PauseKnown, DocTypes
<1> QED BY <1>0, <1>1, <1>2, HandlingStep DEF DocTypes, Timely

(* A proof that does not verify is tried again with a key resolved anew.   *)
LEMMA DoubtStep ==
  ASSUME DocInv, doing.at = "proof", NEW r \in Resolvers, Docs!Doubt(r), Believable(r),
         UNCHANGED <<now, vtc, sent, ledger, told>>, DocPlanOK'
  PROVE  DocInv'
<1>0. DocTypes /\ PauseKnown /\ now \in Nat
  BY DocParts DEF DocInv, DocTypes
<1>1. CASE Docs!MayResolveAgain
  <2>1. resolver' = [r EXCEPT !.key = Nobody, !.last = now] /\ doing' = [doing EXCEPT !.at = "again"]
    BY <1>1 DEF Docs!Doubt
  <2>2. PICK q \in Resolvers : resolver' = q /\ q.key = Nobody /\ q.last = now
    <3> DEFINE q == [key |-> Nobody, until |-> r.until, last |-> now]
    <3>1. r.until \in Nat /\ now \in Int
      BY <1>0 DEF Resolvers
    <3>2. q \in Resolvers /\ q.key = Nobody /\ q.last = now
      BY <3>1 DEF Resolvers
    <3>3. resolver' = q
      BY <2>1 DEF Resolvers
    <3> QED BY <3>2, <3>3
  <2>3. doing' \in Doings /\ doing'.at = "again" /\ doing'.doc = doing.doc /\ doing'.since = doing.since
    BY <1>0, <2>1 DEF DocTypes, Doings
  <2> QED BY <2>2, <2>3, AgainStep
<1>2. CASE ~Docs!MayResolveAgain
  <2>1. resolver' = r /\ Docs!Refuse
    BY <1>2 DEF Docs!Doubt
  <2>2. told' \in Tolds /\ r.last <= told'.again /\ -Pause <= told'.again /\ r.last <= now
    BY <1>0 DEF DocTypes, PauseKnown, Believable
  <2> QED BY <2>1, <2>2, RefuseStep
<1> QED BY <1>1, <1>2

(* The proof is checked with the key believed.                             *)
LEMMA ProveStep ==
  ASSUME DocInv, Docs!Prove PROVE DocInv'
<1>0. DocTypes /\ DocPlanOK /\ Timely /\ KeysKnown /\ PauseKnown
  BY DocParts DEF DocInv
<1>1. /\ doing.at = "proof" /\ UNCHANGED <<now, vtc, sent, ledger, told>>
      /\ doing.doc \in Docs!Docs /\ doing.doc.key \in VtcKeys
  BY <1>0 DEF Docs!Prove, DocTypes, Docs!Docs
<1>2. Believable(resolver)
  BY <1>0 DEF Believable, KeysKnown, DocTypes
<1>3. ASSUME UNCHANGED <<plan, count>>,
             IF Docs!Believed.key = doing.doc.key THEN resolver' = Docs!Believed /\ Docs!Pass ELSE Docs!Doubt(Docs!Believed)
      PROVE  DocInv'
  <2>1. PICK r \in Resolvers : r = Docs!Believed /\ Believable(r)
    BY <1>2, ResolvedIsBelievable DEF Docs!Believed, Believable
  <2>2. DocPlanOK'
    BY <1>0, <1>3 DEF DocPlanOK
  <2>3. CASE r.key = doing.doc.key
    <3>1. resolver' = r /\ Docs!Pass
      BY <1>3, <2>1, <2>3
    <3>2. vtc.dropped[doing.doc.key] # Docs!Never => now <= vtc.dropped[doing.doc.key] + Lifetime
      <4>1. CASE Docs!Cached
        <5>1. r = resolver /\ now < resolver.until /\ resolver.key # Nobody
          BY <2>1, <4>1 DEF Docs!Believed, Docs!Cached
        <5>2. resolver.until \in Nat /\ now \in Nat /\ vtc.dropped[doing.doc.key] \in Nat \cup {Docs!Never}
          BY <1>0, <1>1 DEF DocTypes, Resolvers, Vtcs
        <5>3. vtc.dropped[doing.doc.key] # Docs!Never => resolver.until <= vtc.dropped[doing.doc.key] + Lifetime
          BY <1>2, <2>3, <5>1 DEF Believable
        <5> QED BY <5>1, <5>2, <5>3, DocTimes DEF Docs!Never
      <4>2. CASE ~Docs!Cached
        <5>1. r.key = vtc.key
          BY <2>1, <4>2, ResolvedIsBelievable DEF Docs!Believed
        <5> QED BY <1>0, <2>3, <5>1 DEF KeysKnown
      <4> QED BY <4>1, <4>2
    <3>3. told' \in Tolds /\ r.last <= told'.again /\ -Pause <= told'.again /\ r.last <= now
      BY <1>0, <1>1, <2>1 DEF DocTypes, PauseKnown, Believable
    <3> QED BY <1>1, <2>1, <2>2, <2>3, <3>1, <3>2, <3>3, PassStep
  <2>4. CASE r.key # doing.doc.key
    <3>1. Docs!Doubt(r)
      BY <1>3, <2>1, <2>4
    <3> QED BY <1>1, <2>1, <2>2, <3>1, DoubtStep
  <2> QED BY <2>3, <2>4
<1>4. ASSUME Docs!Happens("down"), Docs!Doubt(resolver) PROVE DocInv'
  <2>1. DocPlanOK'
    BY <1>0, <1>4, HappensCounts DEF Docs!Moves
  <2>2. PICK r \in Resolvers : r = resolver
    BY <1>0 DEF DocTypes
  <2>3. Docs!Doubt(r) /\ Believable(r)
    BY <1>2, <1>4, <2>2
  <2> QED BY <1>1, <2>1, <2>3, DoubtStep
<1> QED BY <1>3, <1>4 DEF Docs!Prove

(* The proof is checked once more.                                         *)
LEMMA ProveAgainStep ==
  ASSUME DocInv, Docs!ProveAgain PROVE DocInv'
<1>0. DocTypes /\ DocPlanOK /\ Timely /\ KeysKnown /\ PauseKnown /\ now \in Nat
  BY DocParts DEF DocInv, DocTypes
<1>1. /\ doing.at = "again" /\ UNCHANGED <<now, vtc, sent, ledger>>
      /\ doing.doc \in Docs!Docs /\ doing.doc.key \in VtcKeys
  BY <1>0 DEF Docs!ProveAgain, DocTypes, Docs!Docs
<1>2. told' \in Tolds /\ told'.ran = told.ran /\ told'.late = told.late /\ told'.again = now
  BY <1>0 DEF Docs!ProveAgain, DocTypes, Tolds
<1>3. resolver.last <= told'.again /\ -Pause <= told'.again /\ resolver.last <= now
  BY <1>0, <1>2, DocTimes DEF PauseKnown
<1>4. ASSUME UNCHANGED <<plan, count>>, resolver' = Docs!Resolved,
             IF vtc.key = doing.doc.key THEN Docs!Pass ELSE Docs!Refuse
      PROVE  DocInv'
  <2>1. PICK r \in Resolvers : r = Docs!Resolved /\ Believable(r) /\ r.key = vtc.key
    BY ResolvedIsBelievable DEF Believable
  <2>2. DocPlanOK'
    BY <1>0, <1>4 DEF DocPlanOK
  <2>3. r.last <= told'.again /\ r.last <= now
    BY <1>3, <2>1 DEF Believable
  <2>4. CASE vtc.key = doing.doc.key
    <3>1. Docs!Pass
      BY <1>4, <2>4
    <3> QED BY <1>0, <1>1, <1>2, <1>3, <1>4, <2>1, <2>2, <2>3, <2>4, <3>1, PassStep DEF KeysKnown
  <2>5. CASE vtc.key # doing.doc.key
    <3>1. Docs!Refuse
      BY <1>4, <2>5
    <3> QED BY <1>1, <1>2, <1>3, <1>4, <2>1, <2>2, <2>3, <3>1, RefuseStep
  <2> QED BY <2>4, <2>5
<1>5. ASSUME Docs!Happens("down"), Docs!Refuse, UNCHANGED resolver PROVE DocInv'
  <2>1. DocPlanOK'
    BY <1>0, <1>5, HappensCounts DEF Docs!Moves
  <2>2. PICK r \in Resolvers : r = resolver
    BY <1>0 DEF DocTypes
  <2>3. Believable(r) /\ r.last <= told'.again /\ r.last <= now
    BY <1>0, <1>3, <2>2 DEF Believable, KeysKnown
  <2> QED BY <1>1, <1>2, <1>3, <1>5, <2>1, <2>2, <2>3, RefuseStep
<1> QED BY <1>4, <1>5 DEF Docs!ProveAgain

(* A crash forgets the document at hand.                                   *)
LEMMA CrashStep ==
  ASSUME DocInv, Docs!Crash PROVE DocInv'
<1>0. DocTypes /\ DocPlanOK /\ PauseKnown /\ now \in Nat
  BY DocParts DEF DocInv, DocTypes
<1>1. DocPlanOK' /\ UNCHANGED <<now, vtc, sent, ledger, told>> /\ Docs!Refuse
  BY <1>0, HappensCounts DEF Docs!Crash, Docs!Moves, Docs!Refuse
<1>2. PICK r \in Resolvers : r = resolver' /\ r.key = Nobody /\ r.last = -Pause
  <2>1. [key |-> Nobody, until |-> 0, last |-> -Pause] \in Resolvers
    BY DocTimes DEF Resolvers
  <2> QED BY <2>1 DEF Docs!Crash
<1>3. told' \in Tolds /\ r.last <= told'.again /\ -Pause <= told'.again /\ r.last <= now
  BY <1>0, <1>1, <1>2, DocTimes DEF DocTypes, PauseKnown
<1> QED BY <1>1, <1>2, <1>3, RefuseStep

(* Time passes, but not past what must be done before.                     *)
LEMMA TickStep ==
  ASSUME DocInv, Docs!Tick PROVE DocInv'
<1>0. DocTypes /\ DocPlanOK /\ Timely /\ JobsKnown /\ KeysKnown /\ PauseKnown /\ now \in Nat
  BY DocParts DEF DocInv, DocTypes
<1>1. /\ now' = now + 1 /\ UNCHANGED <<vtc, sent, resolver, ledger, doing, told, plan, count>>
      /\ doing.at = "idle" \/ now < doing.since + Slow
  BY DEF Docs!Tick
<1>2. DocTypes' /\ DocPlanOK'
  BY <1>0, <1>1 DEF DocTypes, DocPlanOK
<1>3. \A d \in sent : d.at \in Nat
  BY <1>0 DEF DocTypes, Docs!Docs
<1>4. doing.since \in Nat /\ doing.passed \in Nat /\ resolver.until \in Nat /\ resolver.last \in Int
  BY <1>0 DEF DocTypes, Doings, Resolvers
<1>5. Timely'
  BY <1>0, <1>1, <1>3, <1>4, DocTimes DEF Timely
<1>6. JobsKnown'
  BY <1>0, <1>1, <1>3, DocTimes DEF JobsKnown, JobKnown
<1>7. KeysKnown'
  BY <1>0, <1>1, <1>4, DocTimes DEF KeysKnown
<1>8. PauseKnown'
  BY <1>0, <1>1, <1>4 DEF PauseKnown
<1> QED BY <1>2, <1>5, <1>6, <1>7, <1>8, DocPartsNext

(* The invariant of the documents, and what it gives.                      *)
LEMMA DocInvStep == DocInv /\ Docs!Next => DocInv'
<1> SUFFICES ASSUME DocInv, Docs!Next PROVE DocInv'
  OBVIOUS
<1>0. DocPlanOK
  BY DocParts DEF DocInv
<1>1. ASSUME NEW j \in Jobs, Docs!Issue(j) PROVE DocInv'
  <2>1. PICK k \in VtcKeys : k = vtc.key
    BY DocParts DEF DocInv, DocTypes, Vtcs
  <2>2. Docs!Sign(j, k) /\ DocPlanOK'
    BY <1>0, <1>1, <2>1 DEF Docs!Issue, DocPlanOK
  <2> QED BY <2>2, SignStep
<1>2. ASSUME NEW j \in Jobs, NEW k \in VtcKeys, Docs!IssueOld(j, k) PROVE DocInv'
  BY <1>0, <1>2, HappensCounts, SignStep DEF Docs!IssueOld, Docs!Moves
<1>3. ASSUME NEW j \in Jobs,
             Docs!TakeResult(j) \/ Docs!Finish(j) \/ Docs!Acknowledge(j) \/ Docs!Prune(j)
      PROVE  DocInv'
  BY <1>3, TakeStep, FinishStep, AcknowledgeStep, PruneStep
<1> QED BY <1>1, <1>2, <1>3, RotateStep, ReceiveStep, ProveStep, ProveAgainStep, ActStep,
           CrashStep, TickStep DEF Docs!Next

LEMMA DocsAreSafe ==
  DocInv => Docs!TypeOK /\ Docs!ActsOnce /\ Docs!DroppedIsForgotten
BY DEF DocInv, JobsKnown, JobKnown, KeysKnown, Docs!ActsOnce, Docs!DroppedIsForgotten

(* A refusal without a fault: the key is another, or a resolution was tried *)
(* less than a pause ago.                                                   *)
LEMMA HearingStep == DocInv /\ Docs!Next => Docs!HeardOrSoon
<1> SUFFICES ASSUME DocInv, Docs!Next, doing.at \in {"proof", "again"}, doing'.at = "idle",
                    count' = count, doing.doc.key = vtc.key
             PROVE  now < told.again + Pause
  BY DEF Docs!HeardOrSoon
<1>0. DocTypes /\ DocPlanOK /\ PauseKnown
  BY DocParts DEF DocInv
<1>1. ASSUME NEW m \in Docs!Moves, Docs!Happens(m) PROVE FALSE
  BY <1>0, <1>1, HappensCounts
<1>2. doing'.at # doing.at
  OBVIOUS
<1>3. Docs!Prove \/ Docs!ProveAgain
  BY <1>1, <1>2 DEF Docs!Next, Docs!Issue, Docs!IssueOld, Docs!Sign, Docs!Rotate, Docs!TakeResult,
     Docs!Finish, Docs!Acknowledge, Docs!Prune, Docs!Receive, Docs!Act, Docs!Crash, Docs!Tick, Docs!Moves
<1>4. ~Docs!Pass
  BY <1>0 DEF Docs!Pass, DocTypes, Doings
<1>5. CASE Docs!Prove
  <2>1. Docs!Doubt(Docs!Believed)
    BY <1>1, <1>4, <1>5 DEF Docs!Prove, Docs!Moves
  <2>2. ~Docs!MayResolveAgain
    BY <1>0, <2>1 DEF Docs!Doubt, DocTypes, Doings
  <2>3. now \in Nat /\ resolver.last \in Int /\ told.again \in Int /\ resolver.last <= told.again
    BY <1>0, <1>5 DEF DocTypes, Resolvers, Tolds, PauseKnown, Docs!Prove
  <2> QED BY <2>2, <2>3, DocTimes DEF Docs!MayResolveAgain
<1>6. CASE Docs!ProveAgain
  BY <1>1, <1>4, <1>6 DEF Docs!ProveAgain, Docs!Moves
<1> QED BY <1>3, <1>5, <1>6

-----------------------------------------------------------------------------
(* A run's session with its mediator.                                       *)
Sessions == [keys : BOOLEAN, open : BOOLEAN, failed : BOOLEAN, closed : BOOLEAN]
Holders == [by : Queries \cup {Meeting!NoQuery},
            at : {"free", "mint", "connect", "invite", "relate", "send", "wait"}]
MeetPasts == [said : SUBSET Queries, allowed : BOOLEAN, early : SUBSET Queries, vain : Nat]
MeetPlans == [selector : Meeting!Kinds \cup {"auto"},
              offers : SUBSET (Meeting!Kinds \X {"did", "url"}), events : [Meeting!Events -> Nat]]
MeetTypes ==
  /\ kind \in Meeting!Kinds \cup {"none"} /\ holder \in Holders /\ session \in Sessions
  /\ query \in [Queries -> {"new", "answered", "error"}]
  /\ mailbox \subseteq Meeting!Frames /\ asked \subseteq Queries \cup {"invite"}
  /\ past \in MeetPasts
MeetPlanOK == plan \in MeetPlans /\ count \in [Meeting!Events -> Nat]

(* The lock is held by a query while it is under way, in a session that     *)
(* neither failed nor was closed, and that is open once queries are sent.   *)
LockKnown ==
  /\ holder.at = "free" <=> holder.by = Meeting!NoQuery
  /\ holder.at # "free" => ~session.failed /\ ~session.closed
  /\ holder.at \in {"send", "wait"} => session.open
  /\ session.keys => session.open \/ holder.at # "free"

(* The wait that was in vain failed the session, and so did nothing but     *)
(* what counts as a fault or a refusal.                                     *)
FailureKnown ==
  /\ past.vain <= 1 /\ (past.vain > 0 => session.failed)
  /\ session.failed => past.vain + count["fails"] + count["refuses"] > 0
  /\ (\E q \in Queries : query[q] = "error")
       => past.vain + count["fails"] + count["refuses"] > 0 \/ session.closed

(* What the registry's frames in the mailbox say is what it did.            *)
FramesKnown ==
  \A f \in mailbox :
    /\ f.from = "registry" /\ f.says = "reply" => f.thread \in past.said
    /\ f.from = "registry" /\ f.says = "accept" => past.allowed
    /\ (\/ f.from = "registry" /\ f.says = "cancel"
        \/ f.from \in {"registry", "mediator"} /\ f.says = "problem") => count["refuses"] > 0
AnswersKnown ==
  /\ \A q \in Queries : query[q] = "answered" => q \in past.said
  /\ kind = "tsp" /\ session.open => past.allowed
  /\ past.early = {}

MeetInv ==
  /\ MeetTypes /\ MeetPlanOK
  /\ LockKnown /\ FailureKnown /\ FramesKnown /\ AnswersKnown

(* The route is one that the registry offers, or none (select_transport).  *)
LEMMA ChoiceIsAKind == MeetPlanOK => Meeting!ChooseRoute \in Meeting!Kinds \cup {"none"}
<1> SUFFICES ASSUME MeetPlanOK PROVE Meeting!ChooseRoute \in Meeting!Kinds \cup {"none"}
  OBVIOUS
<1>1. \A i \in DOMAIN Meeting!Bindings : Meeting!Bindings[i] \in Meeting!Kinds
  BY DEF Meeting!Bindings, Meeting!Kinds
<1>2. Meeting!SelectRoute \in Meeting!Kinds \cup {"none"}
  <2> DEFINE best == {i \in DOMAIN Meeting!Bindings :
                 /\ Meeting!Usable(Meeting!Bindings[i])
                 /\ \A j \in 1..(i - 1) : ~Meeting!Usable(Meeting!Bindings[j])}
  <2>1. best # {} => (CHOOSE i \in best : TRUE) \in DOMAIN Meeting!Bindings
    OBVIOUS
  <2>2. Meeting!SelectRoute = IF best = {} THEN "none" ELSE Meeting!Bindings[CHOOSE i \in best : TRUE]
    BY DEF Meeting!SelectRoute
  <2> HIDE DEF best
  <2> QED BY <1>1, <2>1, <2>2
<1>3. plan.selector \in Meeting!Kinds \cup {"auto"}
  BY DEF MeetPlanOK, MeetPlans
<1> QED BY <1>2, <1>3 DEF Meeting!ChooseRoute

(* It begins with no session and nothing asked.                            *)
LEMMA MeetInit == Meeting!Init => MeetInv
<1> SUFFICES ASSUME Meeting!Init PROVE MeetInv
  OBVIOUS
<1>1. MeetPlanOK
  BY SessionAssumption DEF Meeting!Init, MeetPlanOK, MeetPlans
<1>2. kind \in Meeting!Kinds \cup {"none"}
  BY <1>1, ChoiceIsAKind DEF Meeting!Init
<1>3. holder \in Holders /\ holder.at = "free" /\ holder.by = Meeting!NoQuery
  BY DEF Meeting!Init, Meeting!Free, Holders
<1>4. /\ session \in Sessions /\ ~session.keys /\ ~session.open /\ ~session.failed
      /\ ~session.closed
  BY DEF Meeting!Init, Sessions
<1>5. query \in [Queries -> {"new", "answered", "error"}] /\ \A q \in Queries : query[q] = "new"
  BY DEF Meeting!Init
<1>6. mailbox = {} /\ asked = {}
  BY DEF Meeting!Init
<1>7. past \in MeetPasts /\ past.vain = 0 /\ past.early = {}
  BY DEF Meeting!Init, MeetPasts
<1>8. MeetTypes
  BY <1>2, <1>3, <1>4, <1>5, <1>6, <1>7 DEF MeetTypes
<1>9. LockKnown
  BY <1>3, <1>4 DEF LockKnown
<1>10. FailureKnown
  BY <1>4, <1>5, <1>7 DEF FailureKnown
<1>11. FramesKnown /\ AnswersKnown
  BY <1>4, <1>5, <1>6, <1>7 DEF FramesKnown, AnswersKnown
<1> QED BY <1>1, <1>8, <1>9, <1>10, <1>11 DEF MeetInv

(* An event that happens is counted.                                        *)
LEMMA EventCounts ==
  ASSUME MeetPlanOK, NEW e \in Meeting!Events, Meeting!Happens(e)
  PROVE  /\ MeetPlanOK'
         /\ \A d \in Meeting!Events : count[d] \in Nat /\ count'[d] = IF d = e THEN count[d] + 1 ELSE count[d]
<1>1. count[e] \in Nat /\ count' = [count EXCEPT ![e] = @ + 1] /\ plan' = plan
  BY DEF Meeting!Happens, MeetPlanOK
<1> QED BY <1>1 DEF MeetPlanOK

(* Nothing out of the ordinary happens.                                    *)
LEMMA QuietPlan == MeetPlanOK /\ Meeting!Quiet => MeetPlanOK' /\ count' = count
BY DEF MeetPlanOK, Meeting!Quiet

(* How the lock is let go.                                                  *)
LEMMA EndsEffect ==
  ASSUME MeetTypes, LockKnown, holder.at # "free", NEW o \in {"answered", "error"}, Meeting!Ends(o)
  PROVE  /\ holder' \in Holders /\ holder'.at = "free" /\ holder'.by = Meeting!NoQuery
         /\ holder.by \in Queries
         /\ query' \in [Queries -> {"new", "answered", "error"}]
         /\ \A q \in Queries : query'[q] = IF q = holder.by THEN o ELSE query[q]
<1>1. holder.by \in Queries
  BY DEF MeetTypes, Holders, LockKnown
<1>2. holder' = Meeting!Free /\ query' = [query EXCEPT ![holder.by] = o]
  BY DEF Meeting!Ends
<1>3. holder' \in Holders /\ holder'.at = "free" /\ holder'.by = Meeting!NoQuery
  BY <1>2 DEF Meeting!Free, Holders
<1>4. query \in [Queries -> {"new", "answered", "error"}]
  BY DEF MeetTypes
<1> QED BY <1>1, <1>2, <1>3, <1>4

(* The holder of the lock goes on to the next step.                        *)
LEMMA GoesEffect ==
  ASSUME MeetTypes, NEW step \in {"connect", "invite", "relate", "send", "wait"}, Meeting!Goes(step)
  PROVE  holder' \in Holders /\ holder'.at = step /\ holder'.by = holder.by
BY DEF MeetTypes, Holders, Meeting!Goes

(* A session that failed while a query held it.                             *)
LEMMA FailingStep ==
  ASSUME MeetInv, holder.at # "free", Meeting!Ends("error"), session' \in Sessions,
         session'.failed, ~session'.closed, session'.open => session.open,
         session'.keys => session'.open,
         UNCHANGED kind, mailbox' \subseteq mailbox, asked' = asked,
         MeetPlanOK', \A e \in Meeting!Events : count[e] <= count'[e],
         past' \in MeetPasts, past'.said = past.said, past'.allowed = past.allowed,
         past'.early = past.early,
         past'.vain = past.vain \/ past'.vain = past.vain + 1,
         past'.vain + count'["fails"] + count'["refuses"] > 0
  PROVE  MeetInv'
<1>0. MeetTypes /\ LockKnown /\ FailureKnown /\ FramesKnown /\ AnswersKnown
  BY DEF MeetInv
<1>1. /\ holder' \in Holders /\ holder'.at = "free" /\ holder'.by = Meeting!NoQuery
      /\ query' \in [Queries -> {"new", "answered", "error"}]
      /\ \A q \in Queries : query'[q] = "answered" => query[q] = "answered"
  <2>1. PICK o \in {"answered", "error"} : o = "error"
    OBVIOUS
  <2>2. Meeting!Ends(o)
    BY <2>1
  <2>3. /\ holder' \in Holders /\ holder'.at = "free" /\ holder'.by = Meeting!NoQuery
        /\ query' \in [Queries -> {"new", "answered", "error"}]
        /\ \A q \in Queries : query'[q] = IF q = holder.by THEN o ELSE query[q]
    BY <1>0, <2>2, EndsEffect
  <2> QED BY <2>1, <2>3
<1>2. past.vain \in Nat /\ past.vain = 0
  BY <1>0 DEF LockKnown, FailureKnown, MeetTypes, MeetPasts
<1>3. MeetTypes'
  BY <1>0, <1>1 DEF MeetTypes
<1>4. LockKnown'
  BY <1>0, <1>1 DEF LockKnown
<1>5. FailureKnown'
  BY <1>0, <1>2 DEF FailureKnown
<1>6. FramesKnown'
  <2>1. count["refuses"] \in Nat /\ count'["refuses"] \in Nat /\ count["refuses"] <= count'["refuses"]
    BY DEF MeetInv, MeetPlanOK, Meeting!Events
  <2>2. count["refuses"] > 0 => count'["refuses"] > 0
    BY <2>1
  <2> QED BY <1>0, <2>2 DEF FramesKnown
<1>7. AnswersKnown'
  BY <1>0, <1>1 DEF AnswersKnown
<1> QED BY <1>3, <1>4, <1>5, <1>6, <1>7 DEF MeetInv

(* The session cannot be opened.                                           *)
LEMMA OpenFailsStep == MeetInv /\ Meeting!OpenFails => MeetInv'
<1> SUFFICES ASSUME MeetInv, Meeting!OpenFails PROVE MeetInv'
  OBVIOUS
<1>0. MeetTypes /\ LockKnown /\ MeetPlanOK
  BY DEF MeetInv
<1>1. /\ holder.at \in {"mint", "connect", "invite", "relate"} /\ Meeting!Ends("error")
      /\ session' = Meeting!Forgets(session) /\ Meeting!Happens("fails")
      /\ UNCHANGED <<kind, mailbox, asked, past>>
  BY DEF Meeting!OpenFails
<1>2. /\ session' \in Sessions /\ session'.failed /\ ~session'.closed /\ ~session'.keys
      /\ session'.open = session.open
  BY <1>0, <1>1 DEF Meeting!Forgets, Meeting!Latched, MeetTypes, Sessions, LockKnown
<1>3. MeetPlanOK' /\ (\A e \in Meeting!Events : count[e] <= count'[e]) /\ count'["fails"] > 0
      /\ count'["refuses"] \in Nat /\ count'["fails"] \in Nat
  BY <1>0, <1>1, EventCounts DEF Meeting!Events
<1>4. past' \in MeetPasts /\ past.vain \in Nat
  BY <1>0, <1>1 DEF MeetTypes, MeetPasts
<1>5. past'.vain + count'["fails"] + count'["refuses"] > 0
  BY <1>1, <1>3, <1>4
<1> QED BY <1>1, <1>2, <1>3, <1>4, <1>5, FailingStep

(* An exchange with the mediator fails, and so the session.                *)
LEMMA ExchangeFailsStep == MeetInv /\ Meeting!ExchangeFails => MeetInv'
<1> SUFFICES ASSUME MeetInv, Meeting!ExchangeFails PROVE MeetInv'
  OBVIOUS
<1>0. MeetTypes /\ LockKnown /\ MeetPlanOK
  BY DEF MeetInv
<1>1. /\ holder.at \in {"send", "wait"} /\ Meeting!Ends("error")
      /\ session' = Meeting!Latched(session) /\ Meeting!Happens("fails")
      /\ UNCHANGED <<kind, mailbox, asked, past>>
  BY DEF Meeting!ExchangeFails
<1>2. session' \in Sessions /\ session'.failed /\ ~session'.closed /\ session'.open /\ session.open
  BY <1>0, <1>1 DEF Meeting!Latched, MeetTypes, Sessions, LockKnown
<1>3. MeetPlanOK' /\ (\A e \in Meeting!Events : count[e] <= count'[e]) /\ count'["fails"] > 0
      /\ count'["refuses"] \in Nat /\ count'["fails"] \in Nat
  BY <1>0, <1>1, EventCounts DEF Meeting!Events
<1>4. past' \in MeetPasts /\ past.vain \in Nat
  BY <1>0, <1>1 DEF MeetTypes, MeetPasts
<1>5. past'.vain + count'["fails"] + count'["refuses"] > 0
  BY <1>1, <1>3, <1>4
<1> QED BY <1>1, <1>2, <1>3, <1>4, <1>5, FailingStep

(* A wait is in vain, once.                                                *)
LEMMA MeetTimeOutStep == MeetInv /\ Meeting!TimeOut => MeetInv'
<1> SUFFICES ASSUME MeetInv, Meeting!TimeOut PROVE MeetInv'
  OBVIOUS
<1>0. MeetTypes /\ LockKnown /\ MeetPlanOK
  BY DEF MeetInv
<1>1. /\ holder.at \in {"relate", "wait"} /\ Meeting!Ends("error")
      /\ session' = IF holder.at = "relate" THEN Meeting!Forgets(session) ELSE Meeting!Latched(session)
      /\ Meeting!Quiet /\ UNCHANGED <<kind, mailbox, asked>>
      /\ past' = [past EXCEPT !.vain = @ + 1]
  BY DEF Meeting!TimeOut
<1>2. /\ session' \in Sessions /\ session'.failed /\ ~session'.closed
      /\ session'.open = session.open /\ (session'.keys => session'.open)
  BY <1>0, <1>1 DEF Meeting!Latched, Meeting!Forgets, MeetTypes, Sessions, LockKnown
<1>3. MeetPlanOK' /\ count' = count /\ \A e \in Meeting!Events : count[e] \in Nat
  BY <1>0, <1>1, QuietPlan DEF MeetPlanOK
<1>4. /\ past' \in MeetPasts /\ past.vain \in Nat /\ past'.vain = past.vain + 1
      /\ past'.said = past.said /\ past'.allowed = past.allowed /\ past'.early = past.early
  BY <1>0, <1>1 DEF MeetTypes, MeetPasts
<1>5. past'.vain + count'["fails"] + count'["refuses"] > 0
  BY <1>3, <1>4 DEF Meeting!Events
<1>6. \A e \in Meeting!Events : count[e] <= count'[e]
  BY <1>3
<1> QED BY <1>1, <1>2, <1>3, <1>4, <1>5, <1>6, FailingStep

(* A step of a session that goes on.                                        *)
LEMMA GoingStep ==
  ASSUME MeetInv, MeetPlanOK', count' = count, UNCHANGED kind, mailbox' \subseteq mailbox,
         query' = query, past' = past, asked' \subseteq Queries \cup {"invite"},
         holder' \in Holders, holder.at # "free", holder'.at # "free", holder'.by = holder.by,
         session' \in Sessions, session'.failed = session.failed,
         session'.closed = session.closed, session.open => session'.open,
         holder'.at \in {"send", "wait"} => session'.open,
         kind = "tsp" /\ session'.open => past.allowed
  PROVE  MeetInv'
<1>0. MeetTypes /\ LockKnown /\ FailureKnown /\ FramesKnown /\ AnswersKnown
  BY DEF MeetInv
<1>1. MeetTypes'
  BY <1>0 DEF MeetTypes
<1>2. LockKnown'
  BY <1>0 DEF LockKnown
<1>3. FailureKnown'
  BY <1>0 DEF FailureKnown
<1>4. FramesKnown'
  BY <1>0 DEF FramesKnown
<1>5. AnswersKnown'
  BY <1>0 DEF AnswersKnown
<1> QED BY <1>1, <1>2, <1>3, <1>4, <1>5 DEF MeetInv

(* Keys are made, the mediator is connected to, the invitation sent, a query sent. *)
LEMMA OpeningSteps ==
  MeetInv /\ (Meeting!Mint \/ Meeting!Connect \/ Meeting!Invite \/ Meeting!Send) => MeetInv'
<1> SUFFICES ASSUME MeetInv, Meeting!Mint \/ Meeting!Connect \/ Meeting!Invite \/ Meeting!Send
             PROVE  MeetInv'
  OBVIOUS
<1>0. MeetTypes /\ LockKnown /\ AnswersKnown /\ MeetPlanOK
  BY DEF MeetInv
<1>1. /\ MeetPlanOK' /\ count' = count /\ UNCHANGED <<kind, query, mailbox>>
      /\ holder.at \in {"mint", "connect", "invite", "send"}
  BY <1>0, QuietPlan DEF Meeting!Mint, Meeting!Connect, Meeting!Invite, Meeting!Send
<1>2. session \in Sessions /\ asked \subseteq Queries \cup {"invite"}
  BY <1>0 DEF MeetTypes
<1>3. CASE Meeting!Mint
  <2>1. /\ session' \in Sessions /\ session'.failed = session.failed
        /\ session'.closed = session.closed /\ session'.open = session.open
    BY <1>2, <1>3 DEF Meeting!Mint, Sessions
  <2>2. /\ holder' \in Holders /\ holder'.at = "connect" /\ holder'.by = holder.by
    BY <1>0, <1>3, GoesEffect DEF Meeting!Mint
  <2>3. UNCHANGED <<asked, past>>
    BY <1>3 DEF Meeting!Mint
  <2> QED BY <1>0, <1>1, <1>2, <2>1, <2>2, <2>3, GoingStep DEF AnswersKnown
<1>4. CASE Meeting!Connect
  <2>1. UNCHANGED <<asked, past>>
    BY <1>4 DEF Meeting!Connect
  <2>2. CASE Meeting!AfterConnect = "opened"
    <3>1. /\ session' \in Sessions /\ session'.failed = session.failed
          /\ session'.closed = session.closed /\ session'.open
      BY <1>2, <1>4, <2>2 DEF Meeting!Connect, Meeting!Opened, Sessions
    <3>2. /\ holder' \in Holders /\ holder'.at = "send" /\ holder'.by = holder.by
      BY <1>0, <1>4, <2>2, GoesEffect DEF Meeting!Connect, Meeting!Opened
    <3>3. kind # "tsp"
      BY <2>2 DEF Meeting!AfterConnect
    <3> QED BY <1>0, <1>1, <1>2, <2>1, <3>1, <3>2, <3>3, GoingStep
  <2>3. CASE Meeting!AfterConnect # "opened"
    <3>1. UNCHANGED session
      BY <1>4, <2>3 DEF Meeting!Connect
    <3>2. /\ holder' \in Holders /\ holder'.at = "invite" /\ holder'.by = holder.by
      BY <1>0, <1>4, <2>3, GoesEffect DEF Meeting!Connect
    <3> QED BY <1>0, <1>1, <1>2, <2>1, <3>1, <3>2, GoingStep DEF AnswersKnown
  <2> QED BY <2>2, <2>3
<1>5. CASE Meeting!Invite
  <2>1. UNCHANGED <<session, past>> /\ asked' \subseteq Queries \cup {"invite"}
    BY <1>2, <1>5 DEF Meeting!Invite
  <2>2. /\ holder' \in Holders /\ holder'.at = "relate" /\ holder'.by = holder.by
    BY <1>0, <1>5, GoesEffect DEF Meeting!Invite
  <2> QED BY <1>0, <1>1, <1>2, <2>1, <2>2, GoingStep DEF AnswersKnown
<1>6. CASE Meeting!Send
  <2>1. holder.by \in Queries
    BY <1>0, <1>1 DEF MeetTypes, Holders, LockKnown
  <2>2. session.open /\ (kind = "tsp" => past.allowed)
    BY <1>0, <1>6 DEF LockKnown, AnswersKnown, Meeting!Send
  <2>3. UNCHANGED <<session, past>> /\ asked' \subseteq Queries \cup {"invite"}
    BY <1>2, <1>6, <2>1, <2>2 DEF Meeting!Send
  <2>4. /\ holder' \in Holders /\ holder'.at = "wait" /\ holder'.by = holder.by
    BY <1>0, <1>6, GoesEffect DEF Meeting!Send
  <2> QED BY <1>0, <1>1, <1>2, <2>2, <2>3, <2>4, GoingStep
<1> QED BY <1>3, <1>4, <1>5, <1>6

(* A query takes the lock, if the session is of use.                       *)
LEMMA ExchangeStep == ASSUME MeetInv, NEW q \in Queries, Meeting!Exchange(q) PROVE MeetInv'
<1>0. MeetTypes /\ LockKnown /\ FailureKnown /\ FramesKnown /\ AnswersKnown /\ MeetPlanOK
  BY DEF MeetInv
<1>1. MeetPlanOK' /\ count' = count /\ UNCHANGED <<kind, session, mailbox, asked, past>>
      /\ holder = Meeting!Free /\ query[q] = "new"
  BY <1>0, QuietPlan DEF Meeting!Exchange
<1>2. holder.at = "free"
  BY <1>1 DEF Meeting!Free
<1>3. /\ query' \in [Queries -> {"new", "answered", "error"}]
      /\ \A p \in Queries : query'[p] = query[p] \/ (p = q /\ query'[p] = "error")
      /\ query' # query => session.failed \/ session.closed
      /\ session.failed \/ session.closed => holder' = holder
  BY <1>0 DEF Meeting!Exchange, MeetTypes
<1>4. /\ holder' \in Holders /\ (holder'.at = "free" <=> holder'.by = Meeting!NoQuery)
      /\ holder'.at = "send" => session.open
      /\ holder'.at # "wait"
      /\ holder'.at # "free" => ~session.failed /\ ~session.closed
  <2>1. CASE session.failed \/ session.closed
    BY <1>0, <1>2, <1>3, <2>1 DEF LockKnown, MeetTypes
  <2>2. CASE ~(session.failed \/ session.closed)
    <3>1. holder' = [by |-> q, at |-> IF session.open THEN "send" ELSE "mint"]
      BY <2>2 DEF Meeting!Exchange
    <3>2. q # Meeting!NoQuery
      BY SessionAssumption DEF Meeting!NoQuery
    <3> QED BY <2>2, <3>1, <3>2 DEF Holders
  <2> QED BY <2>1, <2>2
<1>5. MeetTypes'
  BY <1>0, <1>1, <1>3, <1>4 DEF MeetTypes
<1>6. LockKnown'
  BY <1>0, <1>1, <1>2, <1>4 DEF LockKnown
<1>7. FailureKnown'
  BY <1>0, <1>1, <1>3 DEF FailureKnown
<1>8. FramesKnown'
  BY <1>0, <1>1 DEF FramesKnown
<1>9. AnswersKnown'
  BY <1>0, <1>1, <1>3 DEF AnswersKnown
<1> QED BY <1>1, <1>5, <1>6, <1>7, <1>8, <1>9 DEF MeetInv

(* The answer to the invitation is taken, and nothing else is.             *)
LEMMA RelateStep == ASSUME MeetInv, NEW f \in mailbox, Meeting!Relate(f) PROVE MeetInv'
<1>0. MeetTypes /\ LockKnown /\ FramesKnown /\ AnswersKnown /\ MeetPlanOK
  BY DEF MeetInv
<1>1. /\ MeetPlanOK' /\ count' = count /\ holder.at = "relate" /\ mailbox' \subseteq mailbox
      /\ UNCHANGED <<kind, asked, past>>
  BY <1>0, QuietPlan DEF Meeting!Relate
<1>2. session \in Sessions /\ asked \subseteq Queries \cup {"invite"} /\ past \in MeetPasts
  BY <1>0 DEF MeetTypes
<1>3. ASSUME f.from = "registry", f.says = "accept", Meeting!Opened, UNCHANGED query PROVE MeetInv'
  <2>1. past.allowed
    BY <1>0, <1>3 DEF FramesKnown
  <2>2. /\ session' \in Sessions /\ session'.failed = session.failed
        /\ session'.closed = session.closed /\ session'.open
    BY <1>2, <1>3 DEF Meeting!Opened, Sessions
  <2>3. /\ holder' \in Holders /\ holder'.at = "send" /\ holder'.by = holder.by
    BY <1>0, <1>3, GoesEffect DEF Meeting!Opened
  <2> QED BY <1>0, <1>1, <1>2, <1>3, <2>1, <2>2, <2>3, GoingStep
<1>4. ASSUME f.from = "registry", f.says = "cancel", session' = Meeting!Forgets(session),
             Meeting!Ends("error")
      PROVE  MeetInv'
  <2>1. /\ session' \in Sessions /\ session'.failed /\ ~session'.closed /\ ~session'.keys
        /\ session'.open = session.open
    BY <1>0, <1>1, <1>4 DEF Meeting!Forgets, Meeting!Latched, MeetTypes, Sessions, LockKnown
  <2>2. /\ count["refuses"] > 0 /\ past.vain \in Nat
        /\ \A e \in Meeting!Events : count[e] \in Nat
    BY <1>0, <1>4 DEF FramesKnown, MeetTypes, MeetPasts, MeetPlanOK
  <2>3. past'.vain + count'["fails"] + count'["refuses"] > 0 /\ \A e \in Meeting!Events : count[e] <= count'[e]
    BY <1>1, <2>2 DEF Meeting!Events
  <2> QED BY <1>1, <1>2, <1>4, <2>1, <2>3, FailingStep
<1>5. ASSUME UNCHANGED <<holder, session, query>> PROVE MeetInv'
  <2>1. holder' \in Holders
    BY <1>0, <1>5 DEF MeetTypes
  <2> QED BY <1>0, <1>1, <1>2, <1>5, <2>1, GoingStep DEF AnswersKnown
<1> QED BY <1>3, <1>4, <1>5 DEF Meeting!Relate

(* A query ends by its own answer.                                         *)
LEMMA AnsweredStep ==
  ASSUME MeetInv, holder.at = "wait", Meeting!Ends("answered"), holder.by \in past.said,
         MeetPlanOK', count' = count, mailbox' \subseteq mailbox,
         UNCHANGED <<kind, session, asked, past>>
  PROVE  MeetInv'
<1>0. MeetTypes /\ LockKnown /\ FailureKnown /\ FramesKnown /\ AnswersKnown
  BY DEF MeetInv
<1>1. PICK o \in {"answered", "error"} : o = "answered"
  OBVIOUS
<1>2. Meeting!Ends(o)
  BY <1>1
<1>3. /\ holder' \in Holders /\ holder'.at = "free" /\ holder'.by = Meeting!NoQuery
      /\ query' \in [Queries -> {"new", "answered", "error"}]
      /\ \A q \in Queries : query'[q] = IF q = holder.by THEN o ELSE query[q]
  BY <1>0, <1>2, EndsEffect
<1>4. MeetTypes'
  BY <1>0, <1>3 DEF MeetTypes
<1>5. LockKnown'
  BY <1>0, <1>3 DEF LockKnown
<1>6. FailureKnown'
  BY <1>0, <1>1, <1>3 DEF FailureKnown
<1>7. FramesKnown'
  BY <1>0 DEF FramesKnown
<1>8. AnswersKnown'
  BY <1>0, <1>3 DEF AnswersKnown
<1> QED BY <1>4, <1>5, <1>6, <1>7, <1>8 DEF MeetInv

(* A frame is taken by the query that waits, if it is its own.             *)
LEMMA MeetReceiveStep == ASSUME MeetInv, NEW f \in mailbox, Meeting!Receive(f) PROVE MeetInv'
<1>0. MeetTypes /\ LockKnown /\ FramesKnown /\ AnswersKnown /\ MeetPlanOK
  BY DEF MeetInv
<1>1. /\ MeetPlanOK' /\ count' = count /\ holder.at = "wait" /\ mailbox' \subseteq mailbox
      /\ UNCHANGED <<kind, asked, past>>
  BY <1>0, QuietPlan DEF Meeting!Receive
<1>2. session \in Sessions /\ asked \subseteq Queries \cup {"invite"} /\ past \in MeetPasts
  BY <1>0 DEF MeetTypes
<1>3. ASSUME Meeting!AcceptReply(f), Meeting!Ends("answered"), UNCHANGED session PROVE MeetInv'
  <2>1. holder.by \in past.said
    BY <1>0, <1>3 DEF FramesKnown, Meeting!AcceptReply
  <2> QED BY <1>1, <1>3, <2>1, AnsweredStep
<1>4. ASSUME Meeting!Refusal(f), Meeting!Ends("error"), session' = Meeting!Latched(session)
      PROVE  MeetInv'
  <2>1. /\ session' \in Sessions /\ session'.failed /\ ~session'.closed /\ session'.open
        /\ session.open
    BY <1>0, <1>1, <1>4 DEF Meeting!Latched, MeetTypes, Sessions, LockKnown
  <2>2. /\ count["refuses"] > 0 /\ past.vain \in Nat
        /\ \A e \in Meeting!Events : count[e] \in Nat
    BY <1>0, <1>4 DEF FramesKnown, MeetTypes, MeetPasts, MeetPlanOK, Meeting!Refusal
  <2>3. past'.vain + count'["fails"] + count'["refuses"] > 0 /\ \A e \in Meeting!Events : count[e] <= count'[e]
    BY <1>1, <2>2 DEF Meeting!Events
  <2> QED BY <1>1, <1>2, <1>4, <2>1, <2>3, FailingStep
<1>5. ASSUME UNCHANGED <<holder, session, query>> PROVE MeetInv'
  <2>1. holder' \in Holders
    BY <1>0, <1>5 DEF MeetTypes
  <2> QED BY <1>0, <1>1, <1>2, <1>5, <2>1, GoingStep DEF AnswersKnown, LockKnown
<1> QED BY <1>3, <1>4, <1>5 DEF Meeting!Receive

(* The run is over.                                                        *)
LEMMA CloseStep == MeetInv /\ Meeting!Close => MeetInv'
<1> SUFFICES ASSUME MeetInv, Meeting!Close PROVE MeetInv'
  OBVIOUS
<1>0. MeetTypes /\ LockKnown /\ FailureKnown /\ FramesKnown /\ AnswersKnown /\ MeetPlanOK
  BY DEF MeetInv
<1>1. /\ MeetPlanOK' /\ count' = count /\ UNCHANGED <<kind, holder, query, mailbox, asked, past>>
      /\ session' = Meeting!Closed(session) /\ holder.at = "free"
  BY <1>0, QuietPlan DEF Meeting!Close, Meeting!Free
<1>2. /\ session' \in Sessions /\ session'.failed = session.failed /\ session'.closed
      /\ ~session'.open /\ ~session'.keys
  BY <1>0, <1>1 DEF Meeting!Closed, MeetTypes, Sessions, LockKnown
<1>3. MeetTypes'
  BY <1>0, <1>1, <1>2 DEF MeetTypes
<1>4. LockKnown'
  BY <1>0, <1>1, <1>2 DEF LockKnown
<1>5. FailureKnown'
  BY <1>0, <1>1, <1>2 DEF FailureKnown
<1>6. FramesKnown' /\ AnswersKnown'
  BY <1>0, <1>1, <1>2 DEF FramesKnown, AnswersKnown
<1> QED BY <1>1, <1>3, <1>4, <1>5, <1>6 DEF MeetInv

(* What the registry and others do: frames come and go, and what the        *)
(* registry did stays done.                                                 *)
LEMMA FarStep ==
  ASSUME MeetInv, MeetPlanOK', UNCHANGED <<kind, holder, session, query>>,
         \A e \in Meeting!Events : count[e] <= count'[e],
         mailbox' \subseteq Meeting!Frames, asked' \subseteq Queries \cup {"invite"},
         past' \in MeetPasts, past.said \subseteq past'.said, past.allowed => past'.allowed,
         past'.early = past.early, past'.vain = past.vain,
         \A f \in mailbox' \ mailbox :
            /\ f.from = "registry" /\ f.says = "reply" => f.thread \in past'.said
            /\ f.from = "registry" /\ f.says = "accept" => past'.allowed
            /\ (\/ f.from = "registry" /\ f.says = "cancel"
                \/ f.from \in {"registry", "mediator"} /\ f.says = "problem") => count'["refuses"] > 0
  PROVE  MeetInv'
<1>0. MeetTypes /\ LockKnown /\ FailureKnown /\ FramesKnown /\ AnswersKnown /\ MeetPlanOK
  BY DEF MeetInv
<1>1. /\ count["refuses"] \in Nat /\ count'["refuses"] \in Nat /\ count["refuses"] <= count'["refuses"]
      /\ count["fails"] \in Nat /\ count'["fails"] \in Nat /\ count["fails"] <= count'["fails"]
      /\ past.vain \in Nat
  BY <1>0 DEF MeetPlanOK, Meeting!Events, MeetTypes, MeetPasts
<1>2. count["refuses"] > 0 => count'["refuses"] > 0
  BY <1>1
<1>3. past.vain + count["fails"] + count["refuses"] > 0
        => past'.vain + count'["fails"] + count'["refuses"] > 0
  BY <1>1
<1>4. MeetTypes'
  BY <1>0 DEF MeetTypes
<1>5. LockKnown'
  BY <1>0 DEF LockKnown
<1>6. FailureKnown'
  BY <1>0, <1>3 DEF FailureKnown
<1>7. FramesKnown'
  BY <1>0, <1>2 DEF FramesKnown
<1>8. AnswersKnown'
  BY <1>0 DEF AnswersKnown
<1> QED BY <1>4, <1>5, <1>6, <1>7, <1>8 DEF MeetInv

(* The registry accepts, or refuses, the relationship.                     *)
LEMMA AnswerInviteStep == MeetInv /\ Meeting!AnswerInvite => MeetInv'
<1> SUFFICES ASSUME MeetInv, Meeting!AnswerInvite PROVE MeetInv'
  OBVIOUS
<1>0. MeetTypes /\ MeetPlanOK /\ past \in MeetPasts /\ mailbox \subseteq Meeting!Frames
  BY DEF MeetInv, MeetTypes
<1>1. /\ UNCHANGED <<kind, holder, session, query>> /\ asked' \subseteq Queries \cup {"invite"}
  BY <1>0 DEF Meeting!AnswerInvite, MeetTypes
<1>2. \A e \in Meeting!Events : count[e] \in Nat
  BY <1>0 DEF MeetPlanOK
<1>3. ASSUME Meeting!Quiet, mailbox' = mailbox \cup {Meeting!Registry("accept", Meeting!NoQuery)},
             past' = [past EXCEPT !.allowed = TRUE]
      PROVE  MeetInv'
  <2>1. MeetPlanOK' /\ count' = count
    BY <1>0, <1>3, QuietPlan
  <2>2. PICK f \in Meeting!Frames : mailbox' = mailbox \cup {f} /\ f.says = "accept"
    <3>1. Meeting!Registry("accept", Meeting!NoQuery) \in Meeting!Frames
          /\ Meeting!Registry("accept", Meeting!NoQuery).says = "accept"
      BY DEF Meeting!Registry, Meeting!Frames, Meeting!Senders, Meeting!Says
    <3> QED BY <1>3, <3>1
  <2>3. /\ past' \in MeetPasts /\ past'.said = past.said /\ past'.allowed
        /\ past'.early = past.early /\ past'.vain = past.vain
    BY <1>0, <1>3 DEF MeetPasts
  <2>4. \A e \in Meeting!Events : count[e] <= count'[e]
    BY <1>2, <2>1
  <2> QED BY <1>0, <1>1, <2>1, <2>2, <2>3, <2>4, FarStep
<1>4. ASSUME Meeting!Happens("refuses"), UNCHANGED past,
             mailbox' = mailbox \cup {Meeting!Registry("cancel", Meeting!NoQuery)}
      PROVE  MeetInv'
  <2>1. MeetPlanOK' /\ (\A e \in Meeting!Events : count[e] <= count'[e]) /\ count'["refuses"] > 0
    BY <1>0, <1>4, EventCounts DEF Meeting!Events
  <2>2. PICK f \in Meeting!Frames : mailbox' = mailbox \cup {f} /\ f.says = "cancel"
    <3>1. Meeting!Registry("cancel", Meeting!NoQuery) \in Meeting!Frames
          /\ Meeting!Registry("cancel", Meeting!NoQuery).says = "cancel"
      BY DEF Meeting!Registry, Meeting!Frames, Meeting!Senders, Meeting!Says
    <3> QED BY <1>4, <3>1
  <2> QED BY <1>0, <1>1, <1>4, <2>1, <2>2, FarStep
<1>5. ASSUME Meeting!Happens("again"), UNCHANGED past,
             mailbox' = mailbox \cup {Meeting!Registry("invite", Meeting!NoQuery)}
      PROVE  MeetInv'
  <2>1. MeetPlanOK' /\ \A e \in Meeting!Events : count[e] <= count'[e]
    BY <1>0, <1>5, EventCounts DEF Meeting!Events
  <2>2. PICK f \in Meeting!Frames : mailbox' = mailbox \cup {f} /\ f.says = "invite"
    <3>1. Meeting!Registry("invite", Meeting!NoQuery) \in Meeting!Frames
          /\ Meeting!Registry("invite", Meeting!NoQuery).says = "invite"
      BY DEF Meeting!Registry, Meeting!Frames, Meeting!Senders, Meeting!Says
    <3> QED BY <1>5, <3>1
  <2> QED BY <1>0, <1>1, <1>5, <2>1, <2>2, FarStep
<1> QED BY <1>3, <1>4, <1>5 DEF Meeting!AnswerInvite

(* The registry answers a query.                                           *)
LEMMA MeetAnswerStep == ASSUME MeetInv, NEW q \in Queries, Meeting!Answer(q) PROVE MeetInv'
<1>0. MeetTypes /\ MeetPlanOK /\ past \in MeetPasts /\ mailbox \subseteq Meeting!Frames
  BY DEF MeetInv, MeetTypes
<1>1. /\ UNCHANGED <<kind, holder, session, query>> /\ asked' \subseteq Queries \cup {"invite"}
  BY <1>0 DEF Meeting!Answer, MeetTypes
<1>2. \A e \in Meeting!Events : count[e] \in Nat
  BY <1>0 DEF MeetPlanOK
<1>3. ASSUME Meeting!Quiet \/ Meeting!Happens("again"), Meeting!Replies(q) PROVE MeetInv'
  <2>1. MeetPlanOK' /\ \A e \in Meeting!Events : count[e] <= count'[e]
    <3>1. CASE Meeting!Quiet
      BY <1>0, <1>2, <3>1, QuietPlan
    <3>2. CASE Meeting!Happens("again")
      BY <1>0, <3>2, EventCounts DEF Meeting!Events
    <3> QED BY <1>3, <3>1, <3>2
  <2>2. PICK f \in Meeting!Frames : mailbox' = mailbox \cup {f} /\ f.says = "reply" /\ f.thread = q
    <3>1. Meeting!Registry("reply", q) \in Meeting!Frames
          /\ Meeting!Registry("reply", q).says = "reply" /\ Meeting!Registry("reply", q).thread = q
      BY DEF Meeting!Registry, Meeting!Frames, Meeting!Senders, Meeting!Says
    <3> QED BY <1>3, <3>1 DEF Meeting!Replies
  <2>3. /\ past' \in MeetPasts /\ past'.said = past.said \cup {q} /\ past'.allowed = past.allowed
        /\ past'.early = past.early /\ past'.vain = past.vain
    BY <1>0, <1>3 DEF MeetPasts, Meeting!Replies
  <2> QED BY <1>0, <1>1, <2>1, <2>2, <2>3, FarStep
<1>4. ASSUME Meeting!Happens("refuses"), UNCHANGED past,
             \E from \in {"registry", "mediator"} :
               mailbox' = mailbox \cup {[from |-> from, says |-> "problem", thread |-> Meeting!NoQuery]}
      PROVE  MeetInv'
  <2>1. MeetPlanOK' /\ (\A e \in Meeting!Events : count[e] <= count'[e]) /\ count'["refuses"] > 0
    BY <1>0, <1>4, EventCounts DEF Meeting!Events
  <2>2. PICK f \in Meeting!Frames : mailbox' = mailbox \cup {f} /\ f.says = "problem"
    <3>1. PICK from \in {"registry", "mediator"} :
            mailbox' = mailbox \cup {[from |-> from, says |-> "problem", thread |-> Meeting!NoQuery]}
      BY <1>4
    <3>2. [from |-> from, says |-> "problem", thread |-> Meeting!NoQuery] \in Meeting!Frames
      BY DEF Meeting!Frames, Meeting!Senders, Meeting!Says
    <3> QED BY <3>1, <3>2
  <2> QED BY <1>0, <1>1, <1>4, <2>1, <2>2, FarStep
<1> QED BY <1>3, <1>4 DEF Meeting!Answer

(* A frame of somebody else's arrives, or one is lost.                     *)
LEMMA ForeignStep == MeetInv /\ Meeting!Foreign => MeetInv'
<1> SUFFICES ASSUME MeetInv, Meeting!Foreign PROVE MeetInv'
  OBVIOUS
<1>0. MeetTypes /\ MeetPlanOK /\ past \in MeetPasts /\ mailbox \subseteq Meeting!Frames
      /\ asked \subseteq Queries \cup {"invite"}
  BY DEF MeetInv, MeetTypes
<1>1. /\ UNCHANGED <<kind, holder, session, query, asked, past>>
      /\ MeetPlanOK' /\ \A e \in Meeting!Events : count[e] <= count'[e]
  BY <1>0, EventCounts DEF Meeting!Foreign, Meeting!Events
<1>2. PICK f \in Meeting!Frames : /\ f.from \in {"other", "unproven"} \/ f.says = "broken"
                                  /\ mailbox' = mailbox \cup {f}
  BY DEF Meeting!Foreign
<1> QED BY <1>0, <1>1, <1>2, FarStep

LEMMA LoseStep == MeetInv /\ Meeting!Lose => MeetInv'
<1> SUFFICES ASSUME MeetInv, Meeting!Lose PROVE MeetInv'
  OBVIOUS
<1>0. MeetTypes /\ MeetPlanOK /\ past \in MeetPasts /\ mailbox \subseteq Meeting!Frames
      /\ asked \subseteq Queries \cup {"invite"}
  BY DEF MeetInv, MeetTypes
<1>1. /\ UNCHANGED <<kind, holder, session, query, past>>
      /\ MeetPlanOK' /\ \A e \in Meeting!Events : count[e] <= count'[e]
  BY <1>0, EventCounts DEF Meeting!Lose, Meeting!Events
<1>2. mailbox' \subseteq mailbox /\ asked' \subseteq asked
  BY DEF Meeting!Lose
<1> QED BY <1>0, <1>1, <1>2, FarStep

(* The invariant of the session, and what it gives.                        *)
LEMMA MeetInvStep == MeetInv /\ Meeting!Next => MeetInv'
BY OpenFailsStep, ExchangeFailsStep, MeetTimeOutStep, OpeningSteps, ExchangeStep, RelateStep,
   MeetReceiveStep, CloseStep, AnswerInviteStep, MeetAnswerStep, ForeignStep, LoseStep
   DEF Meeting!Next, Meeting!Run

LEMMA MeetingIsSafe ==
  MeetInv => /\ Meeting!TypeOK /\ Meeting!BelievesTheRegistry /\ Meeting!OnlyTheirNoEnds
             /\ Meeting!AcceptedFirst /\ Meeting!WaitsOnceInVain /\ Meeting!NoKeysLeft
<1> SUFFICES ASSUME MeetInv
             PROVE  /\ Meeting!TypeOK /\ Meeting!BelievesTheRegistry /\ Meeting!OnlyTheirNoEnds
                    /\ Meeting!AcceptedFirst /\ Meeting!WaitsOnceInVain /\ Meeting!NoKeysLeft
  OBVIOUS
<1>1. Meeting!TypeOK
  BY DEF MeetInv, MeetTypes, MeetPlanOK, MeetPlans, Sessions, Holders, MeetPasts, Meeting!TypeOK
<1>2. Meeting!BelievesTheRegistry /\ Meeting!AcceptedFirst
  BY DEF MeetInv, AnswersKnown, Meeting!BelievesTheRegistry, Meeting!AcceptedFirst
<1>3. Meeting!OnlyTheirNoEnds /\ Meeting!WaitsOnceInVain
  BY DEF MeetInv, FailureKnown, Meeting!OnlyTheirNoEnds, Meeting!WaitsOnceInVain
<1>4. Meeting!NoKeysLeft
  BY DEF MeetInv, LockKnown, Meeting!NoKeysLeft
<1> QED BY <1>1, <1>2, <1>3, <1>4

-----------------------------------------------------------------------------
(* What checks learn from the registry.                                     *)
CheckRecords ==
  [at : {"ask", "send", "wait", "done", "gone"}, todo : SUBSET Signers, id : 0..MaxIds,
   on : Answers!Resources, signer : Signers \cup {Answers!None}, got : Answers!Says \cup {"none"},
   failed : BOOLEAN, via : Answers!Vias, found : [Signers -> Answers!Decisions \cup {"none"}]]
Registries == [grants : SUBSET Answers!Grants, hand : SUBSET Answers!Requests, next : 1..(MaxIds + 1)]
AskPasts == [some : [Checks -> SUBSET Answers!Grants], always : [Checks -> SUBSET Answers!Grants],
             said : SUBSET (Answers!Ids \X Answers!Vias \X Answers!Says)]
AskTypes ==
  /\ registry \in Registries /\ checks \in [Checks -> CheckRecords]
  /\ pending \subseteq [id : Answers!Ids, via : Answers!Vias]
  /\ handing \subseteq Answers!Documents /\ mail \subseteq Answers!Documents
  /\ jobs \subseteq [doc : Answers!Documents, live : BOOLEAN]
  /\ past \in AskPasts
AskPlans == [asks : [Checks -> SUBSET Signers], vias : SUBSET Answers!Vias, moves : [Answers!Moves -> Nat]]
AskPlanOK == plan \in AskPlans /\ count \in [Answers!Moves -> Nat]

InFlight(c) == checks[c].at \in {"send", "wait"}

(* A query's id is of it alone, and is of the past once it was asked.       *)
IdsKnown ==
  /\ \A c \in Checks : /\ checks[c].id < registry.next
                       /\ InFlight(c) => checks[c].id # 0 /\ checks[c].signer # 0
  /\ \A c, d \in Checks : c # d /\ InFlight(c) /\ InFlight(d) => checks[c].id # checks[d].id
  /\ \A q \in registry.hand : q.id < registry.next
  /\ \A t \in past.said : t[1] < registry.next

(* What the registry has in hand is what the query in flight asks, and what *)
(* it said of that is what it thought at some moment.                       *)
HandKnown ==
  /\ \A c \in Checks : registry.grants \subseteq past.some[c] /\ past.always[c] \subseteq registry.grants
  /\ \A c \in Checks, q \in registry.hand :
       InFlight(c) /\ q.id = checks[c].id => q.signer = checks[c].signer /\ q.on = checks[c].on
  /\ \A c \in Checks, t \in past.said :
       InFlight(c) /\ t[1] = checks[c].id =>
         /\ t[3] = "yes" => <<checks[c].signer, checks[c].on>> \in past.some[c]
         /\ t[3] = "no" => <<checks[c].signer, checks[c].on>> \notin past.always[c]

(* Under way to its query is only what the registry said to it.             *)
MailKnown ==
  /\ \A m \in mail : m.from = "registry" /\ m.thread # 0 => <<m.thread, m.via, m.says>> \in past.said
  /\ \A m \in handing :
       /\ m.thread # 0 /\ <<m.thread, m.via, m.says>> \in past.said
       /\ \A c \in Checks : InFlight(c) /\ checks[c].id = m.thread => checks[c].via = m.via
  /\ \A c \in Checks :
       /\ checks[c].got # "none" => <<checks[c].id, checks[c].via, checks[c].got>> \in past.said
       /\ checks[c].at \in {"ask", "done"} => checks[c].got = "none"

(* Whoever is in flight and heard nothing is waited for, and nobody else.   *)
WaitersKnown ==
  /\ \A w \in pending : \E c \in Checks : InFlight(c) /\ checks[c].id = w.id /\ checks[c].via = w.via
  /\ \A c \in Checks :
       InFlight(c) /\ checks[c].got = "none" =>
         \/ \E m \in handing : m.thread = checks[c].id
         \/ \E w \in pending : w.id = checks[c].id /\ w.via = checks[c].via
  /\ \A j \in jobs : ~j.live

(* What was decided, and what is known when the broader resource is asked.  *)
FoundKnown ==
  \A c \in Checks :
    /\ \A s \in Signers :
         /\ checks[c].found[s] = "granted" => \E r \in Answers!Resources : <<s, r>> \in past.some[c]
         /\ checks[c].found[s] = "denied" => \A r \in Answers!Resources : <<s, r>> \notin past.always[c]
    /\ checks[c].on = "org" => checks[c].signer # 0 /\ <<checks[c].signer, "repo">> \notin past.always[c]

AskInv ==
  /\ AskTypes /\ AskPlanOK
  /\ IdsKnown /\ HandKnown /\ MailKnown /\ WaitersKnown /\ FoundKnown

(* It begins with nothing asked.                                           *)
LEMMA AskInit == Answers!Init => AskInv
<1> SUFFICES ASSUME Answers!Init PROVE AskInv
  OBVIOUS
<1> USE AnswersAssumption
<1>1. AskPlanOK
  BY DEF Answers!Init, AskPlanOK, AskPlans
<1>2. PICK grants \in SUBSET ((UNION {plan.asks[c] : c \in Checks}) \X Answers!Resources),
           via \in plan.vias :
       /\ registry = [grants |-> grants, hand |-> {}, next |-> 1]
       /\ checks = [c \in Checks |->
            [at |-> "ask", todo |-> plan.asks[c], id |-> Answers!None, on |-> "repo",
             signer |-> Answers!None, got |-> "none", failed |-> FALSE, via |-> via,
             found |-> [s \in Signers |-> "none"]]]
       /\ past = [some |-> [c \in Checks |-> grants], always |-> [c \in Checks |-> grants],
                  said |-> {}]
  BY DEF Answers!Init
<1>3. via \in Answers!Vias /\ grants \subseteq Answers!Grants
      /\ \A c \in Checks : plan.asks[c] \subseteq Signers
  BY <1>1 DEF AskPlanOK, AskPlans, Answers!Grants
<1>4. registry \in Registries /\ registry.grants = grants /\ registry.hand = {} /\ registry.next = 1
  BY <1>2, <1>3 DEF Registries
<1>5. \A c \in Checks : checks[c] \in CheckRecords
  BY <1>2, <1>3 DEF CheckRecords, Answers!None, Answers!Resources
<1>6. \A c \in Checks : /\ checks[c].at = "ask" /\ checks[c].id = 0 /\ checks[c].on = "repo"
                        /\ checks[c].got = "none" /\ \A s \in Signers : checks[c].found[s] = "none"
  BY <1>2 DEF Answers!None
<1>7. past \in AskPasts /\ past.said = {} /\ \A c \in Checks : past.some[c] = grants /\ past.always[c] = grants
  BY <1>2, <1>3 DEF AskPasts
<1>8. pending = {} /\ handing = {} /\ mail = {} /\ jobs = {}
  BY DEF Answers!Init
<1>9. checks \in [Checks -> CheckRecords]
  BY <1>2, <1>5
<1>10. AskTypes
  BY <1>4, <1>7, <1>8, <1>9 DEF AskTypes
<1>11. IdsKnown
  BY <1>4, <1>6, <1>7 DEF IdsKnown, InFlight
<1>12. HandKnown
  BY <1>4, <1>6, <1>7 DEF HandKnown, InFlight
<1>13. MailKnown /\ WaitersKnown
  BY <1>6, <1>8 DEF MailKnown, WaitersKnown, InFlight
<1>14. FoundKnown
  BY <1>6 DEF FoundKnown
<1> QED BY <1>1, <1>10, <1>11, <1>12, <1>13, <1>14 DEF AskInv

LEMMA AskPartsNext ==
  AskTypes' /\ AskPlanOK' /\ IdsKnown' /\ HandKnown' /\ MailKnown' /\ WaitersKnown' /\ FoundKnown'
    => AskInv'
BY DEF AskInv

(* What a plan allows is counted.                                          *)
LEMMA MoveCounts ==
  ASSUME AskPlanOK, NEW m \in Answers!Moves, Answers!Happens(m) PROVE AskPlanOK'
BY DEF Answers!Happens, AskPlanOK

LEMMA QuietAsk == AskPlanOK /\ Answers!Quiet => AskPlanOK'
BY DEF AskPlanOK, Answers!Quiet

(* The registry changes its mind: what it says from now on is another thing. *)
LEMMA ChangeStep == ASSUME AskInv, NEW g \in Answers!Grants, Answers!Change(g) PROVE AskInv'
<1>0. AskTypes /\ AskPlanOK /\ IdsKnown /\ HandKnown /\ MailKnown /\ WaitersKnown /\ FoundKnown
  BY DEF AskInv
<1>1. AskPlanOK' /\ UNCHANGED <<checks, pending, handing, mail, jobs>>
  BY <1>0, MoveCounts DEF Answers!Change, Answers!Moves
<1>2. registry \in Registries /\ past \in AskPasts
  BY <1>0 DEF AskTypes
<1>3. PICK grants \in SUBSET Answers!Grants :
        /\ registry' = [registry EXCEPT !.grants = grants]
        /\ past' = [past EXCEPT !.some = [c \in Checks |-> @[c] \cup grants],
                                !.always = [c \in Checks |-> @[c] \cap grants]]
  <2> DEFINE grants == IF g \in registry.grants THEN registry.grants \ {g}
                       ELSE registry.grants \cup {g}
  <2>1. grants \in SUBSET Answers!Grants
    BY <1>2 DEF Registries
  <2> QED BY <2>1 DEF Answers!Change
<1>4. /\ registry' \in Registries /\ registry'.grants = grants
      /\ registry'.hand = registry.hand /\ registry'.next = registry.next
  BY <1>2, <1>3 DEF Registries
<1>5. past' = [some |-> [c \in Checks |-> past.some[c] \cup grants],
               always |-> [c \in Checks |-> past.always[c] \cap grants], said |-> past.said]
  BY <1>2, <1>3 DEF AskPasts
<1>6. /\ past' \in AskPasts /\ past'.said = past.said
      /\ \A c \in Checks : /\ past'.some[c] = past.some[c] \cup grants
                           /\ past'.always[c] = past.always[c] \cap grants
  BY <1>2, <1>5 DEF AskPasts
<1>7. AskTypes'
  BY <1>0, <1>1, <1>4, <1>6 DEF AskTypes
<1>8. IdsKnown'
  BY <1>0, <1>1, <1>4, <1>6 DEF IdsKnown, InFlight
<1>9. HandKnown'
  BY <1>0, <1>1, <1>4, <1>6 DEF HandKnown, InFlight
<1>10. MailKnown' /\ WaitersKnown'
  BY <1>0, <1>1, <1>6 DEF MailKnown, WaitersKnown, InFlight
<1>11. FoundKnown'
  BY <1>0, <1>1, <1>6 DEF FoundKnown
<1> QED BY <1>1, <1>7, <1>8, <1>9, <1>10, <1>11, AskPartsNext

(* The registry answers what it was asked, by what it thinks now.          *)
LEMMA AskAnswerStep == ASSUME AskInv, NEW q \in registry.hand, Answers!Answer(q) PROVE AskInv'
<1>0. AskTypes /\ AskPlanOK /\ IdsKnown /\ HandKnown /\ MailKnown /\ WaitersKnown /\ FoundKnown
  BY DEF AskInv
<1>1. registry \in Registries /\ past \in AskPasts /\ q \in Answers!Requests
  BY <1>0 DEF AskTypes, Registries
<1>2. PICK says \in {IF <<q.signer, q.on>> \in registry.grants THEN "yes" ELSE "no", "unable"},
           via \in Answers!Vias, again \in BOOLEAN :
       /\ IF via # q.via THEN ~again /\ Answers!Happens("astray")
          ELSE IF again THEN Answers!Happens("again") ELSE Answers!Quiet
       /\ mail' = mail \cup {[from |-> "registry", thread |-> q.id, via |-> via, says |-> says]}
       /\ past' = [past EXCEPT !.said = @ \cup {<<q.id, via, says>>}]
       /\ registry' = IF again THEN registry ELSE [registry EXCEPT !.hand = @ \ {q}]
  BY DEF Answers!Answer
<1>3. AskPlanOK' /\ UNCHANGED <<checks, pending, handing, jobs>>
  BY <1>0, <1>2, MoveCounts, QuietAsk DEF Answers!Answer, Answers!Moves
<1>4. /\ registry' \in Registries /\ registry'.grants = registry.grants
      /\ registry'.hand \subseteq registry.hand /\ registry'.next = registry.next
  BY <1>1, <1>2 DEF Registries
<1>5. says \in Answers!Says /\ q.id \in Answers!Ids /\ q.id \in 0..MaxIds /\ q.id < registry.next
  BY <1>0, <1>1, AnswersAssumption DEF Answers!Says, Answers!Requests, Answers!Ids, IdsKnown
<1>6. /\ past' \in AskPasts /\ past'.said = past.said \cup {<<q.id, via, says>>}
      /\ past'.some = past.some /\ past'.always = past.always
  BY <1>1, <1>2, <1>5 DEF AskPasts
<1>7. PICK m \in Answers!Documents : /\ m.from = "registry" /\ m.thread = q.id /\ m.via = via /\ m.says = says
                                     /\ mail' = mail \cup {m}
  <2>1. [from |-> "registry", thread |-> q.id, via |-> via, says |-> says] \in Answers!Documents
    BY <1>5 DEF Answers!Documents
  <2> QED BY <1>2, <2>1
<1>8. AskTypes'
  BY <1>0, <1>3, <1>4, <1>6, <1>7 DEF AskTypes
<1>9. IdsKnown'
  BY <1>0, <1>3, <1>4, <1>5, <1>6 DEF IdsKnown, InFlight
<1>10. HandKnown'
  <2>1. ASSUME NEW c \in Checks, InFlight(c), q.id = checks[c].id
        PROVE  /\ says = "yes" => <<checks[c].signer, checks[c].on>> \in past.some[c]
               /\ says = "no" => <<checks[c].signer, checks[c].on>> \notin past.always[c]
    <3>1. q.signer = checks[c].signer /\ q.on = checks[c].on
      BY <1>0, <2>1 DEF HandKnown
    <3>2. /\ says = "yes" => <<q.signer, q.on>> \in registry.grants
          /\ says = "no" => <<q.signer, q.on>> \notin registry.grants
      BY <1>2
    <3>3. registry.grants \subseteq past.some[c] /\ past.always[c] \subseteq registry.grants
      BY <1>0 DEF HandKnown
    <3> QED BY <3>1, <3>2, <3>3
  <2>3. \A c \in Checks : InFlight(c)' <=> InFlight(c)
    BY <1>3 DEF InFlight
  <2>4. \A c \in Checks, t \in past'.said :
       InFlight(c) /\ t[1] = checks[c].id =>
         /\ t[3] = "yes" => <<checks[c].signer, checks[c].on>> \in past.some[c]
         /\ t[3] = "no" => <<checks[c].signer, checks[c].on>> \notin past.always[c]
    BY <1>0, <1>6, <2>1 DEF HandKnown
  <2>5. \A c \in Checks, p \in registry'.hand :
       InFlight(c) /\ p.id = checks[c].id => p.signer = checks[c].signer /\ p.on = checks[c].on
    BY <1>0, <1>4 DEF HandKnown
  <2> QED BY <1>0, <1>3, <1>4, <1>6, <2>3, <2>4, <2>5 DEF HandKnown
<1>11. MailKnown'
  BY <1>0, <1>3, <1>6, <1>7 DEF MailKnown, InFlight
<1>12. WaitersKnown'
  BY <1>0, <1>3 DEF WaitersKnown, InFlight
<1>13. FoundKnown'
  BY <1>0, <1>3, <1>6 DEF FoundKnown
<1> QED BY <1>3, <1>8, <1>9, <1>10, <1>11, <1>12, <1>13, AskPartsNext

(* Mail of others, and mail that is lost.                                   *)
LEMMA StrayMail ==
  ASSUME AskInv, AskPlanOK', UNCHANGED <<registry, checks, pending, handing, jobs, past>>,
         mail' \subseteq Answers!Documents,
         \A m \in mail' \ mail : m.from # "registry" \/ m.thread = 0
  PROVE  AskInv'
<1>0. AskTypes /\ AskPlanOK /\ IdsKnown /\ HandKnown /\ MailKnown /\ WaitersKnown /\ FoundKnown
  BY DEF AskInv
<1>1. AskTypes'
  BY <1>0 DEF AskTypes
<1>2. IdsKnown' /\ HandKnown'
  BY <1>0 DEF IdsKnown, HandKnown, InFlight
<1>3. MailKnown'
  BY <1>0 DEF MailKnown, InFlight
<1>4. WaitersKnown' /\ FoundKnown'
  BY <1>0 DEF WaitersKnown, FoundKnown, InFlight
<1> QED BY <1>1, <1>2, <1>3, <1>4, AskPartsNext

(* What is astray, again, of another thread or lost in the mail.           *)
LEMMA MailSteps ==
  ASSUME AskInv,
         \/ \E from \in {"other", "unproven"}, id \in Answers!Ids : Answers!Stray(from, id)
         \/ Answers!Job
         \/ \E m \in mail : Answers!Lose(m)
  PROVE  AskInv'
<1>0. AskPlanOK /\ mail \subseteq Answers!Documents /\ MaxIds \in Nat
  BY AnswersAssumption DEF AskInv, AskTypes
<1>1. ASSUME NEW from \in {"other", "unproven"}, NEW id \in Answers!Ids, Answers!Stray(from, id)
      PROVE  AskInv'
  <2>1. AskPlanOK' /\ UNCHANGED <<registry, checks, pending, handing, jobs, past>>
    BY <1>0, <1>1, MoveCounts DEF Answers!Stray, Answers!Moves
  <2>2. PICK via \in Answers!Vias :
          mail' = mail \cup {[from |-> from, thread |-> id, via |-> via, says |-> "yes"]}
    BY <1>1 DEF Answers!Stray
  <2>3. [from |-> from, thread |-> id, via |-> via, says |-> "yes"] \in Answers!Documents
    BY <1>0, <1>1 DEF Answers!Documents, Answers!Ids, Answers!Says
  <2>4. mail' \subseteq Answers!Documents /\ \A m \in mail' \ mail : m.from # "registry"
    BY <1>0, <1>1, <2>2, <2>3
  <2> QED BY <2>1, <2>4, StrayMail
<1>2. CASE Answers!Job
  <2>1. AskPlanOK' /\ UNCHANGED <<registry, checks, pending, handing, jobs, past>>
    BY <1>0, <1>2, MoveCounts DEF Answers!Job, Answers!Moves
  <2>2. PICK via \in Answers!Vias :
          mail' = mail \cup {[from |-> "registry", thread |-> Answers!None, via |-> via, says |-> "yes"]}
    BY <1>2 DEF Answers!Job
  <2>3. [from |-> "registry", thread |-> Answers!None, via |-> via, says |-> "yes"] \in Answers!Documents
    BY <1>0 DEF Answers!Documents, Answers!Says, Answers!None
  <2>4. mail' \subseteq Answers!Documents /\ \A m \in mail' \ mail : m.thread = 0
    BY <1>0, <2>2, <2>3 DEF Answers!None
  <2> QED BY <2>1, <2>4, StrayMail
<1>3. ASSUME NEW m \in mail, Answers!Lose(m) PROVE AskInv'
  <2>1. AskPlanOK' /\ UNCHANGED <<registry, checks, pending, handing, jobs, past>>
    BY <1>0, <1>3, MoveCounts DEF Answers!Lose, Answers!Moves
  <2>2. mail' \subseteq mail
    BY <1>3 DEF Answers!Lose
  <2> QED BY <1>0, <2>1, <2>2, StrayMail
<1> QED BY <1>1, <1>2, <1>3

(* A document goes to the waiter of its thread and sender, or to none.     *)
LEMMA RouteStep == ASSUME AskInv, NEW m \in mail, Answers!Route(m) PROVE AskInv'
<1>0. AskTypes /\ AskPlanOK /\ IdsKnown /\ HandKnown /\ MailKnown /\ WaitersKnown /\ FoundKnown
      /\ m \in Answers!Documents
  BY DEF AskInv, AskTypes
<1>1. AskPlanOK' /\ UNCHANGED <<registry, checks, past>> /\ mail' = mail \ {m}
  BY <1>0, QuietAsk DEF Answers!Route
<1>2. AskPlanOK' /\ IdsKnown' /\ HandKnown' /\ FoundKnown'
  BY <1>0, <1>1 DEF IdsKnown, HandKnown, FoundKnown, InFlight
<1>3. CASE \E w \in pending : Answers!IsFor(m, w)
  <2>1. /\ handing' = handing \cup {m} /\ jobs' = jobs
        /\ pending' = pending \ {w \in pending : Answers!IsFor(m, w)}
    BY <1>3 DEF Answers!Route
  <2>2. PICK w \in pending : m.from = "registry" /\ w.id = m.thread /\ w.via = m.via
    BY <1>3 DEF Answers!IsFor
  <2>3. PICK c \in Checks : InFlight(c) /\ checks[c].id = w.id /\ checks[c].via = w.via
    BY <1>0, <2>2 DEF WaitersKnown
  <2>4. m.thread # 0 /\ <<m.thread, m.via, m.says>> \in past.said
    BY <1>0, <2>2, <2>3 DEF IdsKnown, MailKnown
  <2>5. \A d \in Checks : InFlight(d) /\ checks[d].id = m.thread => checks[d].via = m.via
    BY <1>0, <2>2, <2>3 DEF IdsKnown
  <2>6. AskTypes'
    BY <1>0, <1>1, <2>1 DEF AskTypes
  <2>7. MailKnown'
    BY <1>0, <1>1, <2>1, <2>4, <2>5 DEF MailKnown, InFlight
  <2>8. \A v \in pending \ pending' : v.id = m.thread
    BY <2>1 DEF Answers!IsFor
  <2>9. WaitersKnown'
    <3>1. \A v \in pending' : \E d \in Checks : InFlight(d) /\ checks[d].id = v.id /\ checks[d].via = v.via
      BY <1>0, <2>1 DEF WaitersKnown
    <3>2. ASSUME NEW d \in Checks, InFlight(d), checks[d].got = "none"
          PROVE  \/ \E h \in handing' : h.thread = checks[d].id
                 \/ \E v \in pending' : v.id = checks[d].id /\ v.via = checks[d].via
      <4>1. CASE \E h \in handing : h.thread = checks[d].id
        BY <2>1, <4>1
      <4>2. CASE \E v \in pending : v.id = checks[d].id /\ v.via = checks[d].via
        <5>1. PICK v \in pending : v.id = checks[d].id /\ v.via = checks[d].via
          BY <4>2
        <5>2. CASE v \in pending'
          BY <5>1, <5>2
        <5>3. CASE v \notin pending'
          BY <2>1, <2>8, <5>1, <5>3
        <5> QED BY <5>2, <5>3
      <4> QED BY <1>0, <3>2, <4>1, <4>2 DEF WaitersKnown
    <3>3. \A j \in jobs' : ~j.live
      BY <1>0, <2>1 DEF WaitersKnown
    <3> QED BY <1>1, <3>1, <3>2, <3>3 DEF WaitersKnown, InFlight
  <2> QED BY <1>2, <2>6, <2>7, <2>9, AskPartsNext
<1>4. CASE ~\E w \in pending : Answers!IsFor(m, w)
  <2>1. /\ handing' = handing /\ jobs' = jobs \cup {[doc |-> m, live |-> Answers!Live(m)]}
        /\ pending' = pending
    BY <1>4 DEF Answers!Route
  <2>2. ~Answers!Live(m)
    <3> SUFFICES ASSUME m.from = "registry", NEW c \in Checks, InFlight(c), checks[c].id = m.thread,
                        checks[c].via = m.via, checks[c].got = "none",
                        \A h \in handing : h.thread # m.thread
                 PROVE  FALSE
      BY DEF Answers!Live, InFlight
    <3>1. \E w \in pending : w.id = checks[c].id /\ w.via = checks[c].via
      BY <1>0 DEF WaitersKnown
    <3> QED BY <1>4, <3>1 DEF Answers!IsFor
  <2>3. PICK b \in BOOLEAN : b = FALSE /\ jobs' = jobs \cup {[doc |-> m, live |-> b]}
    <3>1. Answers!Live(m) = FALSE
      BY <2>2 DEF Answers!Live
    <3> QED BY <2>1, <3>1
  <2>4. AskTypes'
    BY <1>0, <1>1, <2>1, <2>3 DEF AskTypes
  <2>5. MailKnown'
    BY <1>0, <1>1, <2>1 DEF MailKnown, InFlight
  <2>6. WaitersKnown'
    BY <1>0, <1>1, <2>1, <2>3 DEF WaitersKnown, InFlight
  <2> QED BY <1>2, <2>4, <2>5, <2>6, AskPartsNext
<1> QED BY <1>3, <1>4

(* A reply is handed to the check that waits for it.                       *)
LEMMA HandStep == ASSUME AskInv, NEW m \in handing, Answers!Hand(m) PROVE AskInv'
<1>0. AskTypes /\ AskPlanOK /\ IdsKnown /\ HandKnown /\ MailKnown /\ WaitersKnown /\ FoundKnown
      /\ m \in Answers!Documents
  BY DEF AskInv, AskTypes
<1>1. /\ AskPlanOK' /\ UNCHANGED <<registry, pending, mail, jobs, past>> /\ handing' = handing \ {m}
      /\ checks' = [c \in Checks |->
           IF InFlight(c) /\ checks[c].id = m.thread
           THEN [checks[c] EXCEPT !.got = m.says] ELSE checks[c]]
  BY <1>0, QuietAsk DEF Answers!Hand, InFlight
<1>2. m.says \in Answers!Says
  BY <1>0 DEF Answers!Documents
<1>3. ASSUME NEW c \in Checks
      PROVE  /\ checks'[c] \in CheckRecords /\ checks'[c].at = checks[c].at
             /\ checks'[c].id = checks[c].id /\ checks'[c].on = checks[c].on
             /\ checks'[c].signer = checks[c].signer /\ checks'[c].via = checks[c].via
             /\ checks'[c].found = checks[c].found
             /\ checks'[c].got = IF InFlight(c) /\ checks[c].id = m.thread THEN m.says ELSE checks[c].got
  <2>1. PICK k \in CheckRecords : k = checks[c]
    BY <1>0, <1>3 DEF AskTypes
  <2>2. checks'[c] = IF InFlight(c) /\ checks[c].id = m.thread THEN [k EXCEPT !.got = m.says] ELSE k
    BY <1>1, <1>3, <2>1
  <2>3. /\ [k EXCEPT !.got = m.says] \in CheckRecords /\ [k EXCEPT !.got = m.says].at = k.at
        /\ [k EXCEPT !.got = m.says].id = k.id /\ [k EXCEPT !.got = m.says].on = k.on
        /\ [k EXCEPT !.got = m.says].signer = k.signer /\ [k EXCEPT !.got = m.says].via = k.via
        /\ [k EXCEPT !.got = m.says].found = k.found /\ [k EXCEPT !.got = m.says].got = m.says
    BY <1>2 DEF CheckRecords
  <2> QED BY <2>1, <2>2, <2>3
<1>4. \A c \in Checks : InFlight(c)' <=> InFlight(c)
  BY <1>3 DEF InFlight
<1>5. AskTypes'
  <2>1. checks' \in [Checks -> CheckRecords]
    BY <1>1, <1>3
  <2> QED BY <1>0, <1>1, <2>1 DEF AskTypes
<1>6. IdsKnown'
  BY <1>0, <1>1, <1>3, <1>4 DEF IdsKnown
<1>7. HandKnown'
  BY <1>0, <1>1, <1>3, <1>4 DEF HandKnown
<1>8. MailKnown'
  <2>1. /\ \A d \in mail : d.from = "registry" /\ d.thread # 0 => <<d.thread, d.via, d.says>> \in past.said
        /\ \A d \in handing' :
             /\ d.thread # 0 /\ <<d.thread, d.via, d.says>> \in past.said
             /\ \A c \in Checks : InFlight(c) /\ checks[c].id = d.thread => checks[c].via = d.via
    BY <1>0, <1>1 DEF MailKnown
  <2>2. ASSUME NEW c \in Checks
        PROVE  /\ checks'[c].got # "none" => <<checks[c].id, checks[c].via, checks'[c].got>> \in past.said
               /\ checks[c].at \in {"ask", "done"} => checks'[c].got = "none"
    <3>1. CASE InFlight(c) /\ checks[c].id = m.thread
      BY <1>0, <1>3, <2>2, <3>1 DEF MailKnown, InFlight
    <3>2. CASE ~(InFlight(c) /\ checks[c].id = m.thread)
      BY <1>0, <1>3, <2>2, <3>2 DEF MailKnown
    <3> QED BY <3>1, <3>2
  <2> QED BY <1>1, <1>3, <1>4, <2>1, <2>2 DEF MailKnown
<1>9. WaitersKnown'
  <2>1. ASSUME NEW c \in Checks, InFlight(c), checks'[c].got = "none"
        PROVE  \/ \E h \in handing' : h.thread = checks[c].id
               \/ \E w \in pending : w.id = checks[c].id /\ w.via = checks[c].via
    <3>1. checks[c].id # m.thread /\ checks[c].got = "none"
      BY <1>2, <1>3, <2>1 DEF Answers!Says
    <3> QED BY <1>0, <1>1, <2>1, <3>1 DEF WaitersKnown
  <2> QED BY <1>0, <1>1, <1>3, <1>4, <2>1 DEF WaitersKnown
<1>10. FoundKnown'
  BY <1>0, <1>1, <1>3 DEF FoundKnown
<1> QED BY <1>1, <1>5, <1>6, <1>7, <1>8, <1>9, <1>10, AskPartsNext

(* A check whose query ends, or that was not in flight.                     *)
Ending(c) ==
  /\ pending' = IF InFlight(c) THEN {w \in pending : w.id # checks[c].id} ELSE pending
  /\ UNCHANGED <<handing, mail, jobs, past>>
  /\ registry' \in Registries
  /\ registry'.grants = registry.grants /\ registry'.next = registry.next
  /\ \A q \in registry'.hand \ registry.hand : InFlight(c) /\ q.id = checks[c].id

(* A query of a check ends: nothing waits for it, or is handed to it, any more. *)
LEMMA EndStep ==
  ASSUME AskInv, AskPlanOK', NEW c \in Checks, Ending(c),
         NEW k \in CheckRecords, checks' = [checks EXCEPT ![c] = k],
         k.at \in {"ask", "done", "gone"}, k.id = checks[c].id,
         k.got # "none" => k.at = "gone" /\ k.via = checks[c].via /\ k.got = checks[c].got,
         \A s \in Signers :
            \/ k.found[s] = checks[c].found[s]
            \/ k.found[s] = "granted" /\ \E r \in Answers!Resources : <<s, r>> \in past.some[c]
            \/ k.found[s] = "denied" /\ \A r \in Answers!Resources : <<s, r>> \notin past.always[c]
            \/ k.found[s] = "unavailable",
         k.on = "org" => k.signer # 0 /\ <<k.signer, "repo">> \notin past.always[c]
  PROVE  AskInv'
<1>0. AskTypes /\ IdsKnown /\ HandKnown /\ MailKnown /\ WaitersKnown /\ FoundKnown
  BY DEF AskInv
<1>1. /\ checks' \in [Checks -> CheckRecords] /\ checks'[c] = k /\ ~InFlight(c)'
      /\ \A d \in Checks \ {c} : checks'[d] = checks[d] /\ (InFlight(d)' <=> InFlight(d))
  BY <1>0 DEF AskTypes, InFlight
<1>2. AskTypes'
  BY <1>0, <1>1 DEF AskTypes, Ending
<1>3. IdsKnown'
  <2>1. registry \in Registries /\ \A d \in Checks : checks[d].id \in Nat
    BY <1>0, AnswersAssumption DEF AskTypes, CheckRecords
  <2>2. \A q \in registry'.hand : q.id < registry'.next
    BY <1>0, <2>1 DEF IdsKnown, Ending
  <2>3. \A t \in past'.said : t[1] < registry'.next
    BY <1>0 DEF IdsKnown, Ending
  <2>4. \A d \in Checks : /\ checks'[d].id < registry'.next
                          /\ InFlight(d)' => checks'[d].id # 0 /\ checks'[d].signer # 0
    BY <1>0, <1>1 DEF IdsKnown, Ending
  <2>5. \A d, e \in Checks : d # e /\ InFlight(d)' /\ InFlight(e)' => checks'[d].id # checks'[e].id
    BY <1>0, <1>1 DEF IdsKnown
  <2> QED BY <2>2, <2>3, <2>4, <2>5 DEF IdsKnown
<1>4. HandKnown'
  <2>1. ASSUME NEW d \in Checks, InFlight(d)', NEW q \in registry'.hand, q.id = checks'[d].id
        PROVE  q.signer = checks'[d].signer /\ q.on = checks'[d].on
    <3>1. d # c /\ checks'[d] = checks[d] /\ InFlight(d)
      BY <1>1, <2>1
    <3>2. q \in registry.hand
      BY <1>0, <2>1, <3>1 DEF IdsKnown, Ending
    <3> QED BY <1>0, <2>1, <3>1, <3>2 DEF HandKnown
  <2>2. ASSUME NEW d \in Checks, InFlight(d)', NEW t \in past.said, t[1] = checks'[d].id
        PROVE  /\ t[3] = "yes" => <<checks'[d].signer, checks'[d].on>> \in past.some[d]
               /\ t[3] = "no" => <<checks'[d].signer, checks'[d].on>> \notin past.always[d]
    <3>1. d # c /\ checks'[d] = checks[d] /\ InFlight(d)
      BY <1>1, <2>2
    <3> QED BY <1>0, <2>2, <3>1 DEF HandKnown
  <2>3. \A d \in Checks : registry'.grants \subseteq past'.some[d] /\ past'.always[d] \subseteq registry'.grants
    BY <1>0 DEF HandKnown, Ending
  <2>4. past' = past
    BY DEF Ending
  <2> QED BY <2>1, <2>2, <2>3, <2>4 DEF HandKnown
<1>5. MailKnown'
  <2>1. \A d \in Checks :
          /\ checks'[d].got # "none" => <<checks'[d].id, checks'[d].via, checks'[d].got>> \in past.said
          /\ checks'[d].at \in {"ask", "done"} => checks'[d].got = "none"
    BY <1>0, <1>1 DEF MailKnown
  <2>2. \A m \in handing : \A d \in Checks : InFlight(d)' /\ checks'[d].id = m.thread => checks'[d].via = m.via
    BY <1>0, <1>1 DEF MailKnown
  <2> QED BY <1>0, <2>1, <2>2 DEF MailKnown, Ending
<1>6. WaitersKnown'
  <2>1. ASSUME NEW w \in pending'
        PROVE  \E d \in Checks : InFlight(d)' /\ checks'[d].id = w.id /\ checks'[d].via = w.via
    <3>1. w \in pending /\ (InFlight(c) => w.id # checks[c].id)
      BY <2>1 DEF Ending
    <3>2. PICK d \in Checks : InFlight(d) /\ checks[d].id = w.id /\ checks[d].via = w.via
      BY <1>0, <3>1 DEF WaitersKnown
    <3> QED BY <1>1, <3>1, <3>2
  <2>2. ASSUME NEW d \in Checks, InFlight(d)', checks'[d].got = "none"
        PROVE  \/ \E m \in handing : m.thread = checks'[d].id
               \/ \E w \in pending' : w.id = checks'[d].id /\ w.via = checks'[d].via
    <3>1. d # c /\ checks'[d] = checks[d] /\ InFlight(d)
      BY <1>1, <2>2
    <3>2. InFlight(c) => checks[c].id # checks[d].id
      BY <1>0, <3>1 DEF IdsKnown
    <3>3. \A w \in pending : w.id = checks[d].id => w \in pending'
      BY <3>2 DEF Ending
    <3> QED BY <1>0, <2>2, <3>1, <3>3 DEF WaitersKnown
  <2>3. \A j \in jobs : ~j.live
    BY <1>0 DEF WaitersKnown
  <2> QED BY <2>1, <2>2, <2>3 DEF WaitersKnown, Ending
<1>7. FoundKnown'
  <2>1. ASSUME NEW d \in Checks
        PROVE  /\ \A s \in Signers :
                    /\ checks'[d].found[s] = "granted" => \E r \in Answers!Resources : <<s, r>> \in past.some[d]
                    /\ checks'[d].found[s] = "denied" => \A r \in Answers!Resources : <<s, r>> \notin past.always[d]
               /\ checks'[d].on = "org" => checks'[d].signer # 0 /\ <<checks'[d].signer, "repo">> \notin past.always[d]
    <3>1. CASE d = c
      BY <1>0, <1>1, <3>1 DEF FoundKnown
    <3>2. CASE d # c
      BY <1>0, <1>1, <2>1, <3>2 DEF FoundKnown
    <3> QED BY <3>1, <3>2
  <2> QED BY <2>1 DEF FoundKnown, Ending
<1> QED BY <1>2, <1>3, <1>4, <1>5, <1>6, <1>7, AskPartsNext

(* The record of a check that decided on its signer.                        *)
LEMMA DecidedEffect ==
  ASSUME NEW k \in CheckRecords, k.signer \in Signers, NEW d \in Answers!Decisions
  PROVE  /\ Answers!Decided(k, d) \in CheckRecords
         /\ Answers!Decided(k, d).at \in {"ask", "done"} /\ Answers!Decided(k, d).id = k.id
         /\ Answers!Decided(k, d).on = "repo" /\ Answers!Decided(k, d).got = "none"
         /\ \A s \in Signers : Answers!Decided(k, d).found[s] = IF s = k.signer THEN d ELSE k.found[s]
<1> DEFINE e == [k EXCEPT !.found[k.signer] = d, !.signer = Answers!None, !.on = "repo", !.got = "none"]
<1>1. /\ e \in CheckRecords /\ e.id = k.id /\ e.on = "repo" /\ e.got = "none"
      /\ \A s \in Signers : e.found[s] = IF s = k.signer THEN d ELSE k.found[s]
  BY DEF CheckRecords, Answers!None, Answers!Resources
<1>2. Answers!Decided(k, d) = IF e.todo = {} THEN [e EXCEPT !.at = "done"] ELSE [e EXCEPT !.at = "ask"]
  BY DEF Answers!Decided, Answers!Next1
<1> HIDE DEF e
<1>3. /\ [e EXCEPT !.at = "done"] \in CheckRecords /\ [e EXCEPT !.at = "done"].at = "done"
      /\ [e EXCEPT !.at = "done"].id = e.id /\ [e EXCEPT !.at = "done"].on = e.on
      /\ [e EXCEPT !.at = "done"].got = e.got /\ [e EXCEPT !.at = "done"].found = e.found
  BY <1>1 DEF CheckRecords
<1>4. /\ [e EXCEPT !.at = "ask"] \in CheckRecords /\ [e EXCEPT !.at = "ask"].at = "ask"
      /\ [e EXCEPT !.at = "ask"].id = e.id /\ [e EXCEPT !.at = "ask"].on = e.on
      /\ [e EXCEPT !.at = "ask"].got = e.got /\ [e EXCEPT !.at = "ask"].found = e.found
  BY <1>1 DEF CheckRecords
<1> QED BY <1>1, <1>2, <1>3, <1>4

(* A query that fails is the last one of its check.                        *)
LEMMA GivesUpEffect ==
  ASSUME NEW k \in CheckRecords, k.signer \in Signers
  PROVE  /\ Answers!GivesUp(k) \in CheckRecords
         /\ Answers!GivesUp(k).at \in {"ask", "done"} /\ Answers!GivesUp(k).id = k.id
         /\ Answers!GivesUp(k).on = "repo" /\ Answers!GivesUp(k).got = "none"
         /\ \A s \in Signers : Answers!GivesUp(k).found[s] = IF s = k.signer THEN "unavailable" ELSE k.found[s]
<1>1. PICK e \in CheckRecords : e = [k EXCEPT !.failed = TRUE] /\ e.signer = k.signer /\ e.id = k.id /\ e.found = k.found
  <2>1. /\ [k EXCEPT !.failed = TRUE] \in CheckRecords /\ [k EXCEPT !.failed = TRUE].signer = k.signer
        /\ [k EXCEPT !.failed = TRUE].id = k.id /\ [k EXCEPT !.failed = TRUE].found = k.found
    BY DEF CheckRecords
  <2> QED BY <2>1
<1>2. PICK d \in Answers!Decisions : d = "unavailable"
  BY DEF Answers!Decisions
<1>3. Answers!GivesUp(k) = Answers!Decided(e, d)
  BY <1>1, <1>2 DEF Answers!GivesUp
<1>4. /\ Answers!Decided(e, d) \in CheckRecords
      /\ Answers!Decided(e, d).at \in {"ask", "done"} /\ Answers!Decided(e, d).id = e.id
      /\ Answers!Decided(e, d).on = "repo" /\ Answers!Decided(e, d).got = "none"
      /\ \A s \in Signers : Answers!Decided(e, d).found[s] = IF s = e.signer THEN d ELSE e.found[s]
  <2>1. e.signer \in Signers
    BY <1>1
  <2> HIDE <1>1, <1>2, <1>3
  <2> QED BY <2>1, DecidedEffect
<1> QED BY <1>1, <1>2, <1>3, <1>4

(* In flight the signer is one, and the check one of the checks.            *)
LEMMA FlyingCheck ==
  ASSUME AskInv, NEW c \in Checks
  PROVE  checks[c] \in CheckRecords /\ (InFlight(c) => checks[c].signer \in Signers)
BY DEF AskInv, AskTypes, IdsKnown, CheckRecords, Answers!None

(* A query that fails ends the check's questions.                           *)
LEMMA GivingUpStep ==
  ASSUME AskInv, AskPlanOK', NEW c \in Checks, InFlight(c), Ending(c),
         Answers!Becomes(c, Answers!GivesUp(checks[c]))
  PROVE  AskInv'
<1>1. PICK k \in CheckRecords : k = checks[c] /\ k.signer \in Signers
  BY FlyingCheck
<1>2. PICK g \in CheckRecords :
        /\ g = Answers!GivesUp(k) /\ g.at \in {"ask", "done"} /\ g.id = k.id
        /\ g.on = "repo" /\ g.got = "none"
        /\ \A s \in Signers : g.found[s] = IF s = k.signer THEN "unavailable" ELSE k.found[s]
  BY <1>1, GivesUpEffect
<1>3. checks' = [checks EXCEPT ![c] = g]
  BY <1>1, <1>2 DEF Answers!Becomes
<1> QED BY <1>1, <1>2, <1>3, EndStep

(* A query cannot be sent.                                                 *)
LEMMA SendFailsStep == ASSUME AskInv, NEW c \in Checks, Answers!SendFails(c) PROVE AskInv'
<1>0. AskPlanOK /\ registry \in Registries /\ checks[c] \in CheckRecords /\ checks[c].signer \in Signers
      /\ InFlight(c) /\ checks[c].id # 0
  BY FlyingCheck DEF AskInv, AskTypes, Answers!SendFails, InFlight, IdsKnown
<1>1. /\ AskPlanOK' /\ UNCHANGED <<handing, mail, jobs, past>>
      /\ Answers!Becomes(c, Answers!GivesUp(checks[c])) /\ Answers!Unregister(c)
  BY <1>0, MoveCounts DEF Answers!SendFails, Answers!Moves
<1>2. PICK went \in BOOLEAN :
        registry' = [registry EXCEPT !.hand = IF went THEN @ \cup {Answers!Query(checks[c])} ELSE @]
  BY DEF Answers!SendFails
<1>3. Answers!Query(checks[c]) \in Answers!Requests /\ Answers!Query(checks[c]).id = checks[c].id
  BY <1>0, AnswersAssumption DEF Answers!Query, Answers!Requests, Answers!Ids, CheckRecords
<1>4. /\ registry' \in Registries /\ registry'.grants = registry.grants /\ registry'.next = registry.next
      /\ \A q \in registry'.hand \ registry.hand : q.id = checks[c].id
  BY <1>0, <1>2, <1>3 DEF Registries
<1>5. Ending(c)
  BY <1>0, <1>1, <1>4 DEF Ending, Answers!Unregister
<1> QED BY <1>0, <1>1, <1>5, GivingUpStep

(* A check waits no longer.                                                *)
LEMMA WaitEnds ==
  ASSUME AskInv, NEW c \in Checks, InFlight(c), UNCHANGED <<registry, handing, mail, jobs, past>>,
         Answers!Unregister(c)
  PROVE  Ending(c)
BY DEF AskInv, AskTypes, Ending, Answers!Unregister

(* The wait is over, or the check itself.                                  *)
LEMMA AskTimeOutStep == ASSUME AskInv, NEW c \in Checks, Answers!TimeOut(c) PROVE AskInv'
<1>1. AskPlanOK'
  BY MoveCounts, QuietAsk DEF Answers!TimeOut, Answers!Moves, AskInv
<1>2. InFlight(c) /\ Ending(c)
  BY WaitEnds DEF Answers!TimeOut, InFlight
<1> QED BY <1>1, <1>2, GivingUpStep DEF Answers!TimeOut

LEMMA AbortStep == ASSUME AskInv, NEW c \in Checks, Answers!Abort(c) PROVE AskInv'
<1>1. AskPlanOK'
  BY MoveCounts DEF Answers!Abort, Answers!Moves, AskInv
<1>2. InFlight(c) /\ Ending(c)
  BY WaitEnds DEF Answers!Abort, InFlight
<1>3. PICK k \in CheckRecords : k = checks[c]
  BY FlyingCheck
<1>4. PICK g \in CheckRecords : /\ g = [k EXCEPT !.at = "gone"] /\ g.at = "gone" /\ g.id = k.id
                                /\ g.via = k.via /\ g.got = k.got /\ g.on = k.on
                                /\ g.signer = k.signer /\ g.found = k.found
  <2>1. /\ [k EXCEPT !.at = "gone"] \in CheckRecords /\ [k EXCEPT !.at = "gone"].at = "gone"
        /\ [k EXCEPT !.at = "gone"].id = k.id /\ [k EXCEPT !.at = "gone"].via = k.via
        /\ [k EXCEPT !.at = "gone"].got = k.got /\ [k EXCEPT !.at = "gone"].on = k.on
        /\ [k EXCEPT !.at = "gone"].signer = k.signer /\ [k EXCEPT !.at = "gone"].found = k.found
    BY DEF CheckRecords
  <2> QED BY <2>1
<1>5. checks' = [checks EXCEPT ![c] = g]
  BY <1>3, <1>4 DEF Answers!Abort, Answers!Becomes
<1>6. k.on = "org" => k.signer # 0 /\ <<k.signer, "repo">> \notin past.always[c]
  BY <1>3 DEF AskInv, FoundKnown
<1>7. /\ g.at \in {"ask", "done", "gone"} /\ g.id = checks[c].id
      /\ g.at = "gone" /\ g.via = checks[c].via /\ g.got = checks[c].got
      /\ \A s \in Signers : g.found[s] = checks[c].found[s]
      /\ g.on = "org" => g.signer # 0 /\ <<g.signer, "repo">> \notin past.always[c]
  BY <1>3, <1>4, <1>6
<1> HIDE <1>3, <1>4, <1>6
<1> QED BY <1>1, <1>2, <1>5, <1>7, EndStep

(* The check takes the reply handed to it, and nothing else.               *)
LEMMA HearStep == ASSUME AskInv, NEW c \in Checks, Answers!Hear(c) PROVE AskInv'
<1>0. AskPlanOK /\ HandKnown /\ MailKnown /\ FoundKnown /\ AskTypes
  BY DEF AskInv
<1>1. AskPlanOK'
  BY <1>0, QuietAsk DEF Answers!Hear
<1>2. InFlight(c) /\ Ending(c)
  BY WaitEnds DEF Answers!Hear, InFlight
<1>3. PICK k \in CheckRecords : k = checks[c] /\ k.signer \in Signers
  BY <1>2, FlyingCheck
<1>4. k.got \in Answers!Says /\ k.on \in Answers!Resources
  BY <1>3 DEF Answers!Hear, CheckRecords
<1>5. /\ k.got = "yes" => <<k.signer, k.on>> \in past.some[c]
      /\ k.got = "no" => <<k.signer, k.on>> \notin past.always[c]
      /\ k.on = "org" => k.signer # 0 /\ <<k.signer, "repo">> \notin past.always[c]
  <2>1. <<k.id, k.via, k.got>> \in past.said
    BY <1>0, <1>3, <1>4 DEF MailKnown, Answers!Says
  <2> QED BY <1>0, <1>2, <1>3, <2>1 DEF HandKnown, FoundKnown
<1>6. ASSUME NEW d \in Answers!Decisions, Answers!Answered(k) = Answers!Decided(k, d),
             d = "granted" => k.got = "yes",
             d = "denied" => k.got = "no" /\ k.on = "org"
      PROVE  AskInv'
  <2>1. PICK g \in CheckRecords :
          /\ g = Answers!Decided(k, d) /\ g.at \in {"ask", "done"} /\ g.id = k.id
          /\ g.on = "repo" /\ g.got = "none"
          /\ \A s \in Signers : g.found[s] = IF s = k.signer THEN d ELSE k.found[s]
    BY <1>3, DecidedEffect
  <2>2. checks' = [checks EXCEPT ![c] = g]
    BY <1>3, <1>6, <2>1 DEF Answers!Hear, Answers!Becomes
  <2>3. \A s \in Signers :
            \/ g.found[s] = checks[c].found[s]
            \/ g.found[s] = "granted" /\ \E r \in Answers!Resources : <<s, r>> \in past.some[c]
            \/ g.found[s] = "denied" /\ \A r \in Answers!Resources : <<s, r>> \notin past.always[c]
            \/ g.found[s] = "unavailable"
    <3>1. d = "granted" => \E r \in Answers!Resources : <<k.signer, r>> \in past.some[c]
      BY <1>4, <1>5, <1>6
    <3>2. d = "denied" => \A r \in Answers!Resources : <<k.signer, r>> \notin past.always[c]
      BY <1>5, <1>6 DEF Answers!Resources
    <3>3. d \in {"granted", "denied", "unavailable"}
      BY <1>6 DEF Answers!Decisions
    <3> QED BY <1>3, <2>1, <3>1, <3>2, <3>3
  <2> QED BY <1>1, <1>2, <1>3, <2>1, <2>2, <2>3, EndStep
<1>7. CASE k.got = "no" /\ k.on = "repo"
  <2>1. Answers!Answered(k) = [k EXCEPT !.on = "org", !.at = "ask", !.got = "none"]
    BY <1>7 DEF Answers!Answered
  <2>2. PICK g \in CheckRecords : /\ g = Answers!Answered(k) /\ g.at = "ask" /\ g.id = k.id
                                  /\ g.got = "none" /\ g.signer = k.signer /\ g.found = k.found
    <3> DEFINE g == [k EXCEPT !.on = "org", !.at = "ask", !.got = "none"]
    <3>1. /\ g \in CheckRecords /\ g.at = "ask" /\ g.id = k.id
          /\ g.got = "none" /\ g.signer = k.signer /\ g.found = k.found
      BY DEF CheckRecords, Answers!Resources
    <3> QED BY <2>1, <3>1
  <2>3. checks' = [checks EXCEPT ![c] = g]
    BY <1>3, <2>2 DEF Answers!Hear, Answers!Becomes
  <2>4. <<k.signer, "repo">> \notin past.always[c] /\ k.signer # 0
    BY <1>3, <1>5, <1>7, AnswersAssumption
  <2> QED BY <1>1, <1>2, <1>3, <2>2, <2>3, <2>4, EndStep
<1>8. CASE k.got = "yes"
  BY <1>6, <1>8 DEF Answers!Answered, Answers!Decisions
<1>9. CASE k.got = "unable"
  BY <1>6, <1>9 DEF Answers!Answered, Answers!Decisions
<1>10. CASE k.got = "no" /\ k.on = "org"
  BY <1>6, <1>10 DEF Answers!Answered, Answers!Decisions
<1> QED BY <1>4, <1>7, <1>8, <1>9, <1>10 DEF Answers!Says, Answers!Resources

(* The query is sent after its waiter is there.                            *)
LEMMA SendStep == ASSUME AskInv, NEW c \in Checks, Answers!Send(c) PROVE AskInv'
<1>0. AskTypes /\ AskPlanOK /\ IdsKnown /\ HandKnown /\ MailKnown /\ WaitersKnown /\ FoundKnown
  BY DEF AskInv
<1>1. PICK k \in CheckRecords : k = checks[c] /\ k.signer \in Signers /\ k.at = "send"
  BY FlyingCheck DEF Answers!Send, InFlight
<1>2. /\ AskPlanOK' /\ UNCHANGED <<pending, handing, mail, jobs, past>>
      /\ registry' = [registry EXCEPT !.hand = @ \cup {Answers!Query(k)}]
      /\ checks' = [checks EXCEPT ![c] = [k EXCEPT !.at = "wait"]]
  BY <1>0, <1>1, QuietAsk DEF Answers!Send, Answers!Becomes
<1>3. /\ [k EXCEPT !.at = "wait"] \in CheckRecords /\ [k EXCEPT !.at = "wait"].at = "wait"
      /\ [k EXCEPT !.at = "wait"].id = k.id /\ [k EXCEPT !.at = "wait"].via = k.via
      /\ [k EXCEPT !.at = "wait"].got = k.got /\ [k EXCEPT !.at = "wait"].on = k.on
      /\ [k EXCEPT !.at = "wait"].signer = k.signer /\ [k EXCEPT !.at = "wait"].found = k.found
  BY DEF CheckRecords
<1>4. ASSUME NEW d \in Checks
      PROVE  /\ checks'[d] \in CheckRecords /\ (InFlight(d)' <=> InFlight(d))
             /\ checks'[d].id = checks[d].id /\ checks'[d].on = checks[d].on
             /\ checks'[d].signer = checks[d].signer /\ checks'[d].via = checks[d].via
             /\ checks'[d].found = checks[d].found /\ checks'[d].got = checks[d].got
             /\ checks'[d].at \in {"ask", "done"} => checks[d].at = checks'[d].at
  <2>1. CASE d = c
    BY <1>0, <1>1, <1>2, <1>3, <2>1 DEF AskTypes, InFlight
  <2>2. CASE d # c
    BY <1>0, <1>2, <2>2 DEF AskTypes, InFlight
  <2> QED BY <2>1, <2>2
<1>5. k.id # 0 /\ k.id < registry.next /\ InFlight(c)
  BY <1>0, <1>1 DEF IdsKnown, InFlight
<1>6. /\ Answers!Query(k) \in Answers!Requests /\ Answers!Query(k).id = k.id
      /\ Answers!Query(k).signer = k.signer /\ Answers!Query(k).on = k.on
  BY <1>1, <1>5, AnswersAssumption DEF Answers!Query, Answers!Requests, Answers!Ids, CheckRecords
<1>7. /\ registry' \in Registries /\ registry'.grants = registry.grants
      /\ registry'.hand = registry.hand \cup {Answers!Query(k)} /\ registry'.next = registry.next
  BY <1>0, <1>2, <1>6 DEF AskTypes, Registries
<1>8. AskTypes'
  <2>1. checks' \in [Checks -> CheckRecords]
    BY <1>0, <1>2, <1>4 DEF AskTypes
  <2> QED BY <1>0, <1>2, <1>7, <2>1 DEF AskTypes
<1>9. IdsKnown'
  BY <1>0, <1>2, <1>4, <1>5, <1>6, <1>7 DEF IdsKnown
<1>10. HandKnown'
  <2>1. ASSUME NEW d \in Checks, InFlight(d), NEW q \in registry'.hand, q.id = checks[d].id
        PROVE  q.signer = checks[d].signer /\ q.on = checks[d].on
    <3>1. CASE q = Answers!Query(k)
      <4>1. d = c
        BY <1>0, <1>1, <1>5, <1>6, <2>1, <3>1 DEF IdsKnown
      <4> QED BY <1>1, <1>6, <3>1, <4>1
    <3>2. CASE q # Answers!Query(k)
      BY <1>0, <1>7, <2>1, <3>2 DEF HandKnown
    <3> QED BY <3>1, <3>2
  <2> QED BY <1>0, <1>2, <1>4, <1>7, <2>1 DEF HandKnown
<1>11. MailKnown'
  BY <1>0, <1>2, <1>4 DEF MailKnown
<1>12. WaitersKnown'
  BY <1>0, <1>2, <1>4 DEF WaitersKnown
<1>13. FoundKnown'
  BY <1>0, <1>2, <1>4 DEF FoundKnown
<1> QED BY <1>2, <1>8, <1>9, <1>10, <1>11, <1>12, <1>13, AskPartsNext

(* A new query: its waiter is there before it goes out.                     *)
NewQuery(c, n, k) ==
  /\ ~InFlight(c) /\ n = registry.next /\ checks' = [checks EXCEPT ![c] = k]
  /\ k.at = "send" /\ k.id = n /\ k.signer \in Signers /\ k.got = "none" /\ k.via = checks[c].via
  /\ \A s \in Signers : k.found[s] = checks[c].found[s]
  /\ k.on = "org" => k.signer # 0 /\ <<k.signer, "repo">> \notin past.always[c]
  /\ registry' = [registry EXCEPT !.next = @ + 1]
  /\ pending' = pending \cup {[id |-> n, via |-> k.via]}
  /\ UNCHANGED <<handing, mail, jobs, past>>

(* A query is of one check, one signer and one resource, under a new id.   *)
LEMMA NewQueryStep ==
  ASSUME AskInv, AskPlanOK', NEW c \in Checks, NEW n \in Answers!Ids, NEW k \in CheckRecords,
         NewQuery(c, n, k)
  PROVE  AskInv'
<1> USE DEF NewQuery
<1>0. AskTypes /\ IdsKnown /\ HandKnown /\ MailKnown /\ WaitersKnown /\ FoundKnown
  BY DEF AskInv
<1>1. /\ checks' \in [Checks -> CheckRecords] /\ checks'[c] = k /\ InFlight(c)'
      /\ \A d \in Checks \ {c} : checks'[d] = checks[d] /\ (InFlight(d)' <=> InFlight(d))
  BY <1>0 DEF AskTypes, InFlight
<1>2. n \in Nat /\ n # 0 /\ n < n + 1 /\ n + 1 \in 1..(MaxIds + 1) /\ MaxIds \in Nat
  BY AnswersAssumption DEF Answers!Ids
<1>3. /\ registry' \in Registries /\ registry'.grants = registry.grants
      /\ registry'.hand = registry.hand /\ registry'.next = n + 1 /\ registry.next = n
  BY <1>0, <1>2 DEF AskTypes, Registries
<1>4. k.via \in Answers!Vias /\ k.signer # 0
  BY AnswersAssumption DEF CheckRecords
<1>5. AskTypes'
  BY <1>0, <1>1, <1>3, <1>4 DEF AskTypes
<1>6. /\ \A d \in Checks : checks[d].id < n /\ checks[d].id \in Nat
      /\ \A q \in registry.hand : q.id < n /\ q.id \in Nat
      /\ \A t \in past.said : t[1] < n /\ t[1] \in Nat
  BY <1>0, <1>2, <1>3 DEF IdsKnown, AskTypes, CheckRecords, Registries, Answers!Requests, Answers!Ids, AskPasts
<1>7. IdsKnown'
  <2>1. \A d \in Checks : /\ checks'[d].id < registry'.next
                          /\ InFlight(d)' => checks'[d].id # 0 /\ checks'[d].signer # 0
    BY <1>0, <1>1, <1>2, <1>3, <1>4, <1>6 DEF IdsKnown
  <2>2. \A d, e \in Checks : d # e /\ InFlight(d)' /\ InFlight(e)' => checks'[d].id # checks'[e].id
    BY <1>0, <1>1, <1>2, <1>6 DEF IdsKnown
  <2>3. (\A q \in registry'.hand : q.id < registry'.next) /\ \A t \in past.said : t[1] < registry'.next
    BY <1>2, <1>3, <1>6
  <2> QED BY <2>1, <2>2, <2>3 DEF IdsKnown
<1>8. HandKnown'
  <2>1. ASSUME NEW d \in Checks, InFlight(d)', NEW q \in registry.hand, q.id = checks'[d].id
        PROVE  q.signer = checks'[d].signer /\ q.on = checks'[d].on
    <3>1. d # c
      BY <1>1, <1>2, <1>6, <2>1
    <3> QED BY <1>0, <1>1, <2>1, <3>1 DEF HandKnown
  <2>2. ASSUME NEW d \in Checks, InFlight(d)', NEW t \in past.said, t[1] = checks'[d].id
        PROVE  /\ t[3] = "yes" => <<checks'[d].signer, checks'[d].on>> \in past.some[d]
               /\ t[3] = "no" => <<checks'[d].signer, checks'[d].on>> \notin past.always[d]
    <3>1. d # c
      BY <1>1, <1>2, <1>6, <2>2
    <3> QED BY <1>0, <1>1, <2>2, <3>1 DEF HandKnown
  <2> QED BY <1>0, <1>3, <2>1, <2>2 DEF HandKnown
<1>9. MailKnown'
  <2>1. \A m \in handing : <<m.thread, m.via, m.says>> \in past.said /\ m.thread # 0
    BY <1>0 DEF MailKnown
  <2>2. ASSUME NEW m \in handing, NEW d \in Checks, InFlight(d)', checks'[d].id = m.thread
        PROVE  checks'[d].via = m.via
    <3>1. <<m.thread, m.via, m.says>>[1] < n
      BY <1>6, <2>1
    <3>2. d # c
      BY <1>1, <1>2, <2>2, <3>1
    <3> QED BY <1>0, <1>1, <2>2, <3>2 DEF MailKnown
  <2>3. \A d \in Checks :
          /\ checks'[d].got # "none" => <<checks'[d].id, checks'[d].via, checks'[d].got>> \in past.said
          /\ checks'[d].at \in {"ask", "done"} => checks'[d].got = "none"
    BY <1>0, <1>1 DEF MailKnown
  <2> QED BY <1>0, <2>1, <2>2, <2>3 DEF MailKnown
<1>10. WaitersKnown'
  <2>1. ASSUME NEW w \in pending'
        PROVE  \E d \in Checks : InFlight(d)' /\ checks'[d].id = w.id /\ checks'[d].via = w.via
    <3>1. CASE w \in pending
      <4>1. PICK d \in Checks : InFlight(d) /\ checks[d].id = w.id /\ checks[d].via = w.via
        BY <1>0, <3>1 DEF WaitersKnown
      <4> QED BY <1>1, <4>1
    <3>2. CASE w = [id |-> n, via |-> k.via]
      BY <1>1, <3>2
    <3> QED BY <2>1, <3>1, <3>2
  <2>2. ASSUME NEW d \in Checks, InFlight(d)', checks'[d].got = "none"
        PROVE  \/ \E m \in handing : m.thread = checks'[d].id
               \/ \E w \in pending' : w.id = checks'[d].id /\ w.via = checks'[d].via
    <3>1. CASE d = c
      <4> DEFINE w == [id |-> n, via |-> k.via]
      <4>1. w \in pending' /\ w.id = checks'[d].id /\ w.via = checks'[d].via
        BY <1>1, <3>1
      <4> QED BY <4>1
    <3>2. CASE d # c
      BY <1>0, <1>1, <2>2, <3>2 DEF WaitersKnown
    <3> QED BY <3>1, <3>2
  <2>3. \A j \in jobs : ~j.live
    BY <1>0 DEF WaitersKnown
  <2> QED BY <2>1, <2>2, <2>3 DEF WaitersKnown
<1>11. FoundKnown'
  <2>1. ASSUME NEW d \in Checks
        PROVE  /\ \A s \in Signers : checks'[d].found[s] = checks[d].found[s]
               /\ checks'[d].on = "org" => checks'[d].signer # 0 /\ <<checks'[d].signer, "repo">> \notin past.always[d]
    <3>1. CASE d = c
      BY <1>1, <3>1
    <3>2. CASE d # c
      BY <1>0, <1>1, <3>2 DEF FoundKnown
    <3> QED BY <3>1, <3>2
  <2> QED BY <1>0, <2>1 DEF FoundKnown
<1> QED BY <1>5, <1>7, <1>8, <1>9, <1>10, <1>11, AskPartsNext

(* A check asks of the next signer, on the resource itself and then on the namespace. *)
LEMMA AskStep == ASSUME AskInv, NEW c \in Checks, Answers!Ask(c) PROVE AskInv'
<1>0. AskPlanOK /\ AskPlanOK' /\ ~InFlight(c) /\ UNCHANGED <<handing, mail, jobs, past>>
  BY QuietAsk DEF AskInv, Answers!Ask, InFlight
<1>1. PICK k \in CheckRecords : k = checks[c] /\ k.at = "ask"
  BY FlyingCheck DEF Answers!Ask
<1>2. k.got = "none" /\ (k.on = "org" => k.signer # 0 /\ <<k.signer, "repo">> \notin past.always[c])
  BY <1>1 DEF AskInv, MailKnown, FoundKnown
<1>3. ASSUME Answers!Becomes(c, Answers!Next1(k)), UNCHANGED <<registry, pending>> PROVE AskInv'
  <2>1. Ending(c)
    BY <1>0, <1>3 DEF Ending, AskInv, AskTypes
  <2>2. PICK g \in CheckRecords :
          /\ g = Answers!Next1(k) /\ g.at \in {"ask", "done"} /\ g.id = k.id /\ g.got = k.got
          /\ g.found = k.found /\ g.on = k.on /\ g.signer = k.signer
    <3>1. Answers!Next1(k) = [k EXCEPT !.at = "done"] \/ Answers!Next1(k) = [k EXCEPT !.at = "ask"]
      BY DEF Answers!Next1
    <3>2. /\ [k EXCEPT !.at = "done"] \in CheckRecords /\ [k EXCEPT !.at = "done"].at = "done"
          /\ [k EXCEPT !.at = "done"].id = k.id /\ [k EXCEPT !.at = "done"].got = k.got
          /\ [k EXCEPT !.at = "done"].found = k.found /\ [k EXCEPT !.at = "done"].on = k.on
          /\ [k EXCEPT !.at = "done"].signer = k.signer
      BY DEF CheckRecords
    <3>3. /\ [k EXCEPT !.at = "ask"] \in CheckRecords /\ [k EXCEPT !.at = "ask"].at = "ask"
          /\ [k EXCEPT !.at = "ask"].id = k.id /\ [k EXCEPT !.at = "ask"].got = k.got
          /\ [k EXCEPT !.at = "ask"].found = k.found /\ [k EXCEPT !.at = "ask"].on = k.on
          /\ [k EXCEPT !.at = "ask"].signer = k.signer
      BY DEF CheckRecords
    <3> QED BY <3>1, <3>2, <3>3
  <2>3. checks' = [checks EXCEPT ![c] = g]
    BY <1>3, <2>2 DEF Answers!Becomes
  <2>4. /\ g.at \in {"ask", "done", "gone"} /\ g.id = checks[c].id /\ g.got = "none"
        /\ \A s \in Signers : g.found[s] = checks[c].found[s]
        /\ g.on = "org" => g.signer # 0 /\ <<g.signer, "repo">> \notin past.always[c]
    BY <1>1, <1>2, <2>2
  <2> HIDE <1>1, <1>2, <1>3, <2>2
  <2> QED BY <1>0, <2>1, <2>3, <2>4, EndStep
<1>4. ASSUME NEW s \in (IF k.signer = Answers!None THEN k.todo ELSE {k.signer}),
             NEW on, on = [k EXCEPT !.signer = s, !.todo = @ \ {s}]
      PROVE  /\ on \in CheckRecords /\ on.signer \in Signers /\ on.id = k.id /\ on.got = "none"
             /\ on.via = k.via /\ on.found = k.found /\ on.on = k.on /\ on.failed = k.failed
             /\ on.on = "org" => on.signer # 0 /\ <<on.signer, "repo">> \notin past.always[c]
  <2>1. s \in Signers
    BY <1>4 DEF CheckRecords
  <2>2. /\ on \in CheckRecords /\ on.signer = s /\ on.id = k.id /\ on.got = k.got
        /\ on.via = k.via /\ on.found = k.found /\ on.on = k.on /\ on.failed = k.failed
    BY <1>4, <2>1 DEF CheckRecords
  <2>3. k.on = "org" => s = k.signer
    BY <1>2, <1>4 DEF Answers!None
  <2> QED BY <1>2, <2>1, <2>2, <2>3, AnswersAssumption
<1>5. ASSUME NEW on \in CheckRecords, on.signer \in Signers, on.id = k.id, on.found = k.found,
             Answers!Becomes(c, Answers!GivesUp(on)), UNCHANGED <<registry, pending>>
      PROVE  AskInv'
  <2>1. Ending(c)
    BY <1>0, <1>5 DEF Ending, AskInv, AskTypes
  <2>2. PICK g \in CheckRecords :
          /\ g = Answers!GivesUp(on) /\ g.at \in {"ask", "done"} /\ g.id = on.id
          /\ g.on = "repo" /\ g.got = "none"
          /\ \A s \in Signers : g.found[s] = IF s = on.signer THEN "unavailable" ELSE on.found[s]
    BY <1>5, GivesUpEffect
  <2>3. checks' = [checks EXCEPT ![c] = g]
    BY <1>5, <2>2 DEF Answers!Becomes
  <2>4. /\ g.at \in {"ask", "done", "gone"} /\ g.id = checks[c].id /\ g.got = "none" /\ g.on = "repo"
        /\ \A s \in Signers : g.found[s] = checks[c].found[s] \/ g.found[s] = "unavailable"
    BY <1>1, <1>5, <2>2
  <2> HIDE <1>1, <1>2, <1>5, <2>2
  <2> QED BY <1>0, <2>1, <2>3, <2>4, EndStep
<1>6. ASSUME NEW on \in CheckRecords, on.signer \in Signers, on.id = k.id, on.got = "none",
             on.via = k.via, on.found = k.found,
             on.on = "org" => on.signer # 0 /\ <<on.signer, "repo">> \notin past.always[c],
             registry.next \in Answers!Ids,
             Answers!Becomes(c, [on EXCEPT !.at = "send", !.id = registry.next]),
             registry' = [registry EXCEPT !.next = @ + 1],
             pending' = pending \cup {[id |-> registry.next, via |-> k.via]}
      PROVE  AskInv'
  <2>1. PICK n \in Answers!Ids : n = registry.next
    BY <1>6
  <2>2. PICK g \in CheckRecords :
          /\ g = [on EXCEPT !.at = "send", !.id = n] /\ g.at = "send" /\ g.id = n /\ g.got = "none"
          /\ g.signer = on.signer /\ g.via = on.via /\ g.found = on.found /\ g.on = on.on
    <3> DEFINE g == [on EXCEPT !.at = "send", !.id = n]
    <3>1. /\ g \in CheckRecords /\ g.at = "send" /\ g.id = n /\ g.got = "none"
          /\ g.signer = on.signer /\ g.via = on.via /\ g.found = on.found /\ g.on = on.on
      <4>1. n \in 0..MaxIds /\ on.got = "none"
        BY <1>6, AnswersAssumption DEF Answers!Ids
      <4> QED BY <4>1 DEF CheckRecords
    <3> QED BY <3>1
  <2>3. checks' = [checks EXCEPT ![c] = g]
    BY <1>6, <2>1, <2>2 DEF Answers!Becomes
  <2>4. /\ g.at = "send" /\ g.id = n /\ g.signer \in Signers /\ g.got = "none" /\ g.via = checks[c].via
        /\ \A s \in Signers : g.found[s] = checks[c].found[s]
        /\ g.on = "org" => <<g.signer, "repo">> \notin past.always[c]
        /\ pending' = pending \cup {[id |-> n, via |-> g.via]}
    BY <1>1, <1>6, <2>1, <2>2
  <2>5. registry' = [registry EXCEPT !.next = @ + 1]
    BY <1>6
  <2> HIDE <1>1, <1>2, <1>6, <2>2
  <2>6. g.on = "org" => g.signer # 0
    BY <2>4, AnswersAssumption
  <2>7. NewQuery(c, n, g)
    BY <1>0, <2>1, <2>3, <2>4, <2>5, <2>6 DEF NewQuery
  <2> QED BY <1>0, <2>7, NewQueryStep
<1>7. CASE k.signer = Answers!None /\ k.todo = {}
  BY <1>1, <1>3, <1>7 DEF Answers!Ask
<1>8. CASE ~(k.signer = Answers!None /\ k.todo = {})
  <2>1. PICK s \in (IF k.signer = Answers!None THEN k.todo ELSE {k.signer}) :
       LET on == [k EXCEPT !.signer = s, !.todo = @ \ {s}] IN
       IF Answers!Refuses(k) THEN Answers!Becomes(c, Answers!GivesUp(on)) /\ UNCHANGED <<registry, pending>>
       ELSE /\ registry.next \in Answers!Ids
            /\ Answers!Becomes(c, [on EXCEPT !.at = "send", !.id = registry.next])
            /\ registry' = [registry EXCEPT !.next = @ + 1]
            /\ pending' = pending \cup {[id |-> registry.next, via |-> k.via]}
    BY <1>1, <1>8 DEF Answers!Ask
  <2>2. PICK on : on = [k EXCEPT !.signer = s, !.todo = @ \ {s}]
    OBVIOUS
  <2>3. /\ on \in CheckRecords /\ on.signer \in Signers /\ on.id = k.id /\ on.got = "none"
        /\ on.via = k.via /\ on.found = k.found /\ on.on = k.on /\ on.failed = k.failed
        /\ on.on = "org" => on.signer # 0 /\ <<on.signer, "repo">> \notin past.always[c]
    BY <1>4, <2>2
  <2>4. \/ Answers!Becomes(c, Answers!GivesUp(on)) /\ UNCHANGED <<registry, pending>>
        \/ /\ registry.next \in Answers!Ids
           /\ Answers!Becomes(c, [on EXCEPT !.at = "send", !.id = registry.next])
           /\ registry' = [registry EXCEPT !.next = @ + 1]
           /\ pending' = pending \cup {[id |-> registry.next, via |-> k.via]}
    BY <2>1, <2>2
  <2> HIDE <1>1, <1>2, <1>3, <1>4, <2>1, <2>2
  <2> QED BY <1>5, <1>6, <2>3, <2>4
<1> QED BY <1>7, <1>8

(* The invariant of the answers, and what it gives.                        *)
LEMMA AskInvStep == AskInv /\ Answers!Next => AskInv'
BY ChangeStep, AskAnswerStep, MailSteps, RouteStep, HandStep, AskStep, SendStep, HearStep,
   AskTimeOutStep, SendFailsStep, AbortStep DEF Answers!Next, Answers!Work

LEMMA AnswersAreSafe ==
  AskInv => /\ Answers!TypeOK /\ Answers!FailsClosed /\ Answers!OnlyTheRegistryDenies
            /\ Answers!AnswersAreItsOwn /\ Answers!OnlyRepliesAreTaken
            /\ Answers!PromptIsTaken /\ Answers!NoneIsLeft
<1> SUFFICES ASSUME AskInv
             PROVE  /\ Answers!TypeOK /\ Answers!FailsClosed /\ Answers!OnlyTheRegistryDenies
                    /\ Answers!AnswersAreItsOwn /\ Answers!OnlyRepliesAreTaken
                    /\ Answers!PromptIsTaken /\ Answers!NoneIsLeft
  OBVIOUS
<1>1. Answers!TypeOK
  <2>1. AskTypes /\ plan \in AskPlans
    BY DEF AskInv, AskPlanOK
  <2>2. \A c \in Checks : checks[c] \in CheckRecords
    BY <2>1 DEF AskTypes
  <2> QED BY <2>1, <2>2 DEF Answers!TypeOK, AskTypes, AskPlans, CheckRecords, Registries, AskPasts
<1>2. Answers!FailsClosed /\ Answers!OnlyTheRegistryDenies
  BY DEF AskInv, FoundKnown, Answers!FailsClosed, Answers!OnlyTheRegistryDenies
<1>3. Answers!AnswersAreItsOwn /\ Answers!OnlyRepliesAreTaken
  BY DEF AskInv, MailKnown, Answers!AnswersAreItsOwn, Answers!OnlyRepliesAreTaken, Answers!None
<1>4. Answers!PromptIsTaken /\ Answers!NoneIsLeft
  BY DEF AskInv, WaitersKnown, InFlight, Answers!PromptIsTaken, Answers!NoneIsLeft
<1> QED BY <1>1, <1>2, <1>3, <1>4

(* A check that failed keeps its last id: it asks no more.                  *)
LEMMA NoMoreStep == AskInv /\ Answers!Next => Answers!AsksNoMore
<1> SUFFICES ASSUME AskInv, Answers!Next, NEW c \in Checks, checks[c].failed
             PROVE  checks'[c].id = checks[c].id
  BY DEF Answers!AsksNoMore
<1>0. AskTypes
  BY DEF AskInv
<1>1. ASSUME NEW d \in Checks, NEW k, Answers!Becomes(d, k), k.id = checks[d].id
      PROVE  checks'[c].id = checks[c].id
  BY <1>0, <1>1 DEF Answers!Becomes, AskTypes
<1>2. ASSUME NEW k \in CheckRecords, k.signer \in Signers PROVE Answers!GivesUp(k).id = k.id
  BY <1>2, GivesUpEffect
<1>3. ASSUME NEW d \in Checks, Answers!Ask(d) PROVE checks'[c].id = checks[c].id
  <2>1. PICK k \in CheckRecords : k = checks[d]
    BY FlyingCheck
  <2>2. CASE d # c
    BY <1>0, <1>3, <2>2 DEF Answers!Ask, Answers!Becomes, AskTypes
  <2>3. CASE d = c /\ k.signer = Answers!None /\ k.todo = {}
    <3>1. Answers!Becomes(d, Answers!Next1(k))
      BY <1>3, <2>1, <2>3 DEF Answers!Ask
    <3>2. Answers!Next1(k).id = k.id
      BY DEF Answers!Next1, CheckRecords
    <3> QED BY <1>1, <2>1, <3>1, <3>2
  <2>4. CASE d = c /\ ~(k.signer = Answers!None /\ k.todo = {})
    <3>1. PICK s \in (IF k.signer = Answers!None THEN k.todo ELSE {k.signer}) :
            Answers!Becomes(d, Answers!GivesUp([k EXCEPT !.signer = s, !.todo = @ \ {s}]))
      BY <1>3, <2>1, <2>4 DEF Answers!Ask, Answers!Refuses
    <3>2. PICK on \in CheckRecords :
            on = [k EXCEPT !.signer = s, !.todo = @ \ {s}] /\ on.signer \in Signers /\ on.id = k.id
      <4>1. s \in Signers
        BY <3>1 DEF CheckRecords, Answers!None
      <4>2. /\ [k EXCEPT !.signer = s, !.todo = @ \ {s}] \in CheckRecords
            /\ [k EXCEPT !.signer = s, !.todo = @ \ {s}].signer = s
            /\ [k EXCEPT !.signer = s, !.todo = @ \ {s}].id = k.id
        BY <4>1 DEF CheckRecords
      <4> QED BY <4>1, <4>2
    <3> QED BY <1>1, <1>2, <2>1, <3>1, <3>2
  <2> QED BY <2>2, <2>3, <2>4
<1>4. ASSUME NEW d \in Checks, Answers!Hear(d) PROVE checks'[c].id = checks[c].id
  <2>1. PICK k \in CheckRecords : k = checks[d] /\ k.signer \in Signers
    BY <1>4, FlyingCheck DEF Answers!Hear, InFlight
  <2>2. ASSUME NEW e \in Answers!Decisions PROVE Answers!Decided(k, e).id = k.id
    BY <2>1, <2>2, DecidedEffect
  <2>3. [k EXCEPT !.on = "org", !.at = "ask", !.got = "none"].id = k.id
    BY DEF CheckRecords
  <2>4. Answers!Answered(k).id = k.id
    BY <2>2, <2>3 DEF Answers!Answered, Answers!Decisions
  <2> QED BY <1>1, <1>4, <2>1, <2>4 DEF Answers!Hear
<1>5. ASSUME NEW d \in Checks, Answers!SendFails(d) \/ Answers!TimeOut(d) PROVE checks'[c].id = checks[c].id
  <2>1. PICK k \in CheckRecords : k = checks[d] /\ k.signer \in Signers
    BY <1>5, FlyingCheck DEF Answers!SendFails, Answers!TimeOut, InFlight
  <2> QED BY <1>1, <1>2, <1>5, <2>1 DEF Answers!SendFails, Answers!TimeOut
<1>6. ASSUME NEW d \in Checks, Answers!Send(d) \/ Answers!Abort(d) PROVE checks'[c].id = checks[c].id
  <2>1. PICK k \in CheckRecords : k = checks[d]
    BY FlyingCheck
  <2>2. [k EXCEPT !.at = "wait"].id = k.id /\ [k EXCEPT !.at = "gone"].id = k.id
    BY DEF CheckRecords
  <2> QED BY <1>1, <1>6, <2>1, <2>2 DEF Answers!Send, Answers!Abort
<1>7. ASSUME NEW m \in handing, Answers!Hand(m) PROVE checks'[c].id = checks[c].id
  <2>1. PICK k \in CheckRecords : k = checks[c]
    BY FlyingCheck
  <2>2. checks'[c] = k \/ checks'[c] = [k EXCEPT !.got = m.says]
    BY <1>7, <2>1 DEF Answers!Hand
  <2>3. [k EXCEPT !.got = m.says].id = k.id
    BY DEF CheckRecords
  <2> QED BY <2>1, <2>2, <2>3
<1> QED BY <1>3, <1>4, <1>5, <1>6, <1>7 DEF Answers!Next, Answers!Work, Answers!Change,
       Answers!Answer, Answers!Stray, Answers!Job, Answers!Lose, Answers!Route

-----------------------------------------------------------------------------
(* did-git-sign.                                                            *)
Homes == [default : Signs!KeyOrNone, creds : SUBSET Identities, signers : SUBSET Identities,
          hooks : BOOLEAN, profile : [Files -> Signs!KeyOrNone], include : [Files -> Signs!KeyOrNone]]
LineSets == [repo : [Repos -> Signs!FileOrNone], dir : Signs!FileOrNone]
ShellRecords ==
  [does : {"none", "init", "uninstall"},
   at : {"done", "config", "unset", "creds", "read", "write", "profile", "include",
         "dir", "repo", "file"},
   key : Signs!KeyOrNone, name : Signs!FileOrNone, makes : BOOLEAN, read : SUBSET Identities,
   repo : Repos \cup {Signs!None}, todo : SUBSET Files, beside : SUBSET Identities,
   failed : BOOLEAN]
Makings ==
  [at : {"none", "hook", "sign", "auth", "signed", "mismatch", "refused"},
   repo : Repos \cup {Signs!None}, env : Signs!KeyOrNone,
   claim : Signs!ClaimedDids \cup {Signs!None},
   key : Signs!KeyOrNone, own : BOOLEAN, seen : SUBSET Signs!KeyOrNone]
SignPasts == [gone : SUBSET Identities, overlap : BOOLEAN, changed : BOOLEAN]
SignTypes ==
  /\ home \in Homes /\ lines \in LineSets /\ shell \in [Shells -> ShellRecords]
  /\ commit \in Makings /\ past \in SignPasts
SignPlanOK == plan \in [Signs!Commands -> Nat] /\ count \in [Signs!Commands -> Nat]

Making == commit.at \in {"hook", "sign", "auth"}
Now(r) == Signs!Effective(home, lines, r)

(* A commit being made has seen what is selected; the claim that the hook   *)
(* wrote is of it, as long as nothing changed.                              *)
CommitKnown ==
  /\ Making => commit.repo \in Repos /\ Now(commit.repo) \in commit.seen /\ home.default \in commit.seen
  /\ commit.at \in {"auth", "signed"} =>
       /\ commit.claim = DidOf[commit.key]
       /\ IF commit.env # Signs!None THEN commit.key = commit.env ELSE commit.key \in commit.seen
  /\ commit.at = "hook" /\ ~commit.own => commit.claim = Signs!None
  /\ commit.at = "sign" /\ ~commit.own /\ ~past.changed /\ commit.claim # Signs!None =>
       /\ Now(commit.repo) # Signs!None
       /\ commit.claim = DidOf[IF commit.env # Signs!None THEN commit.env ELSE Now(commit.repo)]
  /\ commit.at = "mismatch" => commit.own \/ past.changed

(* What a removal of which no step failed, and beside which nobody set the  *)
(* identity up again, has undone.                                           *)
Undone(u) ==
  /\ u.at \notin {"done", "config", "unset"} => home.default # u.key
  /\ u.at \notin {"done", "config", "unset", "creds"} => u.key \notin home.creds
  /\ \A n \in Files \ u.todo :
       home.include[n] = u.key => u.at \in {"dir", "repo", "file"} /\ u.name = n
RemovalsKnown ==
  /\ \A s \in Shells : shell[s].does = "uninstall" /\ Signs!Whole(shell[s]) => Undone(shell[s])
  /\ \A k \in past.gone :
       /\ \A t \in Shells : shell[t].does = "init" => shell[t].key # k
       /\ k \notin home.creds /\ home.default # k /\ \A n \in Files : home.include[n] # k

(* A removal knows who is set up beside it: what it looked at is still its  *)
(* own, or nobody's, or one of theirs.                                      *)
Taken(u) == {u.key, Signs!None} \cup u.beside
InHand(u) ==
  /\ u.at = "unset" => home.default \in Taken(u)
  /\ u.at \in {"dir", "repo", "file"} => u.name \in Files /\ home.include[u.name] \in Taken(u)
BesideKnown ==
  /\ \A s, t \in Shells : shell[s].does = "uninstall" /\ shell[t].does = "init" =>
       shell[t].key \in shell[s].beside
  /\ \A s \in Shells : shell[s].does = "uninstall" => InHand(shell[s])

(* While commands do not overlap one alone runs, and who has credentials is *)
(* an allowed signer, or is being made one.                                 *)
ShellsKnown ==
  /\ \A s \in Shells : shell[s].does = "none" => shell[s] = Signs!Idle
  /\ \A s \in Shells : shell[s].does # "none" => shell[s].key \in Identities /\ shell[s].at # "done"
  /\ \A s \in Shells : shell[s].does = "uninstall" => shell[s].at # "profile"
SignersKnown ==
  ~past.overlap =>
    /\ \A s, t \in Shells : s # t => shell[s].does = "none" \/ shell[t].does = "none"
    /\ (\A s \in Shells : shell[s].does = "none") => home.creds \subseteq home.signers
    /\ \A s \in Shells : shell[s].does # "none" =>
         /\ home.creds \subseteq home.signers \cup
              (IF shell[s].does = "init" /\ shell[s].at \in {"read", "write"}
               THEN {shell[s].key} ELSE {})
         /\ shell[s].at = "write" => shell[s].read = home.signers
         /\ shell[s].does = "uninstall" /\ shell[s].at \in {"read", "write"} => shell[s].key \notin home.creds

SignInv ==
  /\ SignTypes /\ SignPlanOK
  /\ CommitKnown /\ RemovalsKnown /\ BesideKnown /\ ShellsKnown /\ SignersKnown

(* It begins with nothing set up.                                          *)
LEMMA SignInit == Signs!Init => SignInv
<1> SUFFICES ASSUME Signs!Init PROVE SignInv
  OBVIOUS
<1>1. SignPlanOK
  BY SigningAssumption DEF Signs!Init, SignPlanOK
<1>2. home \in Homes /\ home.creds = {} /\ home.signers = {}
  BY DEF Signs!Init, Homes, Signs!KeyOrNone
<1>3. lines \in LineSets
  BY DEF Signs!Init, LineSets, Signs!FileOrNone
<1>4. Signs!Idle \in ShellRecords /\ Signs!Idle.does = "none"
  BY DEF Signs!Idle, ShellRecords, Signs!KeyOrNone, Signs!FileOrNone
<1>5. shell \in [Shells -> ShellRecords] /\ \A s \in Shells : shell[s] = Signs!Idle
  BY <1>4 DEF Signs!Init
<1>6. commit \in Makings /\ commit.at = "none"
  BY DEF Signs!Init, Signs!NoCommit, Makings, Signs!KeyOrNone
<1>7. past \in SignPasts /\ past.gone = {}
  BY DEF Signs!Init, SignPasts
<1>8. SignTypes
  BY <1>2, <1>3, <1>5, <1>6, <1>7 DEF SignTypes
<1>9. CommitKnown
  BY <1>6 DEF CommitKnown, Making
<1>10. RemovalsKnown /\ BesideKnown /\ ShellsKnown /\ SignersKnown
  BY <1>2, <1>4, <1>5, <1>7 DEF RemovalsKnown, BesideKnown, ShellsKnown, SignersKnown
<1> QED BY <1>1, <1>8, <1>9, <1>10 DEF SignInv

LEMMA SignPartsNext ==
  SignTypes' /\ SignPlanOK' /\ CommitKnown' /\ RemovalsKnown' /\ BesideKnown'
    /\ ShellsKnown' /\ SignersKnown' => SignInv'
BY DEF SignInv

(* What a plan allows is counted.                                          *)
LEMMA RunsCounts ==
  ASSUME SignPlanOK, NEW c \in Signs!Commands, Signs!Runs(c) PROVE SignPlanOK'
BY DEF Signs!Runs, SignPlanOK

LEMMA QuietSign == SignPlanOK /\ Signs!Quiet => SignPlanOK'
BY DEF SignPlanOK, Signs!Quiet

(* Whom a repository signs as, before and after a step.                    *)
LEMMA NowIsAKey ==
  ASSUME home \in Homes, lines \in LineSets, NEW r \in Repos PROVE Now(r) \in Signs!KeyOrNone
BY SigningAssumption DEF Now, Signs!Effective, Homes, LineSets, Signs!KeyOrNone, Signs!FileOrNone, Signs!None

LEMMA NextNowIsAKey ==
  ASSUME home' \in Homes, lines' \in LineSets, NEW r \in Repos PROVE Now(r)' \in Signs!KeyOrNone
BY SigningAssumption DEF Now, Signs!Effective, Homes, LineSets, Signs!KeyOrNone, Signs!FileOrNone, Signs!None

(* A setting changes, and a commit being made sees it.                      *)
LEMMA SettleStep ==
  ASSUME SignTypes, CommitKnown, home' \in Homes, lines' \in LineSets, Signs!Settle(home', lines')
  PROVE  /\ commit' \in Makings /\ CommitKnown' /\ past' \in SignPasts
         /\ past'.gone = past.gone /\ past'.overlap = past.overlap
<1>1. CASE ~Making
  <2>1. commit' = commit /\ past' = past
    BY <1>1 DEF Signs!Settle, Making
  <2> QED BY <1>1, <2>1 DEF SignTypes, CommitKnown, Making
<1>2. CASE Making
  <2>1. PICK r \in Repos : r = commit.repo
    BY <1>2 DEF CommitKnown
  <2>2. /\ commit' = [commit EXCEPT !.seen = @ \cup {Now(r)', home'.default}]
        /\ past' = [past EXCEPT !.changed = TRUE]
    BY <1>2, <2>1 DEF Signs!Settle, Making, Now
  <2>3. Now(r)' \in Signs!KeyOrNone /\ home'.default \in Signs!KeyOrNone
    BY NextNowIsAKey DEF Homes
  <2>4. /\ past' \in SignPasts /\ past'.gone = past.gone /\ past'.overlap = past.overlap /\ past'.changed
    BY <2>2 DEF SignTypes, SignPasts
  <2>5. /\ commit' \in Makings /\ commit'.at = commit.at /\ commit'.repo = r
        /\ commit'.env = commit.env /\ commit'.claim = commit.claim /\ commit'.key = commit.key
        /\ commit'.own = commit.own /\ commit'.seen = commit.seen \cup {Now(r)', home'.default}
    BY <2>1, <2>2, <2>3 DEF SignTypes, Makings
  <2>6. CommitKnown'
    BY <1>2, <2>4, <2>5 DEF CommitKnown, Making
  <2> QED BY <2>4, <2>5, <2>6
<1> QED BY <1>1, <1>2

(* What a step of one shell's command does to the shells.                   *)
Steps(s) ==
  /\ shell' \in [Shells -> ShellRecords]
  /\ \A t \in Shells \ {s} : shell'[t] = shell[t]
  /\ \/ shell'[s] = Signs!Idle
     \/ /\ shell'[s].does = shell[s].does /\ shell'[s].key = shell[s].key
        /\ shell'[s].beside = shell[s].beside
        /\ Signs!Whole(shell'[s]) => Signs!Whole(shell[s])
        /\ shell'[s].at # "done"
        /\ shell[s].does = "uninstall" => shell'[s].at # "profile"

(* A shell goes on to the next step of its command, or ends it.            *)
LEMMA IdleIsARecord == Signs!Idle \in ShellRecords /\ Signs!Idle.does = "none"
BY DEF Signs!Idle, ShellRecords, Signs!KeyOrNone, Signs!FileOrNone

LEMMA SignGoesEffect ==
  ASSUME SignTypes, NEW s \in Shells,
         NEW step \in {"config", "unset", "creds", "read", "write", "profile", "include",
                       "dir", "repo", "file"},
         shell[s].does = "uninstall" => step # "profile", Signs!Goes(s, step)
  PROVE  /\ Steps(s) /\ shell'[s].at = step /\ shell'[s].read = shell[s].read
         /\ shell'[s].does = shell[s].does /\ shell'[s].key = shell[s].key
         /\ shell'[s].name = shell[s].name /\ shell'[s].todo = shell[s].todo
         /\ shell'[s].beside = shell[s].beside
         /\ Signs!Whole(shell'[s]) => Signs!Whole(shell[s])
<1>1. PICK k \in ShellRecords : k = shell[s]
  BY DEF SignTypes
<1>2. shell' = [shell EXCEPT ![s] = [k EXCEPT !.at = step]]
  BY <1>1 DEF Signs!Goes
<1>3. PICK new \in ShellRecords : new = [k EXCEPT !.at = step]
  BY DEF ShellRecords
<1>4. /\ new.at = step /\ new.read = k.read /\ new.does = k.does /\ new.key = k.key
      /\ new.name = k.name /\ new.todo = k.todo /\ new.beside = k.beside /\ new.failed = k.failed
  BY <1>3 DEF ShellRecords
<1>5. Signs!Whole(new) => Signs!Whole(k)
  BY <1>4 DEF Signs!Whole
<1>6. shell'[s] = new /\ shell' \in [Shells -> ShellRecords] /\ \A t \in Shells \ {s} : shell'[t] = shell[t]
  BY <1>2, <1>3 DEF SignTypes
<1> QED BY <1>1, <1>4, <1>5, <1>6 DEF Steps

LEMMA EndsTheCommand ==
  ASSUME SignTypes, NEW s \in Shells, shell' = [shell EXCEPT ![s] = Signs!Idle]
  PROVE  Steps(s) /\ shell'[s] = Signs!Idle
BY IdleIsARecord DEF SignTypes, Steps

(* Only who runs a command holds a key.                                    *)
LEMMA ShellsKnownNext ==
  ASSUME ShellsKnown, NEW s \in Shells, Steps(s), shell[s].does # "none" PROVE ShellsKnown'
BY IdleIsARecord DEF ShellsKnown, Steps

(* A step of `init' gives its own key to places only.                       *)
LEMMA RemovalsAfterInit ==
  ASSUME RemovalsKnown, BesideKnown, NEW s \in Shells, Steps(s), shell[s].does = "init",
         past'.gone = past.gone,
         home'.default = home.default \/ home'.default = shell[s].key,
         home'.creds \subseteq home.creds \cup {shell[s].key},
         \A n \in Files : home'.include[n] = home.include[n] \/ home'.include[n] = shell[s].key
  PROVE  RemovalsKnown'
<1>1. \A t \in Shells : shell'[t].does = "init" => shell[t].does = "init" /\ shell'[t].key = shell[t].key
  BY IdleIsARecord DEF Steps
<1>2. ASSUME NEW u \in Shells, shell'[u].does = "uninstall", Signs!Whole(shell'[u])
      PROVE  Undone(shell[u])'
  <2>1. u # s /\ shell'[u] = shell[u]
    BY <1>2, IdleIsARecord DEF Steps
  <2>2. Undone(shell[u]) /\ shell[s].key # shell[u].key
    BY <1>2, <2>1 DEF RemovalsKnown, BesideKnown, Signs!Whole
  <2> QED BY <2>1, <2>2 DEF Undone
<1>3. ASSUME NEW k \in past.gone
      PROVE  /\ \A t \in Shells : shell'[t].does = "init" => shell'[t].key # k
             /\ k \notin home'.creds /\ home'.default # k /\ \A n \in Files : home'.include[n] # k
  BY <1>1 DEF RemovalsKnown
<1> QED BY <1>2, <1>3 DEF RemovalsKnown

(* A step of `uninstall' takes keys from places only.                       *)
LEMMA RemovalsAfterUninstall ==
  ASSUME RemovalsKnown, NEW s \in Shells, Steps(s), shell[s].does = "uninstall",
         \A k \in past'.gone \ past.gone :
            /\ \A t \in Shells : shell[t].does = "init" => shell[t].key # k
            /\ k \notin home'.creds /\ home'.default # k /\ \A n \in Files : home'.include[n] # k,
         home'.default = home.default \/ home'.default = Signs!None,
         home'.creds \subseteq home.creds,
         Signs!None \notin Identities, past'.gone \subseteq Identities,
         \A u \in Shells : shell[u].does = "uninstall" => shell[u].key \in Identities,
         \A n \in Files : home'.include[n] = home.include[n] \/ home'.include[n] = Signs!None,
         shell'[s] = Signs!Idle \/ Undone(shell[s])' \/ ~Signs!Whole(shell'[s])
  PROVE  RemovalsKnown'
<1>1. \A t \in Shells : shell'[t].does = "init" => shell'[t] = shell[t]
  BY IdleIsARecord DEF Steps
<1>2. ASSUME NEW u \in Shells, shell'[u].does = "uninstall", Signs!Whole(shell'[u])
      PROVE  Undone(shell[u])'
  <2>1. CASE u = s
    BY <1>2, <2>1, IdleIsARecord
  <2>2. CASE u # s
    <3>1. shell'[u] = shell[u]
      BY <2>2 DEF Steps
    <3>2. Undone(shell[u]) /\ shell[u].key \in Identities
      BY <1>2, <3>1 DEF RemovalsKnown
    <3> QED BY <3>1, <3>2 DEF Undone
  <2> QED BY <2>1, <2>2
<1>3. ASSUME NEW k \in past'.gone
      PROVE  /\ \A t \in Shells : shell'[t].does = "init" => shell'[t].key # k
             /\ k \notin home'.creds /\ home'.default # k /\ \A n \in Files : home'.include[n] # k
  <2>1. CASE k \in past.gone
    BY <1>1, <1>3, <2>1 DEF RemovalsKnown
  <2>2. CASE k \notin past.gone
    BY <1>1, <1>3, <2>2
  <2> QED BY <2>1, <2>2
<1> QED BY <1>2, <1>3 DEF RemovalsKnown

(* What another removal looked at changes by who is set up beside it only.  *)
LEMMA BesideAfterStep ==
  ASSUME BesideKnown, ShellsKnown, NEW s \in Shells, Steps(s), shell[s].does # "none",
         \/ home'.default \in {home.default, Signs!None}
         \/ shell[s].does = "init" /\ home'.default = shell[s].key,
         \A n \in Files :
           \/ home'.include[n] \in {home.include[n], Signs!None}
           \/ shell[s].does = "init" /\ home'.include[n] = shell[s].key,
         shell'[s].does = "uninstall" => InHand(shell[s])'
  PROVE  BesideKnown'
<1>1. \A t \in Shells : shell'[t].does = "init" => shell[t].does = "init" /\ shell'[t].key = shell[t].key
  BY IdleIsARecord DEF Steps
<1>2. \A t \in Shells : shell'[t].does = "uninstall" =>
        shell[t].does = "uninstall" /\ shell'[t].beside = shell[t].beside
  BY IdleIsARecord DEF Steps
<1>3. ASSUME NEW u \in Shells, shell'[u].does = "uninstall" PROVE InHand(shell[u])'
  <2>1. CASE u = s
    BY <1>3, <2>1
  <2>2. CASE u # s
    <3>1. shell'[u] = shell[u]
      BY <2>2 DEF Steps
    <3>2. InHand(shell[u]) /\ (shell[s].does = "init" => shell[s].key \in shell[u].beside)
      BY <1>3, <3>1 DEF BesideKnown
    <3> QED BY <3>1, <3>2 DEF InHand, Taken
  <2> QED BY <2>1, <2>2
<1> QED BY <1>1, <1>2, <1>3 DEF BesideKnown

(* Who is allowed after a step of the one command that runs.                *)
LEMMA SignersAfterStep ==
  ASSUME SignersKnown, ShellsKnown, NEW s \in Shells, shell[s].does # "none", Steps(s),
         past'.overlap = past.overlap \/ past'.overlap,
         ~past'.overlap /\ shell'[s] = Signs!Idle => home'.creds \subseteq home'.signers,
         ~past'.overlap /\ shell'[s].does # "none" =>
           /\ home'.creds \subseteq home'.signers \cup
                (IF shell[s].does = "init" /\ shell'[s].at \in {"read", "write"}
                 THEN {shell[s].key} ELSE {})
           /\ shell'[s].at = "write" => shell'[s].read = home'.signers
           /\ shell[s].does = "uninstall" /\ shell'[s].at \in {"read", "write"}
                => shell[s].key \notin home'.creds
  PROVE  SignersKnown'
<1> SUFFICES ASSUME ~past'.overlap
             PROVE
    /\ \A r, t \in Shells : r # t => shell'[r].does = "none" \/ shell'[t].does = "none"
    /\ (\A r \in Shells : shell'[r].does = "none") => home'.creds \subseteq home'.signers
    /\ \A r \in Shells : shell'[r].does # "none" =>
         /\ home'.creds \subseteq home'.signers \cup
              (IF shell'[r].does = "init" /\ shell'[r].at \in {"read", "write"}
               THEN {shell'[r].key} ELSE {})
         /\ shell'[r].at = "write" => shell'[r].read = home'.signers
         /\ shell'[r].does = "uninstall" /\ shell'[r].at \in {"read", "write"} => shell'[r].key \notin home'.creds
  BY DEF SignersKnown
<1>1. ~past.overlap
  OBVIOUS
<1>2. \A t \in Shells \ {s} : shell[t].does = "none" /\ shell'[t].does = "none"
  BY <1>1 DEF SignersKnown, Steps
<1>3. shell'[s].does = "none" => shell'[s] = Signs!Idle
  BY DEF Steps
<1>4. \A r, t \in Shells : r # t => shell'[r].does = "none" \/ shell'[t].does = "none"
  BY <1>2
<1>5. (\A r \in Shells : shell'[r].does = "none") => home'.creds \subseteq home'.signers
  BY <1>1, <1>3
<1>6. ASSUME NEW r \in Shells, shell'[r].does # "none"
      PROVE  /\ home'.creds \subseteq home'.signers \cup
                  (IF shell'[r].does = "init" /\ shell'[r].at \in {"read", "write"}
                   THEN {shell'[r].key} ELSE {})
             /\ shell'[r].at = "write" => shell'[r].read = home'.signers
             /\ shell'[r].does = "uninstall" /\ shell'[r].at \in {"read", "write"} => shell'[r].key \notin home'.creds
  <2>1. r = s /\ shell'[r].does = shell[s].does /\ shell'[r].key = shell[s].key
    BY <1>2, <1>6, IdleIsARecord DEF Steps
  <2> QED BY <1>1, <1>6, <2>1
<1> QED BY <1>4, <1>5, <1>6

LEMMA NoneIsNoKey == Signs!None \notin Identities
BY SigningAssumption DEF Signs!None

(* Hence a step of `init' and one of `uninstall' keep it all.               *)
LEMMA StepOfInit ==
  ASSUME SignInv, NEW s \in Shells, shell[s].does = "init", Signs!Quiet,
         home' \in Homes, lines' = lines, Signs!Settle(home', lines), Steps(s),
         home'.default = home.default \/ home'.default = shell[s].key,
         home'.creds \subseteq home.creds \cup {shell[s].key},
         \A n \in Files : home'.include[n] = home.include[n] \/ home'.include[n] = shell[s].key,
         ~past.overlap =>
           /\ home'.creds \subseteq home'.signers \cup
                (IF shell'[s].at \in {"read", "write"} THEN {shell[s].key} ELSE {})
           /\ shell'[s].at = "write" => shell'[s].read = home'.signers
  PROVE  SignInv'
<1>1. lines' \in LineSets /\ Signs!Settle(home', lines')
  BY DEF SignInv, SignTypes
<1>2. /\ commit' \in Makings /\ CommitKnown' /\ past' \in SignPasts
      /\ past'.gone = past.gone /\ past'.overlap = past.overlap
  BY <1>1, SettleStep DEF SignInv
<1>3. SignTypes' /\ SignPlanOK'
  BY <1>1, <1>2, QuietSign DEF SignInv, SignTypes, Steps
<1>4. ShellsKnown'
  BY ShellsKnownNext DEF SignInv
<1>5. RemovalsKnown' /\ BesideKnown'
  <2>1. shell'[s].does # "uninstall"
    BY IdleIsARecord DEF Steps
  <2> QED BY <1>2, <2>1, RemovalsAfterInit, BesideAfterStep DEF SignInv
<1>6. shell'[s] = Signs!Idle => shell'[s].at \notin {"read", "write"}
  BY DEF Signs!Idle
<1>7. SignersKnown'
  BY <1>2, <1>6, SignersAfterStep DEF SignInv
<1> QED BY <1>2, <1>3, <1>4, <1>5, <1>7, SignPartsNext

(* The steps of `init'.                                                    *)
LEMMA SaveConfigStep ==
  ASSUME SignInv, NEW s \in Shells, Signs!SaveConfig(s) PROVE SignInv'
<1>1. PICK k \in Identities : k = shell[s].key
  BY DEF SignInv, ShellsKnown, Signs!SaveConfig, Signs!In
<1>2. /\ shell[s].does = "init" /\ shell[s].at = "config" /\ Signs!Quiet /\ lines' = lines
      /\ home' = [home EXCEPT !.default = k] /\ Signs!Goes(s, "creds")
  BY <1>1 DEF Signs!SaveConfig, Signs!In, Signs!Home
<1>3. Signs!Settle(home', lines)
  BY <1>1, <1>2 DEF Signs!SaveConfig, Signs!Home
<1>4. /\ home' \in Homes /\ home'.default = k /\ home'.creds = home.creds
      /\ home'.signers = home.signers /\ home'.include = home.include
  BY <1>2 DEF SignInv, SignTypes, Homes, Signs!KeyOrNone
<1>5. Steps(s) /\ shell'[s].at = "creds"
  BY <1>2, SignGoesEffect DEF SignInv
<1>6. ~past.overlap => home.creds \subseteq home.signers
  BY <1>2 DEF SignInv, SignersKnown
<1> QED BY <1>1, <1>2, <1>3, <1>4, <1>5, <1>6, StepOfInit

LEMMA StoreCredentialsStep ==
  ASSUME SignInv, NEW s \in Shells, Signs!StoreCredentials(s) PROVE SignInv'
<1>1. PICK k \in Identities : k = shell[s].key
  BY DEF SignInv, ShellsKnown, Signs!StoreCredentials, Signs!In
<1>2. /\ shell[s].does = "init" /\ shell[s].at = "creds" /\ Signs!Quiet /\ lines' = lines
      /\ home' = [home EXCEPT !.creds = @ \cup {k}] /\ Signs!Goes(s, "read")
  BY <1>1 DEF Signs!StoreCredentials, Signs!In, Signs!Home
<1>3. Signs!Settle(home', lines)
  BY <1>1, <1>2 DEF Signs!StoreCredentials, Signs!Home
<1>4. /\ home' \in Homes /\ home'.default = home.default /\ home'.creds = home.creds \cup {k}
      /\ home'.signers = home.signers /\ home'.include = home.include
  BY <1>2 DEF SignInv, SignTypes, Homes
<1>5. Steps(s) /\ shell'[s].at = "read"
  BY <1>2, SignGoesEffect DEF SignInv
<1>6. ~past.overlap => home.creds \subseteq home.signers
  BY <1>2 DEF SignInv, SignersKnown
<1> QED BY <1>1, <1>2, <1>3, <1>4, <1>5, <1>6, StepOfInit

LEMMA WriteSignersStep ==
  ASSUME SignInv, NEW s \in Shells, Signs!WriteSigners(s) PROVE SignInv'
<1>1. PICK k \in Identities : k = shell[s].key
  BY DEF SignInv, ShellsKnown, Signs!WriteSigners, Signs!In
<1>2. PICK rd \in SUBSET Identities : rd = shell[s].read
  BY DEF SignInv, SignTypes, ShellRecords
<1>3. PICK step \in {"include", "profile"} :
        step = IF shell[s].name = "default" THEN "include" ELSE "profile"
  OBVIOUS
<1>4. /\ shell[s].does = "init" /\ shell[s].at = "write" /\ Signs!Quiet /\ lines' = lines
      /\ home' = [home EXCEPT !.signers = rd \cup {k}, !.hooks = TRUE] /\ Signs!Goes(s, step)
  BY <1>1, <1>2, <1>3 DEF Signs!WriteSigners, Signs!In, Signs!Home, Signs!Appended
<1>5. Signs!Settle(home', lines)
  BY <1>1, <1>2, <1>4 DEF Signs!WriteSigners, Signs!Home, Signs!Appended
<1>6. /\ home' \in Homes /\ home'.default = home.default /\ home'.creds = home.creds
      /\ home'.signers = rd \cup {k} /\ home'.include = home.include
  BY <1>4 DEF SignInv, SignTypes, Homes
<1>7. Steps(s) /\ shell'[s].at = step
  BY <1>3, <1>4, SignGoesEffect DEF SignInv
<1>8. ~past.overlap => home.creds \subseteq home.signers \cup {k} /\ rd = home.signers
  BY <1>1, <1>2, <1>4 DEF SignInv, SignersKnown
<1> QED BY <1>1, <1>3, <1>4, <1>5, <1>6, <1>7, <1>8, StepOfInit

LEMMA SaveProfileStep ==
  ASSUME SignInv, NEW s \in Shells, Signs!SaveProfile(s) PROVE SignInv'
<1>1. PICK k \in Identities : k = shell[s].key
  BY DEF SignInv, ShellsKnown, Signs!SaveProfile, Signs!In
<1>2. PICK n : n = shell[s].name
  OBVIOUS
<1>3. /\ shell[s].does = "init" /\ shell[s].at = "profile" /\ Signs!Quiet /\ lines' = lines
      /\ home' = [home EXCEPT !.profile[n] = k] /\ Signs!Goes(s, "include")
  BY <1>1, <1>2 DEF Signs!SaveProfile, Signs!In, Signs!Home
<1>4. Signs!Settle(home', lines)
  BY <1>1, <1>2, <1>3 DEF Signs!SaveProfile, Signs!Home
<1>5. /\ home' \in Homes /\ home'.default = home.default /\ home'.creds = home.creds
      /\ home'.signers = home.signers /\ home'.include = home.include
  BY <1>3 DEF SignInv, SignTypes, Homes, Signs!KeyOrNone
<1>6. Steps(s) /\ shell'[s].at = "include"
  BY <1>3, SignGoesEffect DEF SignInv
<1>7. ~past.overlap => home.creds \subseteq home.signers
  BY <1>3 DEF SignInv, SignersKnown
<1> QED BY <1>1, <1>3, <1>4, <1>5, <1>6, <1>7, StepOfInit

LEMMA WriteIncludeStep ==
  ASSUME SignInv, NEW s \in Shells, Signs!WriteInclude(s) PROVE SignInv'
<1>1. PICK k \in Identities : k = shell[s].key
  BY DEF SignInv, ShellsKnown, Signs!WriteInclude, Signs!In
<1>2. PICK n : n = shell[s].name
  OBVIOUS
<1>3. /\ shell[s].does = "init" /\ shell[s].at = "include" /\ Signs!Quiet /\ lines' = lines
      /\ home' = [home EXCEPT !.include[n] = k] /\ shell' = [shell EXCEPT ![s] = Signs!Idle]
  BY <1>1, <1>2 DEF Signs!WriteInclude, Signs!In, Signs!Home
<1>4. Signs!Settle(home', lines)
  BY <1>1, <1>2, <1>3 DEF Signs!WriteInclude, Signs!Home
<1>5. /\ home' \in Homes /\ home'.default = home.default /\ home'.creds = home.creds
      /\ home'.signers = home.signers
      /\ \A f \in Files : home'.include[f] = home.include[f] \/ home'.include[f] = k
  BY <1>3 DEF SignInv, SignTypes, Homes, Signs!KeyOrNone
<1>6. Steps(s) /\ shell'[s] = Signs!Idle
  BY <1>3, EndsTheCommand DEF SignInv
<1>7. ~past.overlap => home.creds \subseteq home.signers
  BY <1>3 DEF SignInv, SignersKnown
<1>8. Signs!Idle.at \notin {"read", "write"}
  BY DEF Signs!Idle
<1> QED BY <1>1, <1>3, <1>4, <1>5, <1>6, <1>7, <1>8, StepOfInit

(* A step of `uninstall' keeps it all, if what is undone stays undone.     *)
LEMMA StepOfUninstall ==
  ASSUME SignInv, NEW s \in Shells, shell[s].does = "uninstall", SignPlanOK',
         home' \in Homes, lines' \in LineSets, commit' \in Makings, CommitKnown',
         past' \in SignPasts, past'.gone = past.gone,
         past'.overlap = past.overlap \/ past'.overlap, Steps(s),
         home'.default = home.default \/ home'.default = Signs!None,
         home'.creds \subseteq home.creds,
         \A n \in Files : home'.include[n] = home.include[n] \/ home'.include[n] = Signs!None,
         shell'[s].does = "uninstall", Undone(shell[s])' \/ ~Signs!Whole(shell'[s]),
         InHand(shell[s])',
         ~past'.overlap =>
           /\ home'.creds \subseteq home'.signers
           /\ shell'[s].at = "write" => shell'[s].read = home'.signers
           /\ shell'[s].at \in {"read", "write"} => shell[s].key \notin home'.creds
  PROVE  SignInv'
<1>1. SignTypes'
  BY DEF SignTypes, Steps
<1>2. ShellsKnown'
  BY ShellsKnownNext DEF SignInv
<1>3. \A u \in Shells : shell[u].does = "uninstall" => shell[u].key \in Identities
  BY DEF SignInv, ShellsKnown
<1>4. past'.gone \subseteq Identities
  BY DEF SignPasts
<1>5. RemovalsKnown'
  BY <1>3, <1>4, NoneIsNoKey, RemovalsAfterUninstall DEF SignInv
<1>6. BesideKnown'
  BY BesideAfterStep DEF SignInv
<1>7. SignersKnown'
  BY IdleIsARecord, SignersAfterStep DEF SignInv
<1> QED BY <1>1, <1>2, <1>5, <1>6, <1>7, SignPartsNext

(* A step that looks, and one that removes and is seen by a commit.         *)
LEMMA LookingKeeps ==
  ASSUME SignInv, Signs!Quiet, UNCHANGED <<home, lines, commit, past>>
  PROVE  /\ SignPlanOK' /\ home' \in Homes /\ lines' \in LineSets /\ commit' \in Makings
         /\ CommitKnown' /\ past' \in SignPasts
<1>1. SignPlanOK'
  BY QuietSign DEF SignInv
<1>2. CommitKnown'
  BY DEF SignInv, CommitKnown, Making, Now
<1> QED BY <1>1, <1>2 DEF SignInv, SignTypes

LEMMA SettlingKeeps ==
  ASSUME SignInv, Signs!Quiet, home' \in Homes, lines' \in LineSets, Signs!Settle(home', lines')
  PROVE  /\ SignPlanOK' /\ commit' \in Makings /\ CommitKnown' /\ past' \in SignPasts
         /\ past'.gone = past.gone /\ past'.overlap = past.overlap
BY QuietSign, SettleStep DEF SignInv

(* Who removes a key, and what he knows.                                    *)
LEMMA RemoverKnows ==
  ASSUME SignInv, NEW s \in Shells, shell[s].does = "uninstall"
  PROVE  /\ shell[s] \in ShellRecords /\ shell[s].key \in Identities
         /\ InHand(shell[s]) /\ (Signs!Whole(shell[s]) => Undone(shell[s]))
BY DEF SignInv, SignTypes, ShellsKnown, BesideKnown, RemovalsKnown

(* The steps of `uninstall'.                                               *)
LEMMA LookConfigStep ==
  ASSUME SignInv, NEW s \in Shells, Signs!LookConfig(s) PROVE SignInv'
<1>1. PICK k \in Identities : k = shell[s].key
  BY RemoverKnows DEF Signs!LookConfig, Signs!In
<1>2. PICK step \in {"unset", "creds"} : step = IF home.default = k THEN "unset" ELSE "creds"
  OBVIOUS
<1>3. /\ shell[s].does = "uninstall" /\ shell[s].at = "config" /\ Signs!Quiet
      /\ UNCHANGED <<home, lines, commit, past>> /\ Signs!Goes(s, step)
  BY <1>1, <1>2 DEF Signs!LookConfig, Signs!In, Signs!Ours
<1>4. /\ Steps(s) /\ shell'[s].at = step /\ shell'[s].does = "uninstall" /\ shell'[s].key = k
      /\ shell'[s].todo = shell[s].todo /\ shell'[s].name = shell[s].name
      /\ shell'[s].beside = shell[s].beside
      /\ Signs!Whole(shell'[s]) => Signs!Whole(shell[s])
  BY <1>1, <1>3, SignGoesEffect DEF SignInv
<1>5. Undone(shell[s])' \/ ~Signs!Whole(shell'[s])
  BY <1>1, <1>2, <1>3, <1>4, RemoverKnows DEF Undone
<1>6. InHand(shell[s])'
  BY <1>1, <1>2, <1>3, <1>4 DEF InHand, Taken
<1>7. ~past.overlap => home.creds \subseteq home.signers
  BY <1>3 DEF SignInv, SignersKnown
<1> QED BY <1>2, <1>3, <1>4, <1>5, <1>6, <1>7, LookingKeeps, StepOfUninstall

LEMMA RemoveConfigStep ==
  ASSUME SignInv, NEW s \in Shells, Signs!RemoveConfig(s) PROVE SignInv'
<1>1. PICK k \in Identities : k = shell[s].key
  BY RemoverKnows DEF Signs!RemoveConfig, Signs!In
<1>2. /\ shell[s].does = "uninstall" /\ shell[s].at = "unset" /\ Signs!Quiet /\ lines' = lines
      /\ home' = [home EXCEPT !.default = Signs!None] /\ Signs!Goes(s, "creds")
  BY DEF Signs!RemoveConfig, Signs!In, Signs!Home
<1>3. Signs!Settle(home', lines')
  BY <1>2 DEF Signs!RemoveConfig, Signs!Home
<1>4. /\ home' \in Homes /\ home'.default = Signs!None /\ home'.creds = home.creds
      /\ home'.signers = home.signers /\ home'.include = home.include /\ lines' \in LineSets
  BY <1>2 DEF SignInv, SignTypes, Homes, Signs!KeyOrNone
<1>5. /\ Steps(s) /\ shell'[s].at = "creds" /\ shell'[s].does = "uninstall" /\ shell'[s].key = k
      /\ shell'[s].todo = shell[s].todo
      /\ Signs!Whole(shell'[s]) => Signs!Whole(shell[s])
  BY <1>1, <1>2, SignGoesEffect DEF SignInv
<1>6. Undone(shell[s])' \/ ~Signs!Whole(shell'[s])
  BY <1>1, <1>2, <1>4, <1>5, NoneIsNoKey, RemoverKnows DEF Undone
<1>7. InHand(shell[s])'
  BY <1>5 DEF InHand
<1>8. ~past.overlap => home.creds \subseteq home.signers
  BY <1>2 DEF SignInv, SignersKnown
<1> QED BY <1>2, <1>3, <1>4, <1>5, <1>6, <1>7, <1>8, SettlingKeeps, StepOfUninstall

LEMMA RemoveCredentialsStep ==
  ASSUME SignInv, NEW s \in Shells, Signs!RemoveCredentials(s) PROVE SignInv'
<1>1. PICK k \in Identities : k = shell[s].key
  BY RemoverKnows DEF Signs!RemoveCredentials, Signs!In
<1>2. /\ shell[s].does = "uninstall" /\ shell[s].at = "creds" /\ Signs!Quiet /\ lines' = lines
      /\ home' = [home EXCEPT !.creds = @ \ {k}] /\ Signs!Goes(s, "read")
  BY <1>1 DEF Signs!RemoveCredentials, Signs!In, Signs!Home
<1>3. Signs!Settle(home', lines')
  BY <1>1, <1>2 DEF Signs!RemoveCredentials, Signs!Home
<1>4. /\ home' \in Homes /\ home'.default = home.default /\ home'.creds = home.creds \ {k}
      /\ home'.signers = home.signers /\ home'.include = home.include /\ lines' \in LineSets
  BY <1>2 DEF SignInv, SignTypes, Homes
<1>5. /\ Steps(s) /\ shell'[s].at = "read" /\ shell'[s].does = "uninstall" /\ shell'[s].key = k
      /\ shell'[s].todo = shell[s].todo
      /\ Signs!Whole(shell'[s]) => Signs!Whole(shell[s])
  BY <1>1, <1>2, SignGoesEffect DEF SignInv
<1>6. Undone(shell[s])' \/ ~Signs!Whole(shell'[s])
  BY <1>1, <1>2, <1>4, <1>5, RemoverKnows DEF Undone
<1>7. InHand(shell[s])'
  BY <1>5 DEF InHand
<1>8. ~past.overlap => home.creds \subseteq home.signers
  BY <1>2 DEF SignInv, SignersKnown
<1> QED BY <1>1, <1>2, <1>3, <1>4, <1>5, <1>6, <1>7, <1>8, SettlingKeeps, StepOfUninstall

LEMMA RemoveSignerStep ==
  ASSUME SignInv, NEW s \in Shells, Signs!RemoveSigner(s) PROVE SignInv'
<1>1. PICK k \in Identities : k = shell[s].key
  BY RemoverKnows DEF Signs!RemoveSigner, Signs!In
<1>2. PICK rd \in SUBSET Identities : rd = shell[s].read
  BY DEF SignInv, SignTypes, ShellRecords
<1>3. PICK new \in SUBSET Identities : new = IF k \in rd THEN rd \ {k} ELSE home.signers
  BY DEF SignInv, SignTypes, Homes
<1>4. /\ shell[s].does = "uninstall" /\ shell[s].at = "write" /\ Signs!Quiet /\ lines' = lines
      /\ home' = [home EXCEPT !.signers = new] /\ Signs!Goes(s, "include")
  BY <1>1, <1>2, <1>3 DEF Signs!RemoveSigner, Signs!In, Signs!Home
<1>5. Signs!Settle(home', lines')
  BY <1>1, <1>2, <1>3, <1>4 DEF Signs!RemoveSigner, Signs!Home
<1>6. /\ home' \in Homes /\ home'.default = home.default /\ home'.creds = home.creds
      /\ home'.signers = new /\ home'.include = home.include /\ lines' \in LineSets
  BY <1>4 DEF SignInv, SignTypes, Homes
<1>7. /\ Steps(s) /\ shell'[s].at = "include" /\ shell'[s].does = "uninstall" /\ shell'[s].key = k
      /\ shell'[s].todo = shell[s].todo
      /\ Signs!Whole(shell'[s]) => Signs!Whole(shell[s])
  BY <1>1, <1>4, SignGoesEffect DEF SignInv
<1>8. Undone(shell[s])' \/ ~Signs!Whole(shell'[s])
  BY <1>1, <1>4, <1>6, <1>7, RemoverKnows DEF Undone
<1>9. InHand(shell[s])'
  BY <1>7 DEF InHand
<1>10. ~past.overlap => home.creds \subseteq home.signers /\ rd = home.signers /\ k \notin home.creds
  BY <1>1, <1>2, <1>4 DEF SignInv, SignersKnown
<1> QED BY <1>1, <1>3, <1>4, <1>5, <1>6, <1>7, <1>8, <1>9, <1>10, SettlingKeeps, StepOfUninstall

(* An include file is looked at: it is taken in hand, or passed over.       *)
LEMMA LookIncludeStep ==
  ASSUME SignInv, NEW s \in Shells, Signs!LookInclude(s) PROVE SignInv'
<1>1. PICK k \in ShellRecords : k = shell[s]
  BY DEF SignInv, SignTypes
<1>2. /\ k.does = "uninstall" /\ k.at = "include" /\ Signs!Quiet
      /\ UNCHANGED <<home, lines, commit, past>>
  BY <1>1 DEF Signs!LookInclude, Signs!In
<1>3. PICK n \in k.todo :
        shell' = [shell EXCEPT ![s] =
          IF home.include[n] = k.key
          THEN [[k EXCEPT !.todo = @ \ {n}] EXCEPT !.name = n, !.at = "dir"]
          ELSE [k EXCEPT !.todo = @ \ {n}]]
  BY <1>1 DEF Signs!LookInclude, Signs!Ours
<1>4. n \in Files
  BY DEF ShellRecords
<1>5. PICK left \in ShellRecords : left = [k EXCEPT !.todo = @ \ {n}]
  BY DEF ShellRecords
<1>6. /\ left.does = k.does /\ left.at = k.at /\ left.key = k.key /\ left.beside = k.beside
      /\ left.failed = k.failed /\ left.todo = k.todo \ {n} /\ left.name = k.name
      /\ left.read = k.read
  BY <1>5 DEF ShellRecords
<1>7. PICK taken \in ShellRecords : taken = [left EXCEPT !.name = n, !.at = "dir"]
  BY <1>4 DEF ShellRecords, Signs!FileOrNone
<1>8. /\ taken.does = k.does /\ taken.at = "dir" /\ taken.key = k.key /\ taken.beside = k.beside
      /\ taken.failed = k.failed /\ taken.todo = k.todo \ {n} /\ taken.name = n
  BY <1>6, <1>7 DEF ShellRecords
<1>9. PICK new \in ShellRecords : new = IF home.include[n] = k.key THEN taken ELSE left
  OBVIOUS
<1>10. shell' = [shell EXCEPT ![s] = new]
  BY <1>3, <1>5, <1>7, <1>9
<1>11. /\ new.does = "uninstall" /\ new.at \in {"dir", "include"} /\ new.key = k.key
       /\ new.beside = k.beside /\ new.todo = k.todo \ {n}
       /\ Signs!Whole(new) => Signs!Whole(k)
  BY <1>2, <1>6, <1>8, <1>9 DEF Signs!Whole
<1>12. Steps(s) /\ shell'[s] = new
  <2>1. shell \in [Shells -> ShellRecords]
    BY DEF SignInv, SignTypes
  <2>2. /\ shell' \in [Shells -> ShellRecords] /\ shell'[s] = new
        /\ \A t \in Shells \ {s} : shell'[t] = shell[t]
    BY <1>10, <2>1
  <2>3. new.at # "done" /\ new.at # "profile" /\ new.does = k.does
    BY <1>2, <1>11
  <2> QED BY <1>1, <1>11, <2>2, <2>3 DEF Steps
<1>13. Signs!Whole(new) => Undone(k)
  <2>1. shell[s].does = "uninstall"
    BY <1>1, <1>2
  <2>2. Signs!Whole(shell[s]) => Undone(shell[s])
    BY <2>1, RemoverKnows
  <2>3. Signs!Whole(k) => Undone(k)
    BY <1>1, <2>2
  <2> QED BY <1>11, <2>3
<1>14. Undone(shell[s])' \/ ~Signs!Whole(shell'[s])
  <2> SUFFICES ASSUME Signs!Whole(new) PROVE Undone(shell[s])'
    BY <1>12
  <2>1. home.default # k.key /\ k.key \notin home.creds
    BY <1>2, <1>13 DEF Undone
  <2>2. ASSUME NEW m \in Files \ new.todo, home.include[m] = k.key
        PROVE  new.at \in {"dir", "repo", "file"} /\ new.name = m
    <3>1. m = n
      BY <1>2, <1>11, <1>13, <2>2 DEF Undone
    <3> QED BY <1>8, <1>9, <2>2, <3>1
  <2> QED BY <1>2, <1>11, <1>12, <2>1, <2>2 DEF Undone
<1>15. InHand(shell[s])'
  <2>1. new.at = "dir" => new.name = n /\ home.include[n] = k.key
    BY <1>2, <1>6, <1>8, <1>9
  <2> QED BY <1>2, <1>4, <1>11, <1>12, <2>1 DEF InHand, Taken
<1>16. ~past.overlap => home.creds \subseteq home.signers
  BY <1>1, <1>2 DEF SignInv, SignersKnown
<1> QED BY <1>1, <1>2, <1>11, <1>12, <1>14, <1>15, <1>16, LookingKeeps, StepOfUninstall

(* The lines that name it go.                                               *)
LEMMA RemoveLineStep ==
  ASSUME SignInv, NEW s \in Shells, Signs!RemoveDirLine(s) \/ Signs!RemoveRepoLine(s)
  PROVE  SignInv'
<1>1. PICK k \in Identities : k = shell[s].key
  BY RemoverKnows DEF Signs!RemoveDirLine, Signs!RemoveRepoLine, Signs!In
<1>2. PICK step \in {"repo", "file"} :
        Signs!Goes(s, step) /\ shell[s].does = "uninstall" /\ shell[s].at \in {"dir", "repo"}
  BY DEF Signs!RemoveDirLine, Signs!RemoveRepoLine, Signs!In
<1>3. lines' \in LineSets
  <2>1. CASE Signs!RemoveDirLine(s)
    BY <2>1 DEF Signs!RemoveDirLine, Signs!Unset, SignInv, SignTypes, LineSets, Signs!FileOrNone
  <2>2. CASE Signs!RemoveRepoLine(s)
    BY <2>2 DEF Signs!RemoveRepoLine, Signs!Unset, SignInv, SignTypes, LineSets, Signs!FileOrNone
  <2> QED BY <2>1, <2>2
<1>4. Signs!Quiet /\ home' = home /\ Signs!Settle(home', lines')
  BY DEF Signs!RemoveDirLine, Signs!RemoveRepoLine, Signs!Unset
<1>5. /\ Steps(s) /\ shell'[s].at = step /\ shell'[s].does = "uninstall" /\ shell'[s].key = k
      /\ shell'[s].todo = shell[s].todo /\ shell'[s].name = shell[s].name
      /\ shell'[s].beside = shell[s].beside
      /\ Signs!Whole(shell'[s]) => Signs!Whole(shell[s])
  BY <1>1, <1>2, SignGoesEffect DEF SignInv
<1>6. Undone(shell[s])' \/ ~Signs!Whole(shell'[s])
  BY <1>1, <1>2, <1>4, <1>5, RemoverKnows DEF Undone
<1>7. InHand(shell[s])'
  BY <1>1, <1>2, <1>4, <1>5, RemoverKnows DEF InHand, Taken
<1>8. ~past.overlap => home.creds \subseteq home.signers
  BY <1>2 DEF SignInv, SignersKnown
<1>9. home' \in Homes
  BY <1>4 DEF SignInv, SignTypes
<1> QED BY <1>2, <1>3, <1>4, <1>5, <1>6, <1>7, <1>8, <1>9, SettlingKeeps, StepOfUninstall

(* The file in hand goes, whatever it holds by now.                         *)
LEMMA RemoveIncludeEffect ==
  ASSUME SignInv, NEW s \in Shells, Signs!RemoveInclude(s)
  PROVE  /\ shell[s].does = "uninstall" /\ shell[s].at = "file" /\ shell[s].name \in Files
         /\ home' \in Homes /\ home'.default = home.default /\ home'.creds = home.creds
         /\ home'.signers = home.signers
         /\ \A n \in Files : home'.include[n] =
              IF n = shell[s].name THEN Signs!None ELSE home.include[n]
         /\ Steps(s) /\ shell'[s].at = "include" /\ shell'[s].does = "uninstall"
         /\ shell'[s].key = shell[s].key /\ shell'[s].todo = shell[s].todo
         /\ Signs!Whole(shell'[s]) => Signs!Whole(shell[s])
<1>1. shell[s].does = "uninstall" /\ shell[s].at = "file"
  BY DEF Signs!RemoveInclude, Signs!In
<1>2. PICK k \in ShellRecords : k = shell[s]
  BY DEF SignInv, SignTypes
<1>3. PICK f \in Files : f = k.name
  BY <1>1, <1>2, RemoverKnows DEF InHand
<1>4. home' = [home EXCEPT !.include[f] = Signs!None]
  BY <1>2, <1>3 DEF Signs!RemoveInclude, Signs!Home
<1>5. /\ home' \in Homes /\ home'.default = home.default /\ home'.creds = home.creds
      /\ home'.signers = home.signers
      /\ \A n \in Files : home'.include[n] = IF n = f THEN Signs!None ELSE home.include[n]
  BY <1>4 DEF SignInv, SignTypes, Homes, Signs!KeyOrNone
<1>6. PICK new \in ShellRecords : new = [k EXCEPT !.at = "include", !.name = Signs!None]
  BY DEF ShellRecords, Signs!FileOrNone
<1>7. /\ new.does = k.does /\ new.at = "include" /\ new.key = k.key /\ new.beside = k.beside
      /\ new.failed = k.failed /\ new.todo = k.todo
  BY <1>6 DEF ShellRecords
<1>8. shell' = [shell EXCEPT ![s] = new]
  BY <1>2, <1>6 DEF Signs!RemoveInclude, SignInv, SignTypes
<1>9. Signs!Whole(new) => Signs!Whole(k)
  BY <1>7 DEF Signs!Whole
<1>10. Steps(s) /\ shell'[s] = new
  BY <1>2, <1>7, <1>8, <1>9 DEF SignInv, SignTypes, Steps
<1> QED BY <1>1, <1>2, <1>3, <1>5, <1>7, <1>9, <1>10

LEMMA RemoveIncludeStep ==
  ASSUME SignInv, NEW s \in Shells, Signs!RemoveInclude(s) PROVE SignInv'
<1>1. PICK k \in Identities : k = shell[s].key
  BY RemoverKnows DEF Signs!RemoveInclude, Signs!In
<1>2. /\ shell[s].does = "uninstall" /\ shell[s].at = "file" /\ shell[s].name \in Files
      /\ home' \in Homes /\ home'.default = home.default /\ home'.creds = home.creds
      /\ home'.signers = home.signers
      /\ \A n \in Files : home'.include[n] =
           IF n = shell[s].name THEN Signs!None ELSE home.include[n]
      /\ Steps(s) /\ shell'[s].at = "include" /\ shell'[s].does = "uninstall"
      /\ shell'[s].key = shell[s].key /\ shell'[s].todo = shell[s].todo
      /\ Signs!Whole(shell'[s]) => Signs!Whole(shell[s])
  BY RemoveIncludeEffect
<1>3. Signs!Quiet /\ lines' = lines /\ lines' \in LineSets
  BY DEF Signs!RemoveInclude, SignInv, SignTypes
<1>4. Signs!Settle(home', lines')
  BY <1>3 DEF Signs!RemoveInclude, Signs!Home
<1>5. Undone(shell[s])' \/ ~Signs!Whole(shell'[s])
  <2> SUFFICES ASSUME Signs!Whole(shell'[s]) PROVE Undone(shell[s])'
    OBVIOUS
  <2>1. Undone(shell[s])
    BY <1>2, RemoverKnows
  <2>2. home.default # k /\ k \notin home.creds
    BY <1>1, <1>2, <2>1 DEF Undone
  <2>3. ASSUME NEW n \in Files \ shell[s].todo PROVE home'.include[n] # k
    BY <1>1, <1>2, <2>1, NoneIsNoKey DEF Undone
  <2> QED BY <1>1, <1>2, <2>2, <2>3 DEF Undone
<1>6. InHand(shell[s])'
  BY <1>2 DEF InHand
<1>7. ~past.overlap => home.creds \subseteq home.signers
  BY <1>2 DEF SignInv, SignersKnown
<1> QED BY <1>2, <1>3, <1>4, <1>5, <1>6, <1>7, SettlingKeeps, StepOfUninstall

(* Its end: every file was looked at, and nothing names the key any more.   *)
LEMMA EndUninstallStep ==
  ASSUME SignInv, NEW s \in Shells, Signs!EndUninstall(s) PROVE SignInv'
<1>1. PICK k \in Identities : k = shell[s].key
  BY RemoverKnows DEF Signs!EndUninstall, Signs!In
<1>2. /\ shell[s].does = "uninstall" /\ shell[s].at = "include" /\ shell[s].todo = {}
      /\ Signs!Quiet /\ UNCHANGED <<home, lines, commit>>
      /\ shell' = [shell EXCEPT ![s] = Signs!Idle]
  BY DEF Signs!EndUninstall, Signs!In
<1>3. Steps(s) /\ shell'[s] = Signs!Idle
  BY <1>2, EndsTheCommand DEF SignInv
<1>4. PICK g \in SUBSET Identities :
        g = IF Signs!Whole(shell[s]) THEN past.gone \cup {k} ELSE past.gone
  BY DEF SignInv, SignTypes, SignPasts
<1>5. past' = [past EXCEPT !.gone = g]
  BY <1>1, <1>4 DEF Signs!EndUninstall
<1>6. /\ past' \in SignPasts /\ past'.gone = g /\ past'.overlap = past.overlap
      /\ past'.changed = past.changed
  BY <1>5 DEF SignInv, SignTypes, SignPasts
<1>7. SignTypes' /\ SignPlanOK' /\ ShellsKnown'
  <2>1. SignTypes' /\ SignPlanOK'
    BY <1>2, <1>3, <1>6, QuietSign DEF SignInv, SignTypes, Steps
  <2>2. ShellsKnown'
    BY <1>2, <1>3, ShellsKnownNext DEF SignInv
  <2> QED BY <2>1, <2>2
<1>8. CommitKnown'
  BY <1>2, <1>6 DEF SignInv, CommitKnown, Making, Now
<1>9. BesideKnown'
  BY <1>2, <1>3, IdleIsARecord, BesideAfterStep DEF SignInv
<1>10. RemovalsKnown'
  <2>1. \A u \in Shells : shell[u].does = "uninstall" => shell[u].key \in Identities
    BY DEF SignInv, ShellsKnown
  <2>2. Signs!Whole(shell[s]) =>
          /\ \A t \in Shells : shell[t].does = "init" => shell[t].key # k
          /\ k \notin home.creds /\ home.default # k /\ \A n \in Files : home.include[n] # k
    <3> SUFFICES ASSUME Signs!Whole(shell[s])
                 PROVE  /\ \A t \in Shells : shell[t].does = "init" => shell[t].key # k
                        /\ k \notin home.creds /\ home.default # k
                        /\ \A n \in Files : home.include[n] # k
      OBVIOUS
    <3>1. \A t \in Shells : shell[t].does = "init" => shell[t].key # k
      BY <1>1, <1>2 DEF SignInv, BesideKnown, Signs!Whole
    <3>2. Undone(shell[s])
      BY <1>2, RemoverKnows
    <3> QED BY <1>1, <1>2, <3>1, <3>2 DEF Undone
  <2>3. \A h \in past'.gone \ past.gone :
          /\ \A t \in Shells : shell[t].does = "init" => shell[t].key # h
          /\ h \notin home'.creds /\ home'.default # h /\ \A n \in Files : home'.include[n] # h
    BY <1>2, <1>4, <1>6, <2>2
  <2> QED BY <1>2, <1>3, <1>6, <2>1, <2>3, NoneIsNoKey, RemovalsAfterUninstall DEF SignInv
<1>11. SignersKnown'
  <2>1. ~past.overlap => home.creds \subseteq home.signers
    BY <1>2 DEF SignInv, SignersKnown
  <2> QED BY <1>2, <1>3, <1>6, <2>1, IdleIsARecord, SignersAfterStep DEF SignInv
<1> QED BY <1>7, <1>8, <1>9, <1>10, <1>11, SignPartsNext

(* A step fails, and the removal goes on without it.                        *)
LEMMA FailStep ==
  ASSUME SignInv, NEW s \in Shells, Signs!Fail(s) PROVE SignInv'
<1>1. PICK k \in ShellRecords : k = shell[s]
  BY DEF SignInv, SignTypes
<1>2. k.does = "uninstall" /\ UNCHANGED <<home, lines, commit>>
  BY <1>1 DEF Signs!Fail
<1>3. PICK seen \in SUBSET k.todo :
        shell' = [shell EXCEPT ![s].at = Signs!NextStep(@), ![s].todo = @ \ seen,
                               ![s].failed = TRUE]
  BY <1>1 DEF Signs!Fail
<1>4. k.at \in {"config", "unset", "creds", "read", "write", "include", "dir", "repo", "file"}
  BY <1>1, <1>2 DEF SignInv, ShellsKnown, ShellRecords
<1>5. PICK step \in {"creds", "read", "include", "repo", "file"} : step = Signs!NextStep(k.at)
  BY <1>4 DEF Signs!NextStep
<1>6. step \in {"repo", "file"} => k.at \in {"dir", "repo"}
  BY <1>4, <1>5 DEF Signs!NextStep
<1>7. PICK new \in ShellRecords :
        new = [k EXCEPT !.at = step, !.todo = @ \ seen, !.failed = TRUE]
  BY DEF ShellRecords
<1>8. /\ new.does = k.does /\ new.at = step /\ new.key = k.key /\ new.beside = k.beside
      /\ new.name = k.name /\ new.failed
  BY <1>7 DEF ShellRecords
<1>9. shell' = [shell EXCEPT ![s] = new]
  BY <1>1, <1>3, <1>5, <1>7 DEF SignInv, SignTypes
<1>10. ~Signs!Whole(new)
  BY <1>8 DEF Signs!Whole
<1>11. Steps(s) /\ shell'[s] = new
  BY <1>1, <1>8, <1>9, <1>10 DEF SignInv, SignTypes, Steps
<1>12. past' = [past EXCEPT !.overlap = TRUE]
  BY DEF Signs!Fail
<1>13. /\ past' \in SignPasts /\ past'.gone = past.gone /\ past'.overlap
       /\ past'.changed = past.changed
  BY <1>12 DEF SignInv, SignTypes, SignPasts
<1>14. SignPlanOK'
  BY RunsCounts DEF Signs!Fail, Signs!Commands, SignInv
<1>15. CommitKnown'
  BY <1>2, <1>13 DEF SignInv, CommitKnown, Making, Now
<1>16. InHand(shell[s])'
  BY <1>1, <1>2, <1>6, <1>8, <1>11, RemoverKnows DEF InHand, Taken
<1>17. home' \in Homes /\ lines' \in LineSets /\ commit' \in Makings
  BY <1>2 DEF SignInv, SignTypes
<1> QED BY <1>1, <1>2, <1>8, <1>10, <1>11, <1>13, <1>14, <1>15, <1>16, <1>17, StepOfUninstall

(* allowed_signers is read, as it is now.                                  *)
LEMMA ReadSignersStep ==
  ASSUME SignInv, NEW s \in Shells, Signs!ReadSigners(s) PROVE SignInv'
<1>1. PICK k \in ShellRecords : k = shell[s]
  BY DEF SignInv, SignTypes
<1>2. home.signers \in SUBSET Identities
  BY DEF SignInv, SignTypes, Homes
<1>3. PICK new \in ShellRecords : new = [k EXCEPT !.at = "write", !.read = home.signers]
  BY <1>2 DEF ShellRecords
<1>4. /\ new.at = "write" /\ new.read = home.signers /\ new.does = k.does /\ new.key = k.key
      /\ new.beside = k.beside /\ new.failed = k.failed /\ new.todo = k.todo
  BY <1>3 DEF ShellRecords
<1>5. /\ k.at = "read" /\ Signs!Quiet /\ home' = home /\ lines' = lines /\ commit' = commit
      /\ past' = past
  BY <1>1 DEF Signs!ReadSigners
<1>6. shell' = [shell EXCEPT ![s] = new]
  BY <1>1, <1>3 DEF Signs!ReadSigners, SignInv, SignTypes
<1>7. k.does \in {"init", "uninstall"}
  BY <1>1, <1>5 DEF SignInv, ShellsKnown, Signs!Idle, ShellRecords
<1>8. Steps(s) /\ shell'[s] = new
  <2>1. Signs!Whole(new) => Signs!Whole(k)
    BY <1>4 DEF Signs!Whole
  <2> QED BY <1>1, <1>4, <1>6, <2>1 DEF SignInv, SignTypes, Steps
<1>9. SignTypes' /\ SignPlanOK' /\ CommitKnown' /\ ShellsKnown'
  <2>1. SignTypes' /\ SignPlanOK'
    BY <1>5, <1>8, QuietSign DEF SignInv, SignTypes, Steps
  <2>2. CommitKnown'
    BY <1>5 DEF SignInv, CommitKnown, Making, Now
  <2>3. ShellsKnown'
    BY <1>1, <1>7, <1>8, ShellsKnownNext DEF SignInv
  <2> QED BY <2>1, <2>2, <2>3
<1>10. RemovalsKnown'
  <2>1. CASE k.does = "init"
    BY <1>1, <1>5, <1>8, <2>1, RemovalsAfterInit DEF SignInv
  <2>2. CASE k.does = "uninstall"
    <3>1. \A u \in Shells : shell[u].does = "uninstall" => shell[u].key \in Identities
      BY DEF SignInv, ShellsKnown
    <3>2. past'.gone \subseteq Identities /\ past'.gone = past.gone
      BY <1>5 DEF SignInv, SignTypes, SignPasts
    <3>3. Signs!Whole(new) => Undone(k)
      BY <1>1, <1>4, <2>2, RemoverKnows DEF Signs!Whole
    <3>4. Undone(shell[s])' \/ ~Signs!Whole(shell'[s])
      BY <1>1, <1>4, <1>5, <1>8, <3>3 DEF Undone
    <3> QED BY <1>1, <1>5, <1>8, <2>2, <3>1, <3>2, <3>4, NoneIsNoKey, RemovalsAfterUninstall DEF SignInv
  <2> QED BY <1>7, <2>1, <2>2
<1>11. BesideKnown'
  <2>1. new.does = "uninstall" => InHand(shell[s])'
    BY <1>4, <1>8 DEF InHand
  <2> QED BY <1>1, <1>5, <1>7, <1>8, <2>1, BesideAfterStep DEF SignInv
<1>12. SignersKnown'
  <2>1. ~past.overlap => home.creds \subseteq home.signers \cup
          (IF k.does = "init" THEN {k.key} ELSE {})
    BY <1>1, <1>5, <1>7 DEF SignInv, SignersKnown
  <2>2. ~past.overlap /\ k.does = "uninstall" => k.key \notin home.creds
    BY <1>1, <1>5, <1>7 DEF SignInv, SignersKnown
  <2>3. new # Signs!Idle
    BY <1>4, <1>7, IdleIsARecord
  <2> QED BY <1>1, <1>4, <1>5, <1>7, <1>8, <2>1, <2>2, <2>3, SignersAfterStep DEF SignInv
<1> QED BY <1>9, <1>10, <1>11, <1>12, SignPartsNext

(* A command is stopped half way.                                          *)
LEMMA StopStep ==
  ASSUME SignInv, NEW s \in Shells, Signs!Stop(s) PROVE SignInv'
<1>1. shell' = [shell EXCEPT ![s] = Signs!Idle] /\ UNCHANGED <<home, lines, commit>>
  BY DEF Signs!Stop
<1>2. Steps(s) /\ shell'[s] = Signs!Idle
  BY <1>1, EndsTheCommand DEF SignInv
<1>3. shell[s].does # "none"
  BY DEF Signs!Stop, SignInv, ShellsKnown
<1>4. /\ past' \in SignPasts /\ past'.gone = past.gone /\ past'.overlap
      /\ past'.changed = past.changed
  BY DEF Signs!Stop, SignInv, SignTypes, SignPasts
<1>5. SignTypes' /\ SignPlanOK'
  <2>1. SignPlanOK'
    BY RunsCounts DEF Signs!Stop, Signs!Commands, SignInv
  <2> QED BY <1>1, <1>2, <1>4, <2>1 DEF SignInv, SignTypes, Steps
<1>6. CommitKnown'
  BY <1>1, <1>4 DEF SignInv, CommitKnown, Making, Now
<1>7. ShellsKnown'
  BY <1>2, <1>3, ShellsKnownNext DEF SignInv
<1>8. RemovalsKnown'
  <2>1. \A t \in Shells : shell'[t].does # "none" => shell'[t] = shell[t]
    BY <1>2, IdleIsARecord DEF Steps
  <2>2. \A u \in Shells : shell'[u].does = "uninstall" /\ Signs!Whole(shell'[u]) =>
          Undone(shell[u])'
    BY <1>1, <2>1 DEF SignInv, RemovalsKnown, Undone
  <2>3. \A k \in past.gone :
          /\ \A t \in Shells : shell'[t].does = "init" => shell'[t].key # k
          /\ k \notin home.creds /\ home.default # k /\ \A n \in Files : home.include[n] # k
    BY <2>1 DEF SignInv, RemovalsKnown
  <2> QED BY <1>1, <1>4, <2>2, <2>3 DEF RemovalsKnown
<1>9. SignersKnown'
  BY <1>4 DEF SignersKnown
<1>10. BesideKnown'
  BY <1>1, <1>2, <1>3, IdleIsARecord, BesideAfterStep DEF SignInv
<1> QED BY <1>5, <1>6, <1>7, <1>8, <1>9, <1>10, SignPartsNext

(* A command starts: the shell `s' runs it, removals under way learn of the *)
(* key that `init' is given, and it is no longer of those removed.          *)
LEMMA StartInitEffect ==
  ASSUME SignInv, NEW s \in Shells, Signs!StartInit(s)
  PROVE  \E k \in Identities :
           /\ shell' \in [Shells -> ShellRecords]
           /\ shell'[s].does = "init" /\ shell'[s].key = k /\ shell'[s].at \in {"creds", "config"}
           /\ \A t \in Shells \ {s} :
                /\ shell'[t].does = shell[t].does /\ shell'[t].key = shell[t].key
                /\ shell'[t].at = shell[t].at /\ shell'[t].read = shell[t].read
                /\ shell'[t].todo = shell[t].todo /\ shell'[t].name = shell[t].name
                /\ shell[t].does # "uninstall" => shell'[t] = shell[t]
                /\ shell[t].does = "uninstall" =>
                     /\ shell'[t].beside = shell[t].beside \cup {k}
                     /\ Signs!Whole(shell'[t]) => Signs!Whole(shell[t]) /\ shell[t].key # k
           /\ past' \in SignPasts /\ past'.gone = past.gone \ {k} /\ past'.changed = past.changed
           /\ ~past'.overlap => ~past.overlap /\ \A t \in Shells \ {s} : shell[t] = Signs!Idle
<1>1. PICK k \in Identities, n \in Files, makes \in BOOLEAN :
        LET beside == n # "default" /\ ~makes /\ home.default # Signs!None IN
          /\ n = "default" => makes
          /\ shell' = [t \in Shells |->
               IF t = s
               THEN [Signs!Idle EXCEPT !.does = "init", !.key = k, !.name = n, !.makes = makes,
                                 !.at = IF beside THEN "creds" ELSE "config"]
               ELSE IF shell[t].does = "uninstall" THEN [shell[t] EXCEPT !.beside = @ \cup {k}]
               ELSE shell[t]]
          /\ past' = [past EXCEPT !.gone = @ \ {k},
                                  !.overlap = @ \/ \E t \in Shells \ {s} : shell[t] # Signs!Idle]
  BY DEF Signs!StartInit
<1>2. PICK step \in {"creds", "config"} :
        step = IF n # "default" /\ ~makes /\ home.default # Signs!None THEN "creds" ELSE "config"
  <2>1. CASE n # "default" /\ ~makes /\ home.default # Signs!None
    BY <2>1
  <2>2. CASE ~(n # "default" /\ ~makes /\ home.default # Signs!None)
    BY <2>2
  <2> QED BY <2>1, <2>2
<1>3. PICK new \in ShellRecords :
        new = [Signs!Idle EXCEPT !.does = "init", !.key = k, !.name = n, !.makes = makes, !.at = step]
  BY IdleIsARecord DEF ShellRecords, Signs!KeyOrNone, Signs!FileOrNone
<1>4. new.does = "init" /\ new.key = k /\ new.at = step
  BY <1>3, IdleIsARecord DEF ShellRecords
<1>5. shell' = [t \in Shells |->
        IF t = s THEN new
        ELSE IF shell[t].does = "uninstall" THEN [shell[t] EXCEPT !.beside = @ \cup {k}]
        ELSE shell[t]]
  BY <1>1, <1>2, <1>3
<1>6. ASSUME NEW t \in Shells \ {s}, shell[t].does = "uninstall"
      PROVE  /\ shell'[t] \in ShellRecords
             /\ shell'[t].does = shell[t].does /\ shell'[t].key = shell[t].key
             /\ shell'[t].at = shell[t].at /\ shell'[t].read = shell[t].read
             /\ shell'[t].todo = shell[t].todo /\ shell'[t].name = shell[t].name
             /\ shell'[t].beside = shell[t].beside \cup {k}
             /\ Signs!Whole(shell'[t]) => Signs!Whole(shell[t]) /\ shell[t].key # k
  <2>1. PICK old \in ShellRecords : old = shell[t]
    BY DEF SignInv, SignTypes
  <2>2. PICK now1 \in ShellRecords : now1 = [old EXCEPT !.beside = @ \cup {k}]
    BY DEF ShellRecords
  <2>3. shell'[t] = now1
    BY <1>5, <1>6, <2>1, <2>2
  <2>4. /\ now1.does = old.does /\ now1.key = old.key /\ now1.at = old.at /\ now1.read = old.read
        /\ now1.todo = old.todo /\ now1.name = old.name /\ now1.failed = old.failed
        /\ now1.beside = old.beside \cup {k}
    BY <2>2 DEF ShellRecords
  <2>5. Signs!Whole(now1) => Signs!Whole(old) /\ old.key # k
    BY <2>4 DEF Signs!Whole
  <2> QED BY <2>1, <2>3, <2>4, <2>5
<1>7. \A t \in Shells \ {s} : shell[t].does # "uninstall" => shell'[t] = shell[t]
  BY <1>5
<1>8. shell' \in [Shells -> ShellRecords] /\ shell'[s] = new
  <2>1. shell'[s] = new
    BY <1>5
  <2>2. \A t \in Shells : shell'[t] \in ShellRecords
    BY <1>6, <1>7, <2>1 DEF SignInv, SignTypes
  <2> QED BY <1>5, <2>1, <2>2
<1>9. PICK o \in BOOLEAN : o <=> past.overlap \/ \E t \in Shells \ {s} : shell[t] # Signs!Idle
  OBVIOUS
<1>10. (past.overlap \/ \E t \in Shells \ {s} : shell[t] # Signs!Idle) = o
  BY <1>9 DEF SignInv, SignTypes, SignPasts
<1>11. past' = [past EXCEPT !.gone = @ \ {k}, !.overlap = o]
  BY <1>1, <1>10
<1>12. /\ past' \in SignPasts /\ past'.gone = past.gone \ {k} /\ past'.changed = past.changed
       /\ past'.overlap = o
  BY <1>11 DEF SignInv, SignTypes, SignPasts
<1> QED BY <1>2, <1>4, <1>6, <1>7, <1>8, <1>9, <1>12

(* A command starts.                                                       *)
LEMMA StartInitStep ==
  ASSUME SignInv, NEW s \in Shells, Signs!StartInit(s) PROVE SignInv'
<1>1. PICK k \in Identities :
        /\ shell' \in [Shells -> ShellRecords]
        /\ shell'[s].does = "init" /\ shell'[s].key = k /\ shell'[s].at \in {"creds", "config"}
        /\ \A t \in Shells \ {s} :
             /\ shell'[t].does = shell[t].does /\ shell'[t].key = shell[t].key
             /\ shell'[t].at = shell[t].at /\ shell'[t].read = shell[t].read
             /\ shell'[t].todo = shell[t].todo /\ shell'[t].name = shell[t].name
             /\ shell[t].does # "uninstall" => shell'[t] = shell[t]
             /\ shell[t].does = "uninstall" =>
                  /\ shell'[t].beside = shell[t].beside \cup {k}
                  /\ Signs!Whole(shell'[t]) => Signs!Whole(shell[t]) /\ shell[t].key # k
        /\ past' \in SignPasts /\ past'.gone = past.gone \ {k} /\ past'.changed = past.changed
        /\ ~past'.overlap => ~past.overlap /\ \A t \in Shells \ {s} : shell[t] = Signs!Idle
  BY StartInitEffect
<1>2. home' = home /\ lines' = lines /\ commit' = commit /\ shell[s] = Signs!Idle
  BY DEF Signs!StartInit
<1>3. SignTypes' /\ SignPlanOK'
  <2>1. SignPlanOK'
    BY RunsCounts DEF Signs!StartInit, Signs!Commands, SignInv
  <2> QED BY <1>1, <1>2, <2>1 DEF SignInv, SignTypes
<1>4. CommitKnown'
  BY <1>1, <1>2 DEF SignInv, CommitKnown, Making, Now
<1>5. ShellsKnown'
  BY <1>1 DEF SignInv, ShellsKnown
<1>6. RemovalsKnown'
  <2>1. ASSUME NEW u \in Shells, shell'[u].does = "uninstall", Signs!Whole(shell'[u])
        PROVE  Undone(shell[u])'
    <3>1. u \in Shells \ {s} /\ shell[u].does = "uninstall"
      BY <1>1, <2>1
    <3>2. Undone(shell[u])
      BY <1>1, <2>1, <3>1 DEF SignInv, RemovalsKnown
    <3> QED BY <1>1, <1>2, <3>1, <3>2 DEF Undone
  <2>2. \A g \in past'.gone :
          /\ \A t \in Shells : shell'[t].does = "init" => shell'[t].key # g
          /\ g \notin home.creds /\ home.default # g /\ \A n \in Files : home.include[n] # g
    BY <1>1 DEF SignInv, RemovalsKnown
  <2> QED BY <1>2, <2>1, <2>2 DEF RemovalsKnown
<1>7. BesideKnown'
  <2>1. ASSUME NEW u \in Shells, shell'[u].does = "uninstall"
        PROVE  /\ \A t \in Shells : shell'[t].does = "init" => shell'[t].key \in shell'[u].beside
               /\ InHand(shell[u])'
    <3>1. u \in Shells \ {s} /\ shell[u].does = "uninstall"
      BY <1>1, <2>1
    <3>2. /\ InHand(shell[u])
          /\ \A t \in Shells : shell[t].does = "init" => shell[t].key \in shell[u].beside
      BY <3>1 DEF SignInv, BesideKnown
    <3>3. \A t \in Shells : shell'[t].does = "init" => shell'[t].key \in shell'[u].beside
      BY <1>1, <3>1, <3>2
    <3> QED BY <1>1, <1>2, <3>1, <3>2, <3>3 DEF InHand, Taken
  <2> QED BY <2>1 DEF BesideKnown
<1>8. SignersKnown'
  <2> SUFFICES ASSUME ~past'.overlap PROVE SignersKnown'
    BY DEF SignersKnown
  <2>1. \A t \in Shells : shell[t].does = "none"
    BY <1>1, <1>2, IdleIsARecord
  <2>2. home.creds \subseteq home.signers
    BY <1>1, <2>1 DEF SignInv, SignersKnown
  <2>3. \A t \in Shells \ {s} : shell'[t].does = "none"
    BY <1>1, <2>1
  <2>4. \A t \in Shells : shell'[t].does # "none" =>
          t = s /\ shell'[t].does = "init" /\ shell'[t].at \notin {"read", "write"}
    BY <1>1, <2>3
  <2> QED BY <1>2, <2>2, <2>3, <2>4 DEF SignersKnown
<1> QED BY <1>3, <1>4, <1>5, <1>6, <1>7, <1>8, SignPartsNext

LEMMA StartUninstallStep ==
  ASSUME SignInv, NEW s \in Shells, Signs!StartUninstall(s) PROVE SignInv'
<1>1. PICK k \in Identities, r \in Repos :
        shell' = [shell EXCEPT ![s] =
          [Signs!Idle EXCEPT !.does = "uninstall", !.key = k, !.repo = r, !.at = "config",
             !.todo = Files,
             !.beside = {shell[t].key : t \in {u \in Shells : shell[u].does = "init"}}]]
  BY DEF Signs!StartUninstall
<1>2. PICK b \in SUBSET Identities :
        b = {shell[t].key : t \in {u \in Shells : shell[u].does = "init"}}
  BY DEF SignInv, ShellsKnown
<1>3. PICK new \in ShellRecords :
        new = [Signs!Idle EXCEPT !.does = "uninstall", !.key = k, !.repo = r, !.at = "config",
                                 !.todo = Files, !.beside = b]
  BY IdleIsARecord DEF ShellRecords, Signs!KeyOrNone
<1>4. /\ new.does = "uninstall" /\ new.key = k /\ new.at = "config" /\ new.beside = b
      /\ new.todo = Files
  BY <1>3, IdleIsARecord DEF ShellRecords
<1>5. shell' = [shell EXCEPT ![s] = new]
  BY <1>1, <1>2, <1>3
<1>6. /\ shell' \in [Shells -> ShellRecords] /\ shell'[s] = new
      /\ \A t \in Shells \ {s} : shell'[t] = shell[t]
  BY <1>5 DEF SignInv, SignTypes
<1>7. home' = home /\ lines' = lines /\ commit' = commit /\ shell[s] = Signs!Idle
  BY DEF Signs!StartUninstall
<1>8. PICK o \in BOOLEAN : o <=> past.overlap \/ \E t \in Shells \ {s} : shell[t] # Signs!Idle
  OBVIOUS
<1>9. (past.overlap \/ \E t \in Shells \ {s} : shell[t] # Signs!Idle) = o
  BY <1>8 DEF SignInv, SignTypes, SignPasts
<1>10. past' = [past EXCEPT !.overlap = o]
  BY <1>9 DEF Signs!StartUninstall
<1>11. /\ past' \in SignPasts /\ past'.gone = past.gone /\ past'.changed = past.changed
       /\ past'.overlap = o
  BY <1>10 DEF SignInv, SignTypes, SignPasts
<1>12. SignTypes' /\ SignPlanOK'
  <2>1. SignPlanOK'
    BY RunsCounts DEF Signs!StartUninstall, Signs!Commands, SignInv
  <2> QED BY <1>6, <1>7, <1>11, <2>1 DEF SignInv, SignTypes
<1>13. CommitKnown'
  BY <1>7, <1>11 DEF SignInv, CommitKnown, Making, Now
<1>14. ShellsKnown'
  BY <1>4, <1>6 DEF SignInv, ShellsKnown
<1>15. \A t \in Shells : shell'[t].does = "init" => shell[t].does = "init" /\ shell'[t] = shell[t]
  BY <1>4, <1>6
<1>16. RemovalsKnown'
  <2>1. ASSUME NEW u \in Shells, shell'[u].does = "uninstall", Signs!Whole(shell'[u])
        PROVE  Undone(shell[u])'
    <3>1. CASE u = s
      BY <1>4, <1>6, <3>1 DEF Undone
    <3>2. CASE u # s
      <4>1. shell'[u] = shell[u]
        BY <1>6, <3>2
      <4>2. Undone(shell[u])
        BY <2>1, <4>1 DEF SignInv, RemovalsKnown
      <4> QED BY <1>7, <4>1, <4>2 DEF Undone
    <3> QED BY <3>1, <3>2
  <2>2. \A g \in past.gone :
          /\ \A t \in Shells : shell'[t].does = "init" => shell'[t].key # g
          /\ g \notin home.creds /\ home.default # g /\ \A n \in Files : home.include[n] # g
    BY <1>15 DEF SignInv, RemovalsKnown
  <2> QED BY <1>7, <1>11, <2>1, <2>2 DEF RemovalsKnown
<1>17. BesideKnown'
  <2>1. ASSUME NEW u \in Shells, shell'[u].does = "uninstall"
        PROVE  /\ \A t \in Shells : shell'[t].does = "init" => shell'[t].key \in shell'[u].beside
               /\ InHand(shell[u])'
    <3>1. CASE u = s
      <4>1. \A t \in Shells : shell[t].does = "init" => shell[t].key \in b
        BY <1>2
      <4>2. InHand(shell[s])'
        BY <1>4, <1>6 DEF InHand
      <4> QED BY <1>4, <1>6, <1>15, <3>1, <4>1, <4>2
    <3>2. CASE u # s
      <4>1. shell'[u] = shell[u]
        BY <1>6, <3>2
      <4>2. /\ InHand(shell[u])
            /\ \A t \in Shells : shell[t].does = "init" => shell[t].key \in shell[u].beside
        BY <2>1, <4>1 DEF SignInv, BesideKnown
      <4>3. InHand(shell[u])'
        BY <1>7, <4>1, <4>2 DEF InHand, Taken
      <4> QED BY <1>15, <4>1, <4>2, <4>3
    <3> QED BY <3>1, <3>2
  <2> QED BY <2>1 DEF BesideKnown
<1>18. SignersKnown'
  <2> SUFFICES ASSUME ~past'.overlap PROVE SignersKnown'
    BY DEF SignersKnown
  <2>1. ~past.overlap /\ \A t \in Shells : shell[t].does = "none"
    BY <1>7, <1>8, <1>11, IdleIsARecord
  <2>2. home.creds \subseteq home.signers
    BY <2>1 DEF SignInv, SignersKnown
  <2>3. \A t \in Shells \ {s} : shell'[t].does = "none"
    BY <1>6, <2>1
  <2>4. \A t \in Shells : shell'[t].does # "none" => t = s /\ shell'[t].at = "config"
    BY <1>4, <1>6, <2>3
  <2> QED BY <1>7, <2>2, <2>3, <2>4 DEF SignersKnown
<1> QED BY <1>12, <1>13, <1>14, <1>16, <1>17, <1>18, SignPartsNext

(* A line of a repository or of the directory is written.                   *)
LEMMA LinesStep ==
  ASSUME SignInv, NEW l \in LineSets, Signs!Lines(l), NEW c \in Signs!Commands, Signs!Runs(c)
  PROVE  SignInv'
<1>1. lines' = l /\ home' = home /\ shell' = shell /\ Signs!Settle(home, l)
  BY DEF Signs!Lines
<1>2. home' \in Homes /\ lines' \in LineSets /\ Signs!Settle(home', lines')
  BY <1>1 DEF SignInv, SignTypes
<1>3. /\ commit' \in Makings /\ CommitKnown' /\ past' \in SignPasts
      /\ past'.gone = past.gone /\ past'.overlap = past.overlap
  BY <1>2, SettleStep DEF SignInv
<1>4. SignTypes' /\ SignPlanOK'
  BY <1>1, <1>2, <1>3, RunsCounts DEF SignInv, SignTypes
<1>5. RemovalsKnown' /\ BesideKnown' /\ ShellsKnown'
  BY <1>1, <1>3 DEF SignInv, RemovalsKnown, BesideKnown, ShellsKnown, Undone, InHand, Taken
<1>6. SignersKnown'
  BY <1>1, <1>3 DEF SignInv, SignersKnown
<1> QED BY <1>3, <1>4, <1>5, <1>6, SignPartsNext

(* enable and disable.                                                     *)
LEMMA EnableAndDisableStep ==
  ASSUME SignInv,
         (\E r \in Repos : Signs!EnableRepo(r) \/ Signs!DisableRepo(r))
            \/ Signs!EnableDir \/ Signs!DisableDir
  PROVE  SignInv'
<1> USE DEF LineSets, Signs!FileOrNone
<1>1. lines \in LineSets
  BY DEF SignInv, SignTypes
<1>2. Signs!IncludeFor \subseteq Files
  BY SigningAssumption DEF Signs!IncludeFor, Signs!Profiles
<1>3. ASSUME NEW r \in Repos, Signs!EnableRepo(r) PROVE SignInv'
  <2>1. PICK n \in Files : Signs!Lines([lines EXCEPT !.repo[r] = n])
    BY <1>2, <1>3 DEF Signs!EnableRepo
  <2>2. [lines EXCEPT !.repo[r] = n] \in LineSets
    BY <1>1
  <2>3. Signs!Runs("enable")
    BY <1>3 DEF Signs!EnableRepo
  <2> QED BY <2>1, <2>2, <2>3, LinesStep DEF Signs!Commands
<1>4. ASSUME NEW r \in Repos, Signs!DisableRepo(r) PROVE SignInv'
  <2>1. Signs!Lines([lines EXCEPT !.repo[r] = Signs!None]) /\ Signs!Runs("disable")
    BY <1>4 DEF Signs!DisableRepo
  <2>2. [lines EXCEPT !.repo[r] = Signs!None] \in LineSets
    BY <1>1
  <2> QED BY <2>1, <2>2, LinesStep DEF Signs!Commands
<1>5. ASSUME Signs!EnableDir PROVE SignInv'
  <2>1. PICK n \in Files : Signs!Lines([lines EXCEPT !.dir = n])
    BY <1>2, <1>5 DEF Signs!EnableDir
  <2>2. [lines EXCEPT !.dir = n] \in LineSets
    BY <1>1
  <2>3. Signs!Runs("enabledir")
    BY <1>5 DEF Signs!EnableDir
  <2> QED BY <2>1, <2>2, <2>3, LinesStep DEF Signs!Commands
<1>6. ASSUME Signs!DisableDir PROVE SignInv'
  <2>1. Signs!Lines([lines EXCEPT !.dir = Signs!None]) /\ Signs!Runs("disabledir")
    BY <1>6 DEF Signs!DisableDir
  <2>2. [lines EXCEPT !.dir = Signs!None] \in LineSets
    BY <1>1
  <2> QED BY <2>1, <2>2, LinesStep DEF Signs!Commands
<1> QED BY <1>3, <1>4, <1>5, <1>6

(* A commit goes on, under settings that stay.                              *)
LEMMA CommitGoes ==
  ASSUME SignInv, SignPlanOK', commit' \in Makings, past' \in SignPasts, CommitKnown',
         past'.gone = past.gone, past'.overlap = past.overlap, UNCHANGED <<home, lines, shell>>
  PROVE  SignInv'
<1>1. SignTypes'
  BY DEF SignInv, SignTypes
<1>2. RemovalsKnown' /\ BesideKnown' /\ ShellsKnown'
  BY DEF SignInv, RemovalsKnown, BesideKnown, ShellsKnown, Undone, InHand, Taken
<1>3. SignersKnown'
  BY DEF SignInv, SignersKnown
<1> QED BY <1>1, <1>2, <1>3, SignPartsNext

(* A commit begins; the hook, the signer and the VTA follow.               *)
LEMMA BeginStep == ASSUME SignInv, Signs!Begin PROVE SignInv'
<1>1. PICK r \in Repos, e \in Signs!KeyOrNone, t \in Signs!ClaimedDids \cup {Signs!None} :
        commit' = [Signs!NoCommit EXCEPT !.at = "hook", !.repo = r, !.env = e, !.claim = t,
                     !.own = t # Signs!None,
                     !.seen = {Signs!Effective(home, lines, r), home.default}]
  BY DEF Signs!Begin
<1>2. PICK o \in BOOLEAN : o <=> t # Signs!None
  OBVIOUS
<1>3. PICK seen \in SUBSET Signs!KeyOrNone : seen = {Now(r), home.default}
  BY NowIsAKey DEF SignInv, SignTypes, Homes
<1>4. commit' = [Signs!NoCommit EXCEPT !.at = "hook", !.repo = r, !.env = e, !.claim = t,
                   !.own = o, !.seen = seen]
  <2>1. (t # Signs!None) = o
    BY <1>2
  <2> QED BY <1>1, <1>3, <2>1 DEF Now
<1>5. Signs!NoCommit \in Makings
  BY DEF Signs!NoCommit, Makings, Signs!KeyOrNone
<1>6. /\ commit' \in Makings /\ commit'.at = "hook" /\ commit'.repo = r /\ commit'.claim = t
      /\ commit'.own = o /\ commit'.seen = seen
  BY <1>4, <1>5 DEF Makings
<1>7. UNCHANGED <<home, lines, shell>>
  BY DEF Signs!Begin
<1>8. CommitKnown'
  BY <1>2, <1>3, <1>6, <1>7 DEF CommitKnown, Making, Now
<1>9. PICK ch \in BOOLEAN : ch = \E s \in Shells : shell[s] # Signs!Idle
  OBVIOUS
<1>10. past' = [past EXCEPT !.changed = ch]
  BY <1>9 DEF Signs!Begin
<1>11. past' \in SignPasts /\ past'.gone = past.gone /\ past'.overlap = past.overlap
  BY <1>10 DEF SignInv, SignTypes, SignPasts
<1>12. SignPlanOK'
  BY RunsCounts DEF Signs!Begin, Signs!Commands, SignInv
<1> QED BY <1>6, <1>7, <1>8, <1>11, <1>12, CommitGoes

LEMMA HookStep == ASSUME SignInv, Signs!Hook PROVE SignInv'
<1>1. PICK r \in Repos : r = commit.repo
  BY DEF Signs!Hook, SignInv, CommitKnown, Making
<1>2. Signs!Selected = Now(r)
  BY <1>1 DEF Signs!Selected, Now
<1>3. Now(r) \in Signs!KeyOrNone
  BY NowIsAKey DEF SignInv, SignTypes
<1>4. PICK p \in Signs!KeyOrNone : p = Signs!Pick
  BY <1>2, <1>3 DEF Signs!Pick, SignInv, SignTypes, Makings
<1>5. p # Signs!None => DidOf[p] \in Signs!ClaimedDids
  BY <1>4 DEF Signs!KeyOrNone, Signs!ClaimedDids
<1>6. PICK cl \in Signs!ClaimedDids \cup {Signs!None} :
        cl = IF commit.claim = Signs!None /\ home.hooks /\ p # Signs!None /\ Now(r) # Signs!None
             THEN DidOf[p] ELSE commit.claim
  <2>1. CASE commit.claim = Signs!None /\ home.hooks /\ p # Signs!None /\ Now(r) # Signs!None
    BY <1>5, <2>1
  <2>2. CASE ~(commit.claim = Signs!None /\ home.hooks /\ p # Signs!None /\ Now(r) # Signs!None)
    BY <2>2 DEF SignInv, SignTypes, Makings
  <2> QED BY <2>1, <2>2
<1>7. commit' = [commit EXCEPT !.at = "sign", !.claim = cl]
  BY <1>2, <1>4, <1>6 DEF Signs!Hook
<1>8. /\ commit' \in Makings /\ commit'.at = "sign" /\ commit'.repo = r
      /\ commit'.env = commit.env /\ commit'.claim = cl /\ commit'.own = commit.own
      /\ commit'.seen = commit.seen
  BY <1>1, <1>7 DEF SignInv, SignTypes, Makings
<1>9. UNCHANGED <<home, lines, shell, past>>
  BY DEF Signs!Hook
<1>10. Now(r) \in commit.seen /\ home.default \in commit.seen
  BY <1>1 DEF Signs!Hook, SignInv, CommitKnown, Making
<1>11. ~commit.own => commit.claim = Signs!None
  BY DEF Signs!Hook, SignInv, CommitKnown
<1>12. ~commit.own /\ cl # Signs!None =>
         Now(r) # Signs!None /\ cl = DidOf[IF commit.env # Signs!None THEN commit.env ELSE Now(r)]
  BY <1>2, <1>4, <1>6, <1>11 DEF Signs!Pick
<1>13. CommitKnown'
  BY <1>8, <1>9, <1>10, <1>12 DEF CommitKnown, Making, Now
<1>14. past' \in SignPasts /\ SignPlanOK'
  BY <1>9, QuietSign DEF Signs!Hook, SignInv, SignTypes
<1> QED BY <1>8, <1>9, <1>13, <1>14, CommitGoes

(* The signer reads the selection again.                                    *)
LEMMA SignerStep == ASSUME SignInv, Signs!Sign PROVE SignInv'
<1>1. PICK r \in Repos : r = commit.repo
  BY DEF Signs!Sign, SignInv, CommitKnown, Making
<1>2. Signs!Selected = Now(r)
  BY <1>1 DEF Signs!Selected, Now
<1>3. Now(r) \in Signs!KeyOrNone /\ commit.env \in Signs!KeyOrNone /\ home.default \in Signs!KeyOrNone
  BY NowIsAKey DEF SignInv, SignTypes, Homes, Makings
<1>4. PICK k \in Signs!KeyOrNone : k = Signs!SelectKey
  BY <1>2, <1>3 DEF Signs!SelectKey, Signs!SelectAgain
<1>5. UNCHANGED <<home, lines, shell, past>> /\ commit.at = "sign"
  BY DEF Signs!Sign
<1>6. past' \in SignPasts /\ SignPlanOK'
  BY <1>5, QuietSign DEF Signs!Sign, SignInv, SignTypes
<1>7. Now(r) \in commit.seen /\ home.default \in commit.seen
  BY <1>1, <1>5 DEF SignInv, CommitKnown, Making
<1>8. IF commit.env # Signs!None THEN k = commit.env ELSE k \in commit.seen
  BY <1>2, <1>4, <1>7 DEF Signs!SelectKey, Signs!SelectAgain
<1>9. ~commit.own /\ ~past.changed /\ commit.claim # Signs!None => commit.claim = DidOf[k]
  BY <1>1, <1>2, <1>4, <1>5 DEF Signs!SelectKey, Signs!SelectAgain, SignInv, CommitKnown
<1>10. CASE home.default = Signs!None \/ ~Signs!NeedsCredentials(k) \/ commit.claim = Signs!None
  <2>1. commit' = [commit EXCEPT !.at = "refused"]
    BY <1>4, <1>10 DEF Signs!Sign
  <2>2. commit' \in Makings /\ commit'.at = "refused"
    BY <2>1 DEF SignInv, SignTypes, Makings
  <2>3. CommitKnown'
    BY <2>2 DEF CommitKnown, Making
  <2> QED BY <1>5, <1>6, <2>2, <2>3, CommitGoes
<1>11. CASE ~(home.default = Signs!None \/ ~Signs!NeedsCredentials(k) \/ commit.claim = Signs!None)
            /\ commit.claim # DidOf[k]
  <2>1. commit' = [commit EXCEPT !.at = "mismatch"]
    BY <1>4, <1>11 DEF Signs!Sign, Signs!ClaimMatches
  <2>2. commit' \in Makings /\ commit'.at = "mismatch" /\ commit'.own = commit.own
    BY <2>1 DEF SignInv, SignTypes, Makings
  <2>3. CommitKnown'
    BY <1>5, <1>9, <1>11, <2>2 DEF CommitKnown, Making
  <2> QED BY <1>5, <1>6, <2>2, <2>3, CommitGoes
<1>12. CASE ~(home.default = Signs!None \/ ~Signs!NeedsCredentials(k) \/ commit.claim = Signs!None)
            /\ commit.claim = DidOf[k]
  <2>1. commit' = [commit EXCEPT !.at = "auth", !.key = k]
    BY <1>4, <1>12 DEF Signs!Sign, Signs!ClaimMatches
  <2>2. /\ commit' \in Makings /\ commit'.at = "auth" /\ commit'.repo = r /\ commit'.key = k
        /\ commit'.env = commit.env /\ commit'.claim = commit.claim /\ commit'.own = commit.own
        /\ commit'.seen = commit.seen
    BY <1>1, <2>1 DEF SignInv, SignTypes, Makings
  <2>3. CommitKnown'
    BY <1>5, <1>7, <1>8, <1>12, <2>2 DEF CommitKnown, Making, Now
  <2> QED BY <1>5, <1>6, <2>2, <2>3, CommitGoes
<1> QED BY <1>10, <1>11, <1>12

LEMMA AuthenticateStep == ASSUME SignInv, Signs!Authenticate PROVE SignInv'
<1>1. PICK end \in {"signed", "refused"} : commit' = [commit EXCEPT !.at = end]
  BY DEF Signs!Authenticate
<1>2. /\ commit' \in Makings /\ commit'.at = end /\ commit'.key = commit.key
      /\ commit'.env = commit.env /\ commit'.claim = commit.claim /\ commit'.own = commit.own
      /\ commit'.seen = commit.seen
  BY <1>1 DEF SignInv, SignTypes, Makings
<1>3. UNCHANGED <<home, lines, shell, past>> /\ commit.at = "auth"
  BY DEF Signs!Authenticate
<1>4. past' \in SignPasts /\ SignPlanOK'
  BY <1>3, QuietSign DEF Signs!Authenticate, SignInv, SignTypes
<1>5. CommitKnown'
  BY <1>2, <1>3 DEF SignInv, CommitKnown, Making
<1> QED BY <1>2, <1>3, <1>4, <1>5, CommitGoes

(* The invariant of did-git-sign, and what it gives.                       *)
LEMMA SignInvStep == SignInv /\ Signs!Next => SignInv'
<1> SUFFICES ASSUME SignInv, Signs!Next PROVE SignInv'
  OBVIOUS
<1>1. CASE \E s \in Shells :
             \/ Signs!StartInit(s) \/ Signs!SaveConfig(s) \/ Signs!StoreCredentials(s)
             \/ Signs!ReadSigners(s) \/ Signs!WriteSigners(s) \/ Signs!SaveProfile(s)
             \/ Signs!WriteInclude(s) \/ Signs!StartUninstall(s) \/ Signs!Stop(s)
  BY <1>1, StartInitStep, SaveConfigStep, StoreCredentialsStep, ReadSignersStep, WriteSignersStep,
     SaveProfileStep, WriteIncludeStep, StartUninstallStep, StopStep
<1>2. CASE \E s \in Shells :
             \/ Signs!LookConfig(s) \/ Signs!RemoveConfig(s) \/ Signs!RemoveCredentials(s)
             \/ Signs!RemoveSigner(s) \/ Signs!LookInclude(s) \/ Signs!RemoveDirLine(s)
             \/ Signs!RemoveRepoLine(s) \/ Signs!RemoveInclude(s) \/ Signs!EndUninstall(s)
             \/ Signs!Fail(s)
  BY <1>2, LookConfigStep, RemoveConfigStep, RemoveCredentialsStep, RemoveSignerStep,
     LookIncludeStep, RemoveLineStep, RemoveIncludeStep, EndUninstallStep, FailStep
<1>3. CASE (\E r \in Repos : Signs!EnableRepo(r) \/ Signs!DisableRepo(r))
              \/ Signs!EnableDir \/ Signs!DisableDir
  BY <1>3, EnableAndDisableStep
<1>4. CASE Signs!Begin \/ Signs!Hook \/ Signs!Sign \/ Signs!Authenticate
  BY <1>4, BeginStep, HookStep, SignerStep, AuthenticateStep
<1> QED BY <1>1, <1>2, <1>3, <1>4 DEF Signs!Next

LEMMA SigningIsSafe ==
  SignInv => /\ Signs!TypeOK /\ Signs!SignsAsSelected /\ Signs!HookAndSignerAgree
             /\ Signs!RemovedIsGone /\ Signs!SignersAreKnown
<1> SUFFICES ASSUME SignInv
             PROVE  /\ Signs!TypeOK /\ Signs!SignsAsSelected /\ Signs!HookAndSignerAgree
                    /\ Signs!RemovedIsGone /\ Signs!SignersAreKnown
  OBVIOUS
<1>1. Signs!TypeOK
  BY DEF SignInv, SignTypes, SignPlanOK, Signs!TypeOK, Homes, LineSets, ShellRecords, Makings, SignPasts
<1>2. Signs!SignsAsSelected
  BY DEF SignInv, CommitKnown, Signs!SignsAsSelected
<1>3. Signs!HookAndSignerAgree
  BY DEF SignInv, CommitKnown, Signs!HookAndSignerAgree
<1>4. Signs!RemovedIsGone
  BY DEF SignInv, RemovalsKnown, Signs!RemovedIsGone
<1>5. Signs!SignersAreKnown
  BY IdleIsARecord DEF SignInv, SignersKnown, Signs!SignersAreKnown
<1> QED BY <1>1, <1>2, <1>3, <1>4, <1>5

(* Only the step of a removal itself matters to what others have.           *)
Keeps(s) ==
  shell[s].does = "uninstall" =>
    \A k \in Identities : k \notin {shell[s].key} \cup shell[s].beside =>
      /\ home.default = k => home'.default = k
      /\ k \in home.creds => k \in home'.creds
      /\ \A n \in Files : home.include[n] = k => home'.include[n] = k
      /\ \A r \in Repos : Now(r) = k => Now(r)' = k

LEMMA NobodyElseMoves ==
  ASSUME NEW s \in Shells, \A t \in Shells \ {s} : shell'[t] = shell[t], Keeps(s)
  PROVE  Signs!OthersStay
BY DEF Signs!OthersStay, Keeps, Now

(* No include and no line changes: nobody signs otherwise.                  *)
LEMMA SameSettings ==
  ASSUME home'.include = home.include, lines' = lines, NEW r \in Repos PROVE Now(r)' = Now(r)
BY DEF Now, Signs!Effective

(* The file in hand is not of those that stay, nor are its lines.           *)
LEMMA LinesKeep ==
  ASSUME SignInv, NEW s \in Shells, shell[s].does = "uninstall",
         shell[s].at \in {"dir", "repo", "file"}, lines' \in LineSets,
         lines'.dir = lines.dir \/ (lines.dir = shell[s].name /\ lines'.dir = Signs!None),
         \A q \in Repos : \/ lines'.repo[q] = lines.repo[q]
                          \/ lines.repo[q] = shell[s].name /\ lines'.repo[q] = Signs!None,
         \A n \in Files \ {shell[s].name} : home'.include[n] = home.include[n],
         home'.include[shell[s].name] \in {home.include[shell[s].name], Signs!None},
         NEW k \in Identities, k \notin {shell[s].key} \cup shell[s].beside,
         NEW r \in Repos, Now(r) = k
  PROVE  Now(r)' = k
<1>1. PICK f \in Files : f = shell[s].name /\ home.include[f] # k
  BY RemoverKnows, NoneIsNoKey DEF InHand, Taken
<1>2. k # Signs!None /\ Signs!None \notin Files
  BY NoneIsNoKey, SigningAssumption DEF Signs!None
<1>3. lines.repo[r] \in Files \cup {Signs!None} /\ lines.dir \in Files \cup {Signs!None}
  BY DEF SignInv, SignTypes, LineSets, Signs!FileOrNone
<1>4. PICK ra, rd : ra = lines.repo[r] /\ rd = lines.dir
  OBVIOUS
<1>5. PICK ra2, rd2 : ra2 = lines'.repo[r] /\ rd2 = lines'.dir
  OBVIOUS
<1> DEFINE Of(n) == IF n = Signs!None THEN Signs!None ELSE home.include[n]
           Then(n) == IF n = Signs!None THEN Signs!None ELSE home'.include[n]
<1>6. k = IF Of(ra) # Signs!None THEN Of(ra) ELSE Of(rd)
  BY <1>4 DEF Now, Signs!Effective
<1>7. Now(r)' = IF Then(ra2) # Signs!None THEN Then(ra2) ELSE Then(rd2)
  BY <1>5 DEF Now, Signs!Effective
<1>8. \A n \in Files \cup {Signs!None} : n # f => Then(n) = Of(n)
  BY <1>1
<1>9. Then(f) \in {Of(f), Signs!None} /\ Of(f) # k /\ Of(Signs!None) = Signs!None /\ Then(Signs!None) = Signs!None
  BY <1>1, <1>2
<1>10. ra2 = ra \/ (ra = f /\ ra2 = Signs!None)
  BY <1>1, <1>4, <1>5
<1>11. rd2 = rd \/ (rd = f /\ rd2 = Signs!None)
  BY <1>1, <1>4, <1>5
<1>12. ra \in Files \cup {Signs!None} /\ rd \in Files \cup {Signs!None}
  BY <1>3, <1>4
<1> HIDE DEF Of, Then
<1>13. CASE Of(ra) = k
  <2>1. ra # f /\ ra2 = ra /\ Then(ra2) = k
    BY <1>8, <1>9, <1>10, <1>12, <1>13
  <2> QED BY <1>2, <1>7, <2>1
<1>14. CASE Of(ra) # k
  <2>1. Of(ra) = Signs!None /\ Of(rd) = k
    BY <1>6, <1>14
  <2>2. Then(ra2) = Signs!None
    BY <1>8, <1>9, <1>10, <1>12, <2>1
  <2>3. rd # f /\ rd2 = rd /\ Then(rd2) = k
    BY <1>8, <1>9, <1>11, <1>12, <2>1
  <2> QED BY <1>2, <1>7, <2>2, <2>3
<1> QED BY <1>13, <1>14

(* What each step of a removal takes.                                       *)
LEMMA RemovalKeeps ==
  ASSUME SignInv, NEW s \in Shells,
         \/ Signs!RemoveConfig(s) \/ Signs!RemoveCredentials(s) \/ Signs!RemoveSigner(s)
         \/ Signs!RemoveDirLine(s) \/ Signs!RemoveRepoLine(s) \/ Signs!RemoveInclude(s)
  PROVE  Keeps(s)
<1>1. shell[s].does = "uninstall"
  BY DEF Signs!RemoveConfig, Signs!RemoveCredentials, Signs!RemoveSigner, Signs!RemoveDirLine,
         Signs!RemoveRepoLine, Signs!RemoveInclude, Signs!In
<1> SUFFICES ASSUME NEW k \in Identities, k \notin {shell[s].key} \cup shell[s].beside
             PROVE  /\ home.default = k => home'.default = k
                    /\ k \in home.creds => k \in home'.creds
                    /\ \A n \in Files : home.include[n] = k => home'.include[n] = k
                    /\ \A r \in Repos : Now(r) = k => Now(r)' = k
  BY DEF Keeps
<1>2. CASE Signs!RemoveConfig(s)
  <2>1. /\ home'.default = Signs!None /\ home'.creds = home.creds /\ home'.include = home.include
        /\ lines' = lines /\ shell[s].at = "unset"
    BY <1>2 DEF Signs!RemoveConfig, Signs!Home, Signs!In, SignInv, SignTypes, Homes
  <2>2. home.default # k
    BY <1>1, <2>1, RemoverKnows, NoneIsNoKey DEF InHand, Taken
  <2> QED BY <2>1, <2>2, SameSettings
<1>3. CASE Signs!RemoveCredentials(s)
  <2>1. /\ home'.default = home.default /\ home'.creds = home.creds \ {shell[s].key}
        /\ home'.include = home.include /\ lines' = lines
    BY <1>3 DEF Signs!RemoveCredentials, Signs!Home, SignInv, SignTypes, Homes
  <2> QED BY <2>1, SameSettings
<1>4. CASE Signs!RemoveSigner(s)
  <2>1. PICK new : home' = [home EXCEPT !.signers = new]
    BY <1>4 DEF Signs!RemoveSigner, Signs!Home
  <2>2. /\ home'.default = home.default /\ home'.creds = home.creds /\ home'.include = home.include
        /\ lines' = lines
    BY <1>4, <2>1 DEF Signs!RemoveSigner, SignInv, SignTypes, Homes
  <2> QED BY <2>2, SameSettings
<1>5. CASE Signs!RemoveDirLine(s)
  <2>1. home' = home /\ shell[s].at = "dir"
    BY <1>5 DEF Signs!RemoveDirLine, Signs!Unset, Signs!In
  <2>2. /\ lines' \in LineSets /\ lines'.repo = lines.repo
        /\ lines'.dir = lines.dir \/ (lines.dir = shell[s].name /\ lines'.dir = Signs!None)
    BY <1>5 DEF Signs!RemoveDirLine, Signs!Unset, SignInv, SignTypes, LineSets, Signs!FileOrNone
  <2> QED BY <1>1, <2>1, <2>2, LinesKeep
<1>6. CASE Signs!RemoveRepoLine(s)
  <2>1. home' = home /\ shell[s].at = "repo"
    BY <1>6 DEF Signs!RemoveRepoLine, Signs!Unset, Signs!In
  <2>2. /\ lines' \in LineSets /\ lines'.dir = lines.dir
        /\ \A q \in Repos : \/ lines'.repo[q] = lines.repo[q]
                            \/ lines.repo[q] = shell[s].name /\ lines'.repo[q] = Signs!None
    BY <1>6 DEF Signs!RemoveRepoLine, Signs!Unset, SignInv, SignTypes, LineSets, Signs!FileOrNone
  <2> QED BY <1>1, <2>1, <2>2, LinesKeep
<1>7. CASE Signs!RemoveInclude(s)
  <2>1. /\ shell[s].at = "file" /\ shell[s].name \in Files
        /\ home'.default = home.default /\ home'.creds = home.creds
        /\ \A n \in Files : home'.include[n] =
             IF n = shell[s].name THEN Signs!None ELSE home.include[n]
    BY <1>7, RemoveIncludeEffect
  <2>2. home.include[shell[s].name] # k
    BY <1>1, <2>1, RemoverKnows, NoneIsNoKey DEF InHand, Taken
  <2>3. lines' = lines /\ lines' \in LineSets
    BY <1>7 DEF Signs!RemoveInclude, SignInv, SignTypes
  <2> QED BY <1>1, <2>1, <2>2, <2>3, LinesKeep
<1> QED BY <1>2, <1>3, <1>4, <1>5, <1>6, <1>7

(* Every step leaves to others what was not being set up beside it.         *)
LEMMA OthersStayStep == SignInv /\ Signs!Next => Signs!OthersStay
<1> SUFFICES ASSUME SignInv, Signs!Next PROVE Signs!OthersStay
  OBVIOUS
<1>1. home' = home /\ lines' = lines => Signs!OthersStay
  BY DEF Signs!OthersStay
<1>2. shell' = shell => Signs!OthersStay
  BY DEF Signs!OthersStay
<1>3. ASSUME NEW s \in Shells,
             \/ Signs!SaveConfig(s) \/ Signs!StoreCredentials(s) \/ Signs!WriteSigners(s)
             \/ Signs!SaveProfile(s) \/ Signs!WriteInclude(s)
      PROVE  Signs!OthersStay
  <2>1. Keeps(s)
    BY <1>3 DEF Signs!SaveConfig, Signs!StoreCredentials, Signs!WriteSigners, Signs!SaveProfile,
                Signs!WriteInclude, Signs!In, Keeps
  <2>2. \A t \in Shells \ {s} : shell'[t] = shell[t]
    BY <1>3 DEF Signs!SaveConfig, Signs!StoreCredentials, Signs!WriteSigners, Signs!SaveProfile,
                Signs!WriteInclude, Signs!Goes, SignInv, SignTypes
  <2> QED BY <2>1, <2>2, NobodyElseMoves
<1>4. ASSUME NEW s \in Shells,
             \/ Signs!RemoveConfig(s) \/ Signs!RemoveCredentials(s) \/ Signs!RemoveSigner(s)
             \/ Signs!RemoveDirLine(s) \/ Signs!RemoveRepoLine(s) \/ Signs!RemoveInclude(s)
      PROVE  Signs!OthersStay
  <2>1. \A t \in Shells \ {s} : shell'[t] = shell[t]
    BY <1>4 DEF Signs!RemoveConfig, Signs!RemoveCredentials, Signs!RemoveSigner,
                Signs!RemoveDirLine, Signs!RemoveRepoLine, Signs!RemoveInclude, Signs!Goes,
                SignInv, SignTypes
  <2> QED BY <1>4, <2>1, RemovalKeeps, NobodyElseMoves
<1>5. ASSUME NEW s \in Shells,
             \/ Signs!StartInit(s) \/ Signs!ReadSigners(s) \/ Signs!StartUninstall(s)
             \/ Signs!LookConfig(s) \/ Signs!LookInclude(s) \/ Signs!EndUninstall(s)
             \/ Signs!Fail(s) \/ Signs!Stop(s)
      PROVE  Signs!OthersStay
  <2>1. home' = home /\ lines' = lines
    BY <1>5 DEF Signs!StartInit, Signs!ReadSigners, Signs!StartUninstall, Signs!LookConfig,
                Signs!LookInclude, Signs!EndUninstall, Signs!Fail, Signs!Stop
  <2> QED BY <1>1, <2>1
<1>6. CASE \/ \E r \in Repos : Signs!EnableRepo(r) \/ Signs!DisableRepo(r)
           \/ Signs!EnableDir \/ Signs!DisableDir
           \/ Signs!Begin \/ Signs!Hook \/ Signs!Sign \/ Signs!Authenticate
  <2>1. shell' = shell
    BY <1>6 DEF Signs!EnableRepo, Signs!DisableRepo, Signs!EnableDir, Signs!DisableDir,
                Signs!Lines, Signs!Begin, Signs!Hook, Signs!Sign, Signs!Authenticate
  <2> QED BY <1>2, <2>1
<1> QED BY <1>3, <1>4, <1>5, <1>6 DEF Signs!Next

-----------------------------------------------------------------------------
(* All of it.                                                               *)
AllInv ==
  /\ part = "range" => IInv
  /\ part = "tokens" => BotInv
  /\ part = "documents" => DocInv
  /\ part = "session" => MeetInv
  /\ part = "answers" => AskInv
  /\ part = "signing" => SignInv

LEMMA AllInvInit == AllInit => AllInv
BY InitHolds, BotInvInit, DocInit, MeetInit, AskInit, SignInit DEF AllInit, AllInv

(* Nothing holds any less when nothing happens.                             *)
LEMMA StillTokens == BotInv /\ UNCHANGED <<holding, shared>> => BotInv'
BY DEF holding, shared, BotInv, BotKnown, Bots!TypeOK, LiveKnown, PendingKnown, ProcessKnown,
       RotationKnown, ExtrasCounted, Ahead, Unsaved, Extra, Bots!Ours, OnTheWay
LEMMA StillDocuments == DocInv /\ UNCHANGED <<documents, shared>> => DocInv'
BY DEF documents, shared, DocInv, Docs!TypeOK, JobsKnown, JobKnown, KeysKnown, PauseKnown, Timely
LEMMA StillMeeting == MeetInv /\ UNCHANGED <<meeting, shared>> => MeetInv'
BY DEF meeting, shared, MeetInv, MeetTypes, MeetPlanOK, AnswersKnown, FailureKnown, FramesKnown,
       LockKnown
LEMMA StillAsking == AskInv /\ UNCHANGED <<asking, shared>> => AskInv'
BY DEF asking, shared, AskInv, AskTypes, AskPlanOK, FoundKnown, HandKnown, InFlight, IdsKnown,
       MailKnown, WaitersKnown
LEMMA StillSigning == SignInv /\ UNCHANGED <<signing, shared>> => SignInv'
BY DEF signing, shared, SignInv, SignTypes, SignPlanOK, CommitKnown, Making, Now, RemovalsKnown,
       Undone, BesideKnown, InHand, Taken, ShellsKnown, SignersKnown

LEMMA AllInvNext == AllInv /\ [AllNext]_all => AllInv'
<1> SUFFICES ASSUME AllInv, [AllNext]_all PROVE AllInv'
  OBVIOUS
<1>1. CASE OfRange
  BY <1>1, NextHolds DEF AllInv, OfRange
<1>2. CASE OfAnswers /\ Answers!Next
  BY <1>2, AskInvStep DEF AllInv, OfAnswers
<1>3. CASE OfTokens /\ Bots!Next
  BY <1>3, BotInvStep DEF AllInv, OfTokens
<1>4. CASE OfSession /\ Meeting!Next
  BY <1>4, MeetInvStep DEF AllInv, OfSession
<1>5. CASE OfSigning /\ Signs!Next
  BY <1>5, SignInvStep DEF AllInv, OfSigning
<1>6. CASE OfDocuments /\ Docs!Next
  BY <1>6, DocInvStep DEF AllInv, OfDocuments
<1>7. CASE UNCHANGED all
  BY <1>7, NextHolds, StillTokens, StillDocuments, StillMeeting, StillAsking, StillSigning
  DEF AllInv, all
<1> QED BY <1>1, <1>2, <1>3, <1>4, <1>5, <1>6, <1>7 DEF AllNext

LEMMA AllInvAlways == AllSpec => []AllInv
BY AllInvInit, AllInvNext, PTL DEF AllSpec

(* Each part's state always has its type.                                   *)
THEOREM TypesAreKept == AllSpec => []TypesOK
<1>1. AllInv => TypesOK
  BY BotIsSafe, DocsAreSafe, MeetingIsSafe, AnswersAreSafe, SigningIsSafe
  DEF AllInv, TypesOK, IInv
<1> QED BY AllInvAlways, <1>1, PTL

(* A signer is believed on the registry's word alone: an answer is taken by *)
(* the one query it answers, only the registry denies, and what fails, is   *)
(* late, astray or from another never counts (registry_channel.rs and       *)
(* verify-trust's session with its mediator).                               *)
THEOREM OnTheirWordAlone == AllSpec => []OnTheRegistrysWord
<1>1. AllInv => OnTheRegistrysWord
  BY MeetingIsSafe, AnswersAreSafe DEF AllInv, OnTheRegistrysWord
<1> QED BY AllInvAlways, <1>1, PTL

(* The bot never loses the token it acts with, only what it replaced is     *)
(* revoked, and every live token nobody knows of was paid for by a fault    *)
(* (rotate_bot_token).                                                      *)
THEOREM TheBotKeepsItsToken == AllSpec => []BotKeepsItsToken
<1>1. AllInv => BotKeepsItsToken
  BY BotIsSafe DEF AllInv, BotKeepsItsToken
<1> QED BY AllInvAlways, <1>1, PTL

(* A commit is signed as the person chose, by an identity of the claimed    *)
(* DID, the hook and the signer agree while nothing changes, a removed      *)
(* identity stays removed and whoever has credentials is an allowed signer  *)
(* (did-git-sign's init, enable, disable, uninstall and signer).            *)
THEOREM SignedAsChosen == AllSpec => []SigningIsAsChosen
<1>1. AllInv => SigningIsAsChosen
  BY SigningIsSafe DEF AllInv, SigningIsAsChosen
<1> QED BY AllInvAlways, <1>1, PTL

(* A job acts once, however often and late its documents come, and a key    *)
(* the VTC dropped is believed no longer than a resolved document is        *)
(* (DocChecker and the ledger it asks).                                     *)
THEOREM DocumentsActOnlyOnce == AllSpec => []DocumentsActOnce
<1>1. AllInv => DocumentsActOnce
  BY DocsAreSafe DEF AllInv, DocumentsActOnce
<1> QED BY AllInvAlways, <1>1, PTL

(* A check whose query failed asks no more, a removal changes nothing of    *)
(* another identity's, and a document under the VTC's current key is turned *)
(* away for its proof only shortly after a key was resolved anew, or when   *)
(* none could be had (registry_channel.rs, init.rs, wire.rs).               *)
THEOREM NoStepGoesTooFar == AllSpec => NoStepTooFar
<1>1. AllInv /\ [AllNext]_all =>
        [/\ part = "answers" => Answers!AsksNoMore
         /\ part = "signing" => Signs!OthersStay
         /\ part = "documents" => Docs!HeardOrSoon]_all
  <2> SUFFICES ASSUME AllInv, AllNext
               PROVE  /\ part = "answers" => Answers!AsksNoMore
                      /\ part = "signing" => Signs!OthersStay
                      /\ part = "documents" => Docs!HeardOrSoon
    OBVIOUS
  <2>1. part = "answers" => AskInv /\ Answers!Next
    BY DEF AllInv, AllNext, OfRange, OfTokens, OfSession, OfSigning, OfDocuments
  <2>2. part = "signing" => SignInv /\ Signs!Next
    BY DEF AllInv, AllNext, OfRange, OfTokens, OfSession, OfAnswers, OfDocuments
  <2>3. part = "documents" => DocInv /\ Docs!Next
    BY DEF AllInv, AllNext, OfRange, OfTokens, OfSession, OfSigning, OfAnswers
  <2> QED BY <2>1, <2>2, <2>3, NoMoreStep, OthersStayStep, HearingStep
<1> QED BY AllInvAlways, <1>1, PTL DEF AllSpec, NoStepTooFar
=============================================================================
