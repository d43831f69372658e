------------------------------- MODULE MCTrust -------------------------------
(* Whom the checks believe, and who acts and signs, on small instances: a   *)
(* behaviour is of one part.  `range' is of TrustRange, `answers' of        *)
(* RegistryAnswers, `session' of RunSession, `tokens', of the credential    *)
(* the bridge acts with, of BotTokens, `signing' of Signing and `documents' *)
(* of Documents.                                                            *)
EXTENDS TrustRange, DocumentTimes, TLC

CONSTANTS
  base, away, d1, d2, d3, k1, k2, c1, c2,   \* what the instances below are made of
  Parts,                                    \* the parts that behaviours are of
  Signers, Checks, MaxIds, AnswerPlans,     \* of RegistryAnswers
  MaxTokens, BotPlans,                      \* of BotTokens
  Queries, SessionPlans,                    \* of RunSession
  Identities, DidOf, Files, Repos, Shells, SignPlans,   \* of Signing
  First, MaxTime, MaxDocs, DocPlans         \* of Documents

VARIABLES part, registry, checks, pending, handing, mail, jobs, live, made, kept, run,
          kind, holder, session, query, mailbox, asked, home, lines, shell, commit,
          now, vtc, sent, resolver, ledger, doing, told, past, plan, count

asking == <<registry, checks, pending, handing, mail, jobs>>
holding == <<live, made, kept, run>>
meeting == <<kind, holder, session, query, mailbox, asked>>
signing == <<home, lines, shell, commit>>
documents == <<now, vtc, sent, resolver, ledger, doing, told>>
shared == <<past, plan, count>>
all == <<part, vars, asking, holding, meeting, signing, documents, shared>>

-----------------------------------------------------------------------------
(* Three commits: one of every kind, what may be said of it by one after    *)
(* it, and a merge of the two.                                              *)
Lists == (d1 :> {k1}) @@ (d2 :> {k2}) @@ (d3 :> {})

Ssh(key, names) == [armor |-> "ssh", holds |-> TRUE, key |-> key, names |-> names]
Pgp(key) == [armor |-> "pgp", holds |-> TRUE, key |-> key, names |-> {}]
By(sign) == [sign |-> sign, parents |-> <<base>>, tree |-> "other"]
Merge(parents, tree) == [sign |-> Pgp("exempt"), parents |-> parents, tree |-> tree]

FirstCommits ==
  {By(s) : s \in {Ssh(k1, {d1}), Ssh(k2, {d2}), Ssh(k2, {d1}), Ssh(k1, {d1, d2}),
                  Ssh(k1, {}), Ssh(k1, {d3}), [Ssh(k1, {d1}) EXCEPT !.holds = FALSE],
                  [Ssh(k1, {d1}) EXCEPT !.armor = "none"],
                  [Ssh(k1, {d1}) EXCEPT !.armor = "cut"], Pgp(k1), Pgp("exempt")}}
    \cup {Merge(<<base, base>>, "merge"), Merge(<<base, away>>, "merge")}
SecondCommits ==
  {By(Ssh(k2, {d2})), Merge(<<1>>, "merge"), Merge(<<1, base, base>>, "merge")}
    \cup {Merge(<<1, base>>, t) : t \in Trees}
    \cup {Merge(<<base, 1>>, "merge"), Merge(<<1, away>>, "merge")}
ThirdCommits ==
  {By(Ssh(k1, {d3})), By(Ssh(k2, {d2}))}
    \cup {Merge(<<1, 2>>, t) : t \in {"merge", "other"}}
    \cup {Merge(<<2, base>>, "merge"), Merge(<<2, 1>>, "merge")}
SomeRanges ==
  {1 :> x @@ 2 :> y @@ 3 :> z : x \in FirstCommits, y \in SecondCommits, z \in ThirdCommits}

-----------------------------------------------------------------------------
AnswerMoves == {"change", "again", "astray", "stray", "job", "lose", "down", "early", "abort"}
Asks(first, second, some) ==
  [asks |-> (c1 :> first) @@ (c2 :> second),
   vias |-> {"tsp"},
   moves |-> [m \in AnswerMoves |-> IF m \in some THEN 1 ELSE 0]]
SomeAnswerPlans == {
  Asks({d1, d2}, {}, {"change", "early"}),
  Asks({d1, d2}, {}, {"down", "again"}),
  Asks({d1}, {d1}, {"early"}),
  Asks({d1}, {d2}, {"abort", "job"}),
  Asks({d1}, {}, {"astray", "again", "lose", "change"}),
  Asks({d1}, {}, {"stray", "change"})}
Answers == INSTANCE RegistryAnswers WITH Plans <- AnswerPlans

-----------------------------------------------------------------------------
Bot(mode, tail, times) ==
  [mode |-> mode, tail |-> tail,
   events |-> [e \in {"crash", "tick", "set", "refused", "lost", "unlike", "unstored", "slow",
                      "stays"} |-> IF e \in DOMAIN times THEN times[e] ELSE 0]]
Apart == [t \in 1..9 |-> t]
Twins == [t \in 1..9 |-> IF t = 2 THEN 1 ELSE t]
SomeBotPlans == {
  Bot("file", Apart, [tick |-> 2, crash |-> 1, unstored |-> 1, refused |-> 1]),
  Bot("file", Twins, [tick |-> 2, set |-> 1, crash |-> 1, stays |-> 1]),
  Bot("vta", Apart, [tick |-> 2, slow |-> 1, crash |-> 2, unlike |-> 1]),
  Bot("vta", Twins, [tick |-> 3, set |-> 1, lost |-> 1, crash |-> 1])}
Bots == INSTANCE BotTokens WITH Plans <- BotPlans

-----------------------------------------------------------------------------
Meets(selector, offers, some) ==
  [selector |-> selector, offers |-> offers,
   events |-> [e \in {"fails", "foreign", "again", "refuses", "lost"} |->
                 IF e \in some THEN 1 ELSE 0]]
Every == {<<"tsp", "did">>, <<"didcomm", "did">>, <<"https", "url">>}
SomeSessionPlans == {
  Meets("auto", Every, {"fails", "again", "refuses"}),
  Meets("auto", Every, {"foreign", "lost"}),
  Meets("auto", {<<"tsp", "url">>, <<"didcomm", "did">>}, {"fails", "again", "refuses"}),
  Meets("didcomm", Every, {"foreign", "again", "refuses"}),
  Meets("tsp", {<<"https", "url">>}, {"fails"})}
Meeting == INSTANCE RunSession WITH Plans <- SessionPlans

-----------------------------------------------------------------------------
Does(times) ==
  [c \in {"init", "uninstall", "enable", "enabledir", "disable", "disabledir", "commit",
          "stop", "fail"} |-> IF c \in DOMAIN times THEN times[c] ELSE 0]
SomeSignPlans == {
  Does([init |-> 1, enable |-> 1, uninstall |-> 1, commit |-> 1]),
  Does([init |-> 2, enable |-> 1, commit |-> 1]),
  Does([init |-> 1, enable |-> 1, enabledir |-> 1, disable |-> 1, disabledir |-> 1,
        commit |-> 1]),
  Does([init |-> 2, uninstall |-> 1, stop |-> 1]),
  Does([init |-> 1, enable |-> 1, uninstall |-> 1, fail |-> 1]),
  Does([init |-> 1, uninstall |-> 2]),
  Does([init |-> 2, enable |-> 1, uninstall |-> 1])}
OwnDids == (k1 :> d1) @@ (k2 :> d2)
Signs == INSTANCE Signing WITH Keys <- Identities, Plans <- SignPlans

-----------------------------------------------------------------------------
Arrive(some) ==
  [m \in {"rotate", "old", "down", "crash"} |-> IF m \in some THEN 1 ELSE 0]
SomeDocPlans == {Arrive({}), Arrive({"rotate", "old"}), Arrive({"rotate", "down"}), Arrive({"crash"})}
Docs == INSTANCE Documents WITH Plans <- DocPlans

-----------------------------------------------------------------------------
(* What the parts' constants are.                                           *)
ASSUME AnswersAssumption ==
  /\ MaxIds \in Nat /\ 0 \notin Signers
  /\ AnswerPlans \subseteq
       [asks : [Checks -> SUBSET Signers], vias : SUBSET Answers!Vias,
        moves : [Answers!Moves -> Nat]]
ASSUME TokensAssumption ==
  /\ MaxTokens \in Nat /\ MaxTokens >= 2
  /\ BotPlans \subseteq
       [mode : {"file", "vta"}, tail : [Bots!Tokens -> Nat], events : [Bots!Events -> Nat]]
ASSUME SessionAssumption ==
  /\ {"none", "invite"} \cap Queries = {}
  /\ SessionPlans \subseteq
       [selector : Meeting!Kinds \cup {"auto"},
        offers : SUBSET (Meeting!Kinds \X {"did", "url"}), events : [Meeting!Events -> Nat]]
ASSUME SigningAssumption ==
  /\ "default" \in Files
  /\ "none" \notin Identities \cup Files \cup Repos \cup Signs!ClaimedDids
  /\ SignPlans \subseteq [Signs!Commands -> Nat]
ASSUME DocumentsAssumption ==
  /\ First \in VtcKeys /\ MaxTime \in Nat /\ MaxDocs \in Nat
  /\ DocPlans \subseteq [Docs!Moves -> Nat]

-----------------------------------------------------------------------------
NoRange == range = 0 /\ decides = 0 /\ status = 0 /\ undecided = 0 /\ at = "refused"
NoAsking == registry = 0 /\ checks = 0 /\ pending = 0 /\ handing = 0 /\ mail = 0 /\ jobs = 0
NoHolding == live = 0 /\ made = 0 /\ kept = 0 /\ run = 0
NoMeeting == kind = 0 /\ holder = 0 /\ session = 0 /\ query = 0 /\ mailbox = 0 /\ asked = 0
NoSigning == home = 0 /\ lines = 0 /\ shell = 0 /\ commit = 0
NoDocuments ==
  now = 0 /\ vtc = 0 /\ sent = 0 /\ resolver = 0 /\ ledger = 0 /\ doing = 0 /\ told = 0
Others(p) ==
  /\ p # "range" => NoRange
  /\ p # "answers" => NoAsking
  /\ p # "tokens" => NoHolding
  /\ p # "session" => NoMeeting
  /\ p # "signing" => NoSigning
  /\ p # "documents" => NoDocuments
AllInit ==
  /\ part \in Parts
  /\ \/ part = "range" /\ Init /\ past = 0 /\ plan = 0 /\ count = 0
     \/ part = "answers" /\ Answers!Init
     \/ part = "tokens" /\ Bots!Init
     \/ part = "session" /\ Meeting!Init
     \/ part = "signing" /\ Signs!Init
     \/ part = "documents" /\ Docs!Init /\ past = 0
  /\ Others(part)

OfRange ==
  part = "range" /\ Next
    /\ UNCHANGED <<part, asking, holding, meeting, signing, documents, shared>>
OfAnswers ==
  part = "answers" /\ UNCHANGED <<part, vars, holding, meeting, signing, documents>>
OfTokens ==
  part = "tokens" /\ UNCHANGED <<part, vars, asking, meeting, signing, documents>>
OfSession ==
  part = "session" /\ UNCHANGED <<part, vars, asking, holding, signing, documents>>
OfSigning ==
  part = "signing" /\ UNCHANGED <<part, vars, asking, holding, meeting, documents>>
OfDocuments ==
  part = "documents" /\ UNCHANGED <<part, vars, asking, holding, meeting, signing, past>>
AllNext ==
  \/ OfRange
  \/ OfAnswers /\ Answers!Next
  \/ OfTokens /\ Bots!Next
  \/ OfSession /\ Meeting!Next
  \/ OfSigning /\ Signs!Next
  \/ OfDocuments /\ Docs!Next

AllSpec ==
  /\ AllInit /\ [][AllNext]_all
  /\ WF_all(OfRange)
  /\ WF_all(OfAnswers /\ Answers!Work)
  /\ WF_all(OfTokens /\ Bots!Work)
  /\ WF_all(OfSession /\ Meeting!Run)

-----------------------------------------------------------------------------
TypesOK ==
  /\ part = "range" => TypeOK
  /\ part = "answers" => Answers!TypeOK
  /\ part = "tokens" => Bots!TypeOK
  /\ part = "session" => Meeting!TypeOK
  /\ part = "signing" => Signs!TypeOK
  /\ part = "documents" => Docs!TypeOK

(* Each conjunct is the property of that name in its module.                *)

(* A signer is believed on the registry's word alone: an answer is taken by *)
(* the one query it answers, only the registry denies, and what fails, is   *)
(* late, astray or from another never counts (registry_channel.rs and       *)
(* verify-trust's session with its mediator).                               *)
OnTheRegistrysWord ==
  /\ part = "answers" =>
       /\ Answers!FailsClosed /\ Answers!OnlyTheRegistryDenies
       /\ Answers!AnswersAreItsOwn /\ Answers!OnlyRepliesAreTaken
       /\ Answers!PromptIsTaken /\ Answers!NoneIsLeft
  /\ part = "session" =>
       /\ Meeting!BelievesTheRegistry /\ Meeting!OnlyTheirNoEnds
       /\ Meeting!AcceptedFirst /\ Meeting!WaitsOnceInVain
       /\ Meeting!NoKeysLeft

(* The bot never loses the token it acts with, and only what it replaced is *)
(* revoked, so that what is left alive is what faults left                  *)
(* (rotate_bot_token, the note of the previous one and the flush between).  *)
BotKeepsItsToken ==
  part = "tokens" => Bots!NeverDead /\ Bots!OnlyReplaced /\ Bots!ExtrasAreFaults

(* A commit is signed as the person chose for that directory, by an identity*)
(* that allowed_signers knows, and nothing of a removed one is left (init,  *)
(* enable, disable, uninstall and the signer that reads what they wrote).   *)
SigningIsAsChosen ==
  part = "signing" =>
    /\ Signs!SignsAsSelected /\ Signs!HookAndSignerAgree
    /\ Signs!RemovedIsGone /\ Signs!SignersAreKnown

(* A job acts once, however often and late its documents come, and a key    *)
(* the VTC dropped is believed no longer than a resolved document is        *)
(* (DocChecker, what it caches and the ledger it asks).                     *)
DocumentsActOnce ==
  part = "documents" => Docs!ActsOnce /\ Docs!DroppedIsForgotten

(* A check asks no more once it has its answer; did-git-sign's uninstall    *)
(* takes nothing from an identity that was not being set up beside it; a    *)
(* new key of the VTC's is heard at once, or soon.                          *)
NoStepTooFar ==
  [][/\ part = "answers" => Answers!AsksNoMore
     /\ part = "signing" => Signs!OthersStay
     /\ part = "documents" => Docs!HeardOrSoon]_all

(* All comes to an end: the range is decided, every check and every query   *)
(* ends, over answers that never come, and a token that is due is rotated.  *)
TrustEnds ==
  /\ Settles
  /\ []<>(part = "answers" => \A c \in Checks : Answers!Ended(c))
  /\ []<>(part = "tokens" => run.clock # "due")
  /\ []<>(part = "session" /\ kind \in Meeting!Mediated
             => \A q \in Queries : query[q] # "new")
=============================================================================
