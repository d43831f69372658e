------------------------------- MODULE Signing -------------------------------
(***************************************************************************)
(* did-git-sign on one machine: the identities that `init' sets up and      *)
(* `uninstall' removes, the lines by which `enable' and `disable' make      *)
(* repositories sign with them, and a commit, whose commit-msg hook writes  *)
(* the claim and whose signer, a process of its own, picks the key.         *)
(*                                                                          *)
(* Commands run side by side, in several shells, under no lock; each file   *)
(* is read and written in a step of its own, and any command may be stopped *)
(* between two.                                                             *)
(***************************************************************************)
EXTENDS Naturals, FiniteSets

CONSTANTS Keys,      \* signing identities: did:...#key-N
          DidOf,     \* the DID of each
          Files,     \* include files: a profile's, or "default"
          Repos,     \* repositories, all of them under one directory
          Shells,    \* where commands run
          Plans      \* how often each command may run in a behaviour

None == "none"
Commands == {"init", "uninstall", "enable", "enabledir", "disable", "disabledir", "commit",
             "stop", "fail"}
ClaimedDids == {DidOf[k] : k \in Keys}
KeyOrNone == Keys \cup {None}
FileOrNone == Files \cup {None}

VARIABLES
  home,     \* did-git-sign's files and the keyring
  lines,    \* the include line of each repository, and the directory's
  shell,    \* the command of each shell
  commit,   \* the commit being made
  past,     \* history: keys last removed and not set up since, whether commands
            \*   overlapped or were cut short, and whether lines or identities
            \*   changed under a commit
  plan, count

vars == <<home, lines, shell, commit, past, plan, count>>

(* Of an uninstall: the files it has yet to look at, the keys that were     *)
(* being set up beside it, and whether a step of it failed.                 *)
Idle == [does |-> "none", at |-> "done", key |-> None, name |-> None, makes |-> FALSE,
         read |-> {}, repo |-> None, todo |-> {}, beside |-> {}, failed |-> FALSE]
NoCommit == [at |-> "none", repo |-> None, env |-> None, claim |-> None, key |-> None,
             own |-> FALSE, seen |-> {}]

TypeOK ==
  /\ plan \in [Commands -> Nat]
  /\ home \in [default : KeyOrNone, creds : SUBSET Keys, signers : SUBSET Keys,
               hooks : BOOLEAN, profile : [Files -> KeyOrNone], include : [Files -> KeyOrNone]]
  /\ lines \in [repo : [Repos -> FileOrNone], dir : FileOrNone]
  /\ \A s \in Shells : shell[s] \in
       [does : {"none", "init", "uninstall"},
        at : {"done", "config", "unset", "creds", "read", "write", "profile", "include",
              "dir", "repo", "file"},
        key : KeyOrNone, name : FileOrNone, makes : BOOLEAN, read : SUBSET Keys,
        repo : Repos \cup {None}, todo : SUBSET Files, beside : SUBSET Keys, failed : BOOLEAN]
  /\ commit \in [at : {"none", "hook", "sign", "auth", "signed", "mismatch", "refused"},
                 repo : Repos \cup {None}, env : KeyOrNone, claim : ClaimedDids \cup {None},
                 key : KeyOrNone, own : BOOLEAN, seen : SUBSET KeyOrNone]
  /\ past \in [gone : SUBSET Keys, overlap : BOOLEAN, changed : BOOLEAN]

Init ==
  /\ plan \in Plans /\ count = [c \in Commands |-> 0]
  /\ home = [default |-> None, creds |-> {}, signers |-> {}, hooks |-> FALSE,
             profile |-> [n \in Files |-> None], include |-> [n \in Files |-> None]]
  /\ lines = [repo |-> [r \in Repos |-> None], dir |-> None]
  /\ shell = [s \in Shells |-> Idle]
  /\ commit = NoCommit
  /\ past = [gone |-> {}, overlap |-> FALSE, changed |-> FALSE]

Quiet == UNCHANGED <<plan, count>>
Runs(c) ==
  /\ count[c] < plan[c]
  /\ count' = [count EXCEPT ![c] = @ + 1]
  /\ UNCHANGED plan

(* Whom a repository signs as: git reads the directory's line, and then the *)
(* repository's, and passes over an include that is not there.              *)
Effective(h, l, r) ==
  LET of(n) == IF n = None THEN None ELSE h.include[n] IN
  IF of(l.repo[r]) # None THEN of(l.repo[r]) ELSE of(l.dir)

(* A commit sees every setting that holds while it is made.                 *)
Settle(h, l) ==
  IF commit.at \in {"hook", "sign", "auth"}
  THEN /\ commit' = [commit EXCEPT !.seen = @ \cup {Effective(h, l, commit.repo), h.default}]
       /\ past' = [past EXCEPT !.changed = TRUE]
  ELSE UNCHANGED <<commit, past>>

-----------------------------------------------------------------------------
(* init: beside the default, if there is one and the profile is not to be it.*)
StartInit(s) ==
  /\ shell[s] = Idle /\ Runs("init")
  /\ \E k \in Keys, n \in Files, makes \in BOOLEAN :
       LET beside == n # "default" /\ ~makes /\ home.default # None IN
       /\ n = "default" => makes
       /\ shell' = [t \in Shells |->
            IF t = s
            THEN [Idle EXCEPT !.does = "init", !.key = k, !.name = n, !.makes = makes,
                              !.at = IF beside THEN "creds" ELSE "config"]
            ELSE IF shell[t].does = "uninstall" THEN [shell[t] EXCEPT !.beside = @ \cup {k}]
            ELSE shell[t]]
       /\ past' = [past EXCEPT !.gone = @ \ {k},
                               !.overlap = @ \/ \E t \in Shells \ {s} : shell[t] # Idle]
  /\ UNCHANGED <<home, lines, commit>>

Goes(s, step) == shell' = [shell EXCEPT ![s].at = step]
In(s, does, step) == shell[s].does = does /\ shell[s].at = step
Home(h) == home' = h /\ Settle(h, lines)

SaveConfig(s) ==
  /\ In(s, "init", "config") /\ Quiet
  /\ Home([home EXCEPT !.default = shell[s].key])
  /\ Goes(s, "creds") /\ UNCHANGED lines
StoreCredentials(s) ==
  /\ In(s, "init", "creds") /\ Quiet
  /\ Home([home EXCEPT !.creds = @ \cup {shell[s].key}])
  /\ Goes(s, "read") /\ UNCHANGED lines
(* allowed_signers is read, and later written whole.                        *)
ReadSigners(s) ==
  /\ shell[s].at = "read" /\ Quiet
  /\ shell' = [shell EXCEPT ![s].at = "write", ![s].read = home.signers]
  /\ UNCHANGED <<home, lines, commit, past>>
AppendedAlone(k) == {k.key}
Appended(k) == k.read \cup {k.key}
WriteSigners(s) ==
  /\ In(s, "init", "write") /\ Quiet
  /\ Home([home EXCEPT !.signers = Appended(shell[s]), !.hooks = TRUE])
  /\ Goes(s, IF shell[s].name = "default" THEN "include" ELSE "profile")
  /\ UNCHANGED lines
SaveProfile(s) ==
  /\ In(s, "init", "profile") /\ Quiet
  /\ Home([home EXCEPT !.profile[shell[s].name] = shell[s].key])
  /\ Goes(s, "include") /\ UNCHANGED lines
WriteInclude(s) ==
  /\ In(s, "init", "include") /\ Quiet
  /\ Home([home EXCEPT !.include[shell[s].name] = shell[s].key])
  /\ shell' = [shell EXCEPT ![s] = Idle] /\ UNCHANGED lines

-----------------------------------------------------------------------------
(* uninstall, run in a repository: of one identity, step by step.  What it  *)
(* looked at may be another's by the time that it is removed.               *)
StartUninstall(s) ==
  /\ shell[s] = Idle /\ Runs("uninstall")
  /\ \E k \in Keys, r \in Repos :
       shell' = [shell EXCEPT ![s] =
         [Idle EXCEPT !.does = "uninstall", !.key = k, !.repo = r, !.at = "config",
            !.todo = Files,
            !.beside = {shell[t].key : t \in {u \in Shells : shell[u].does = "init"}}]]
  /\ past' = [past EXCEPT !.overlap = @ \/ \E t \in Shells \ {s} : shell[t] # Idle]
  /\ UNCHANGED <<home, lines, commit>>

(* Mistake: whatever is there is taken for its own.                         *)
OursAny(of, k) == of # None
Ours(of, k) == of = k.key
LookConfig(s) ==
  /\ In(s, "uninstall", "config") /\ Quiet
  /\ Goes(s, IF Ours(home.default, shell[s]) THEN "unset" ELSE "creds")
  /\ UNCHANGED <<home, lines, commit, past>>
RemoveConfig(s) ==
  /\ In(s, "uninstall", "unset") /\ Quiet
  /\ Home([home EXCEPT !.default = None])
  /\ Goes(s, "creds") /\ UNCHANGED lines
RemoveCredentials(s) ==
  /\ In(s, "uninstall", "creds") /\ Quiet
  /\ Home([home EXCEPT !.creds = @ \ {shell[s].key}])
  /\ Goes(s, "read") /\ UNCHANGED lines
RemoveSigner(s) ==
  /\ In(s, "uninstall", "write") /\ Quiet
  /\ Home([home EXCEPT !.signers =
             IF shell[s].key \in shell[s].read THEN shell[s].read \ {shell[s].key} ELSE @])
  /\ Goes(s, "include") /\ UNCHANGED lines

(* Include file by include file, in any order: whose it is, the lines that  *)
(* name it (the global ones, and those of the repository it runs in), and   *)
(* then the file.                                                           *)
LookInclude(s) ==
  /\ In(s, "uninstall", "include") /\ Quiet
  /\ \E n \in shell[s].todo :
       LET left == [shell[s] EXCEPT !.todo = @ \ {n}] IN
       shell' = [shell EXCEPT ![s] =
         IF Ours(home.include[n], shell[s]) THEN [left EXCEPT !.name = n, !.at = "dir"] ELSE left]
  /\ UNCHANGED <<home, lines, commit, past>>
Unset(l) == lines' = l /\ Settle(home, l) /\ UNCHANGED home
RemoveDirLine(s) ==
  /\ In(s, "uninstall", "dir") /\ Quiet
  /\ Unset([lines EXCEPT !.dir = IF @ = shell[s].name THEN None ELSE @])
  /\ Goes(s, "repo")
RemoveRepoLine(s) ==
  /\ In(s, "uninstall", "repo") /\ Quiet
  /\ Unset([lines EXCEPT !.repo[shell[s].repo] = IF @ = shell[s].name THEN None ELSE @])
  /\ Goes(s, "file")
RemoveInclude(s) ==
  /\ In(s, "uninstall", "file") /\ Quiet
  /\ Home([home EXCEPT !.include[shell[s].name] = None])
  /\ shell' = [shell EXCEPT ![s].at = "include", ![s].name = None]
  /\ UNCHANGED lines
(* Nothing failed, and nobody set its identity up beside it.                *)
Whole(k) == ~k.failed /\ k.key \notin k.beside
EndUninstall(s) ==
  /\ In(s, "uninstall", "include") /\ shell[s].todo = {} /\ Quiet
  /\ shell' = [shell EXCEPT ![s] = Idle]
  /\ past' = [past EXCEPT !.gone = IF Whole(shell[s]) THEN @ \cup {shell[s].key} ELSE @]
  /\ UNCHANGED <<home, lines, commit>>

(* A step that fails leaves a warning, or nothing, and the next one follows;*)
(* a file that cannot be read is not taken for its own.                     *)
NextStep(step) ==
  CASE step \in {"config", "unset"} -> "creds"
    [] step = "creds" -> "read"
    [] step \in {"read", "write", "include", "file"} -> "include"
    [] step = "dir" -> "repo"
    [] step = "repo" -> "file"
Fail(s) ==
  /\ shell[s].does = "uninstall" /\ Runs("fail")
  /\ \E seen \in SUBSET shell[s].todo :
       /\ Cardinality(seen) = IF shell[s].at = "include" THEN 1 ELSE 0
       /\ shell' = [shell EXCEPT ![s].at = NextStep(@), ![s].todo = @ \ seen,
                                 ![s].failed = TRUE]
  /\ past' = [past EXCEPT !.overlap = TRUE]
  /\ UNCHANGED <<home, lines, commit>>

(* Stopped by the user, or by an error.                                     *)
Stop(s) ==
  /\ shell[s] # Idle /\ Runs("stop")
  /\ shell' = [shell EXCEPT ![s] = Idle]
  /\ past' = [past EXCEPT !.overlap = TRUE]
  /\ UNCHANGED <<home, lines, commit>>

-----------------------------------------------------------------------------
(* enable and disable.                                                      *)

Profiles == {n \in Files \ {"default"} : home.profile[n] # None}
(* The profile named, else the default, else the only profile, if its       *)
(* identity has its credentials.                                            *)
IncludeFor ==
  {n \in Profiles \cup {"default"} : home.include[n] \in home.creds}

Lines(l) == lines' = l /\ Settle(home, l) /\ UNCHANGED <<home, shell>>
EnableRepo(r) ==
  /\ Runs("enable")
  /\ \E n \in IncludeFor : Lines([lines EXCEPT !.repo[r] = n])
EnableDir ==
  /\ Runs("enabledir")
  /\ \E n \in IncludeFor : Lines([lines EXCEPT !.dir = n])
DisableRepo(r) ==
  /\ lines.repo[r] # None /\ Runs("disable")
  /\ Lines([lines EXCEPT !.repo[r] = None])
DisableDir ==
  /\ lines.dir # None /\ Runs("disabledir")
  /\ Lines([lines EXCEPT !.dir = None])

-----------------------------------------------------------------------------
(* A commit in a repository that signs, maybe with an identity named in its *)
(* environment, maybe with the claim of the commit that it amends.          *)
Begin ==
  /\ commit.at \in {"none", "signed", "mismatch", "refused"} /\ Runs("commit")
  /\ \E r \in Repos, e \in KeyOrNone, t \in ClaimedDids \cup {None} :
       /\ Effective(home, lines, r) # None
       /\ commit' = [NoCommit EXCEPT !.at = "hook", !.repo = r, !.env = e, !.claim = t,
                                     !.own = t # None,
                                     !.seen = {Effective(home, lines, r), home.default}]
  /\ past' = [past EXCEPT !.changed = \E s \in Shells : shell[s] # Idle]
  /\ UNCHANGED <<home, lines, shell>>

Selected == Effective(home, lines, commit.repo)
Pick == IF commit.env # None THEN commit.env ELSE Selected
Hook ==
  /\ commit.at = "hook" /\ Quiet
  /\ commit' = [commit EXCEPT !.at = "sign",
                              !.claim = IF @ = None /\ home.hooks /\ Pick # None
                                           /\ Selected # None
                                        THEN DidOf[Pick] ELSE @]
  /\ UNCHANGED <<home, lines, shell, past>>

(* The signer: the environment, the repository's setting, the default.      *)
SelectAgain == IF Selected # None THEN Selected ELSE home.default
SelectKey == IF commit.env # None THEN commit.env ELSE SelectAgain
ClaimMatches(c, k) == c.claim = DidOf[k]
NeedsCredentials(k) == k # home.default => k \in home.creds
Sign ==
  /\ commit.at = "sign" /\ Quiet
  /\ commit' =
       IF home.default = None \/ ~NeedsCredentials(SelectKey) \/ commit.claim = None
       THEN [commit EXCEPT !.at = "refused"]
       ELSE IF ~ClaimMatches(commit, SelectKey) THEN [commit EXCEPT !.at = "mismatch"]
       ELSE [commit EXCEPT !.at = "auth", !.key = SelectKey]
  /\ UNCHANGED <<home, lines, shell, past>>

(* The VTA signs, or the key is fetched from it, or neither.                *)
Authenticate ==
  /\ commit.at = "auth" /\ Quiet
  /\ \E answers \in BOOLEAN :
       commit' = [commit EXCEPT !.at = IF answers /\ commit.key \in home.creds
                                       THEN "signed" ELSE "refused"]
  /\ UNCHANGED <<home, lines, shell, past>>

-----------------------------------------------------------------------------
Next ==
  \/ \E s \in Shells :
       \/ StartInit(s) \/ SaveConfig(s) \/ StoreCredentials(s) \/ ReadSigners(s)
       \/ WriteSigners(s) \/ SaveProfile(s) \/ WriteInclude(s)
       \/ StartUninstall(s) \/ LookConfig(s) \/ RemoveConfig(s)
       \/ RemoveCredentials(s) \/ RemoveSigner(s) \/ LookInclude(s)
       \/ RemoveDirLine(s) \/ RemoveRepoLine(s) \/ RemoveInclude(s)
       \/ EndUninstall(s) \/ Fail(s) \/ Stop(s)
  \/ \E r \in Repos : EnableRepo(r) \/ DisableRepo(r)
  \/ EnableDir \/ DisableDir
  \/ Begin \/ Hook \/ Sign \/ Authenticate

Spec == Init /\ [][Next]_vars

-----------------------------------------------------------------------------
(* A commit is signed by a key of the DID it claims, and of a persona that  *)
(* was selected: the one in the environment, or one that this repository's  *)
(* settings or the default named while the commit was made.  The hook and   *)
(* the signer read the selection at two moments (sign.rs:226, 358).         *)
SignsAsSelected ==
  commit.at = "signed" =>
    /\ commit.claim = DidOf[commit.key]
    /\ IF commit.env # None THEN commit.key = commit.env ELSE commit.key \in commit.seen

(* The hook writes what the signer checks: a commit with no claim of its    *)
(* own, under which nothing changed, is never refused for its claim         *)
(* (init.rs:534-537).                                                       *)
HookAndSignerAgree == commit.at = "mismatch" => commit.own \/ past.changed

(* An identity removed, with no step of the removal failing, and not set up *)
(* again signs nowhere and is nobody's default (init.rs:138-144), whatever  *)
(* else ran beside the removal.                                             *)
RemovedIsGone ==
  \A k \in past.gone :
    k \notin home.creds /\ home.default # k /\ \A n \in Files : home.include[n] # k

(* Removing one identity takes nothing from another, the default, its       *)
(* credentials, its include files or the repositories that sign as it, but  *)
(* from one that was being set up beside the removal: uninstall looks whose *)
(* a file is before it removes it, and nobody holds a lock                  *)
(* (init.rs:154-173, 213-228).                                              *)
OthersStay ==
  \A s \in Shells, k \in Keys :
    (shell[s].does = "uninstall" /\ shell'[s] # shell[s]
       /\ k \notin {shell[s].key} \cup shell[s].beside) =>
      /\ home.default = k => home'.default = k
      /\ k \in home.creds => k \in home'.creds
      /\ \A n \in Files : home.include[n] = k => home'.include[n] = k
      /\ \A r \in Repos : Effective(home, lines, r) = k => Effective(home', lines', r) = k
OthersAreKept == [][OthersStay]_vars

(* Who has credentials is among the allowed signers, unless two commands    *)
(* overlapped, or one was stopped or failed (init.rs:432-434).              *)
SignersAreKnown ==
  ~past.overlap /\ (\A s \in Shells : shell[s] = Idle) => home.creds \subseteq home.signers
=============================================================================
