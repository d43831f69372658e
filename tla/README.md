# A specification of the verifiable-git-infrastructure bridge

This directory holds TLA+ models of the code under `src/`, the TLC
configurations that check them on small instances, and proofs, checked by
TLAPS, of the theorems that matter most. `PROJECT.json` is the index: which
definition models which lines, what each run checks, which mistake in the code
each property would catch, and what the code is exposed to.

## 1. The system

A VTC (a verifiable trust community's service) decides who may do what on git
forges; the *bridge* (`crates/vgi-bridge`) carries the decisions out. It
receives signed documents over a mediator, acts on GitHub and Forgejo through
adapters, reports results and events, and posts the signature check on pull
requests. `verify-trust` judges the commits of a range against the registry;
`did-git-sign` signs them; `vgi-cli` sets a community up.

### Components

| Component | Source | State it keeps | Operations | Talks to |
|---|---|---|---|---|
| Job ledger | `bridge.rs`, `store.rs`, `flows.rs` | `Jobs`, `Outbox`, `Pending` tables; a lock per namespace; tasks | take a job, run it, finish it, send and resend its result, begin, complete and expire a person's flow, restore after a restart, prune | VTC, adapters |
| Namespace life and events | `namespaces.rs`, `rolemap.rs`, `bridge.rs` | `Namespaces`, `Repos`, `Meta` tables, event entries of the outbox | bind, supersede, orphan, revive, sweep, forget, send events and role maps | job ledger, adapters, VTA |
| VTA-backed state | `appstate.rs`, `vta.rs`, `store.rs` | a mirror of four tables with versions, a dirty set, the host lease, sealed secrets | pull at start, sync passes, flush, lease acquire/renew/release | the VTA |
| Identity and key rotation | `identity.rs`, `vta.rs` | the DID and key set in use | adopt rotated keys while running | VTA, transport |
| Jobs on the forge | `jobs.rs`, `mapping.rs` | repository records, guard state | project roles, create, bootstrap, archive, inspect, close a pull request | adapters |
| Webhook events | `events.rs` | delivery ids, branch records | verify, deduplicate, turn into drift events and re-checks | job ledger, checks, re-sign |
| Bridge-posted checks | `checks.rs`, the adapter's `checks.rs` | checks in flight, reports waiting; last check per repository | take a delivery, claim a head, post a run, judge it, complete it, report it | GitHub, registry |
| Dependabot re-sign | `resign.rs` | branch ledger, own pushes, attempts | re-sign and push, leave a branch alone | GitHub, git |
| App registration, token rotation | `flows.rs` | pending registrations, bot tokens | manifest flow, rotate a Forgejo token | forges |
| Registry channel | `registry_channel.rs`, `registry.rs` | requests in flight by thread | ask, match a reply, time out | trust registry |
| Transport | `transport.rs`, `lib.rs` | one session | connect, receive serially, reconnect | mediator |
| Wire documents | `wire.rs`, `seal.rs` | replay window | sign, verify, seal | all |
| Bridge process | `main.rs`, `setup.rs`, `config.rs`, `http.rs`, `status.rs` | configuration | start, route | - |
| Forge vocabulary | `crates/vgi-forge` | - | rights lattice, resources, bootstrap plans | adapters |
| GitHub adapter | `crates/vgi-forge-github` | installation tokens | guard verification, plans, checks | GitHub |
| Forgejo adapter | `crates/vgi-forge-forgejo` | bot tokens, pending binds | binds, plans | Forgejo |
| verify-trust | `crates/verify-trust` | answers per run | verdict over a range | registry |
| did-git-sign | `crates/did-git-sign` | keyring, git configuration | init, enable, sign | VTA, git |
| vgi-core | `crates/vgi-core` | - | parse commits, signatures, DIDs | - |
| vgi-cli | `crates/vgi-cli` | - | one-shot setup | forges |

### How they interact, and what is hard

* **One job, many tasks.** Documents from the VTC are handled one at a time,
  but a job they start is then touched by its own task, an HTTP callback, a
  device poll, the expiry loop and, after a crash, `restore()`. They share
  only the store, whose transactions are single-record (one, `finish_job`,
  covers two tables). Everything is possible between two transactions.
* **At-least-once in both directions.** The VTC repeats jobs, the bridge
  repeats results and events; either may be lost, repeated or overtaken. The
  ledger is what makes a repeat harmless.
* **Crash and restart.** The local store is durable per transaction. In VTA
  mode it is a cache: the VTA's copy overwrites it at the next start.
* **Two hosts.** A lease in the VTA keeps a second host out; the mirror stops
  on a record somebody else wrote.
* **Remote state changed by others.** Roles, rulesets, branches and installed
  Apps are changed by people between a read and a write.
* **Time.** Flows, leases, replay windows, token rotation and backoff compare
  clocks, some of them another machine's.

`PROJECT.json` lists every hazard of the code at its line, with the properties
that would catch it or the reason why none does yet.

### What makes each component correct

* *Job ledger.* A job gets one result, whatever tasks meet on it; a result is
  kept until the VTC has it; what was answered `accepted` survives a crash;
  nothing finished runs again; every job ends.
* *Namespace life.* One record serves one owner; a retired id stays retired; a
  namespace is orphaned only on the VTC's current word and removed only when
  overdue; repositories and their namespace agree through a re-binding.
* *VTA-backed state.* What was reported is in the VTA; no host undoes what it
  never saw; the mirror stops for another writer and for nothing else; what is
  pending gets out.
* *Identity and rotation.* At every moment the bridge can open what is sealed to
  a key it published, over a crash between adopting and storing.
* *Jobs on the forge.* A job that failed half-way can be run again and converges;
  nobody loses their last role by the order of two steps.
* *Webhook events.* A delivery is applied once; the bridge's own change is not
  reported as drift.
* *Checks and re-sign.* Nothing is merged that no check vouched for; every head
  gets its verdict, the newest one last; the bridge stops pushing at a branch that
  somebody else pushes at.
* *Registry channel, wire.* A reply goes to the request it answers; a document
  is accepted once.
* *verify-trust.* The verdict over a range is pass only if every commit is
  signed by a key authorized when it matters.
* *Rights, plans.* A projected role never exceeds the granted one; applying a
  plan twice is applying it once.

## 2. The plan

What was planned, in order, and where it stands; each item is a module (M), part
of a run, and where marked a proof module (P).

1. **JobLedger** (M, P), with **JobContract**, the abstract specification it
   implements. Done.
2. **Mirror** (M, P): pull, sync, flush, a second host; **StateLease** (M, P): the
   lease with its clocks, and secrets sealed to a version. Done.
3. **NamespaceLife** (M, P): bind, supersede, orphan, revive, forget, with the
   event outbox and the jobs that run meanwhile. Done, without the workflow pin.
4. The jobs on the forge: **ForgejoRepo**, **GitHubOrg**, **GitHubRoles**,
   **PullClosing** (M, P). Done, without the inspection that reports drift.
5. **Webhooks** (M, P): deliveries, dedup, what they do to records. Done for GitHub.
6. **BridgeChecks** (M, P), without the platform merges a check recomputes;
   **Resign** (M, P): the push ledger, the lease, who resumes. Done.
7. **KeyRotation** (M, P), **BotTokens** (M, P). Done, without the App's manifest flow.
8. **RegistryAnswers** (M, P), **Documents** (M, P): matching replies, freshness and
   keys. Done.
9. **TrustRange** (M, P): the verdict over a range against a reference
   definition; **RunSession** (M, P): how a run asks. Done.
10. **RoleMaps** and **RoleReports** (M, P): rights, roles, rounding, and that the
    VTC knows what was given. Done.
11. **Signing** (M, P): did-git-sign's commands beside a commit. Done.

Every invariant and every action property that a run checks and that the code keeps
is a theorem; liveness stays with TLC (section 5).

## 3. The modules

`PROJECT.json` ("map") gives the lines behind every definition. Operators with a
comment "Mistake" are plausible bugs of the code (a dropped guard, a lost write);
no specification uses them. With one in place of the definition it follows, TLC
finds the named property violated.

An action is one stretch of one task between two awaits, two transactions or two
calls to somebody else; where the code does several such steps with nothing else
able to see the difference they are one.

Most components share nothing with each other that a property speaks of, so three
MC modules put several of them beside each other in one run: **MCForge** (the jobs
on the forge and the role reports), **MCEdges** (webhooks, re-sign, key rotation,
the mirror under load, the lease) and **MCTrust** (ranges, registry answers, a
run's session, bot tokens, signing, documents). The variable `part` says which one
a behaviour is of, chosen at the start and never changed; the rest of the
variables are the instance's under its own names. A property of such a run is
`part = "x" => X!Property`. They take their parts' sets and bounds as constants with
named assumptions, so that their theorems (MCForgeProofs, MCEdgesProofs,
MCTrustProofs) are about any of them; ForgeWork.cfg, EdgesWork.cfg and TrustWork.cfg
give the instances.

### JobLedger (and JobContract, MCJobLedger, JobLedgerProofs)

State: `ledger` is `Table::Jobs` (state, result, digest of the content, whether a
link was given out), `flow` the one entry of `Table::Pending` a begin\* job has,
`outbox` the `result:<id>` entries. `handler`, `worker`, `callback`, `poll` and
`expiring` are the program counters of the tasks that touch a job: the inbound
document being handled, the job's worker, the HTTP callback, the device poll and
the expiry loop. `net` and `vtc` are the messages and what the VTC holds.

An action is one stretch of one task between two awaits or two transactions.
`RecordJob`, `RefuseJob`, `StartWork`, `BeginFlow`, `BeginFails`, `AwaitPerson`,
`RepeatJob` and `JobIdReused` are `on_job`; `ReadJob`, `StartRun`, `EndRun` are
`spawn_job` and `run_job`, the state read before the wait for the namespace lock
as in the code; `TakeFlow`, `CallbackBinds`, `CallbackCloses`, `PollEnds`,
`PollCloses`, `PollDies` are the person's side in `flows.rs`; `Lapse`,
`ExpireFlow`, `ExpireJob` its end; `SendResult`, `ClearOutbox`, `PruneJob` the
outbox and maintenance; `Restart` is a crash and `restore()`.

`JobContract` is what the bridge promises: a job is taken once, gets one outcome,
the VTC hears that outcome and no other, and the job is forgotten only after.
`KeepsContract` maps the ledger onto it.

Coarser than the code: what a job does on the forge is one step with any outcome
(item 4); a write that redb refuses is not modelled; the resend backoff is a
choice of when.

### Mirror (and MCMirror, MirrorProofs)

State: `remote` is the VTA's copy (a version counter, a record per key, deletions
it has reaped), `backup` an earlier copy; `disk` a host's data directory (cache,
mirrored versions, outbox); `versions`, `dirty`, `batch`, `stopped` the fields of
`Mirror`; `request` a write the VTA applied and has not answered. A value is a
number made once, and `past` says what it was made from: "a reported change
stands" is then a statement about ancestry and not about equality, which two
hosts would break all the time. `Stands` says it: a value stands while what is
there was made from it, or while what was made from it was deleted and nothing from
before that deletion has come back (a tombstone of an older deletion is a deletion
still).

`Change` is `Store::put`, `update` and `delete` with `touched`; `StartPass`,
`Write`, `Skip`, `Answered`, `Conflict`, `RequestFails`, `AnswerLost` are a pass
(`sync_pass`, `write`), a step per remote request, so that local changes fall
between them; `Start` is `pull` with its refusals (a counter that went back, a
record older than the cache's, a listing that lacks one); `SendReport` is the
flush and the send; `Stop` the clean end, `Forget` a crash. Restoring the VTA,
reaping deletions and losing a data directory are its environment.

Coarser than the code: the lease excludes by being a lock (two hosts meet through
a lease that ran out, `LeaseExpires`); `pull` is one step, because it runs before
anything else and is run again whole after a crash; attach and the key binding of
the cache are left out.

### NamespaceLife (and MCNamespaceLife, NamespaceLifeProofs)

State: `space` is `Table::Namespaces` (state, whether retention has passed, the
managed set), `repoOf` the namespace in each `Table::Repos` record, `successor`
the `RetiredNamespace` entries of `Meta`, `flows` the open bind links, `outbox`
the events, `lock` the lock per namespace. `loop` (the document loop), `binder`
(the bind callback), `work`, `sweep`, `reporter`, `sending` are the tasks. An
event document under way says whether the outbox still holds its entry under that
id (`clear_outbox_thread` ignores it otherwise) and whether it was sent since the
namespace was last brought back.

`TakeJob` is `unorphan`; `BeginBind`, `AdmitWork`, `ServeAgain` the rest of
`on_job`; `TakeAnswer` and `DropWaiting` the answers to events and `orphan`, with
the orphaning and the dropping of what waits as two steps; `Callback`, `Proven`,
`Retire`, `TakeOver`, `PutBound`, `Tell` are `bind_callback` and `supersede`,
transaction by transaction; `Record` and `Manage` are `jobs::manage`; `StartSweep`,
`CheckForgotten`, `Forget` the retention sweep; `ReadRoleMap` and `QueueRoleMap`
a report of a role map read in one step and queued in another; `PickEntry` and
`SendEntry` the check of an entry and its sending after the flush.

Three history variables record that the code met a case it does not handle, so
that the properties can except it by name: `hasty` (two binds of one owner
completed over each other), `late` (an id retired while one of its links was open)
and `overtaken` (a record rewritten by a bind under a running job).

Coarser than the code: admission and `flows::begin` are one step of the loop (an
id retired between them is in `late`); the two entries `bind_callback` queues are
put together; `repoCreatedUnmanaged` and the pin are left out; `forget` is one
step under its lock, after the look at the state as a step of its own.

### BridgeChecks (and MCBridgeChecks, BridgeChecksProofs)

State: `pull`, `shown`, `on`, `trusted`, `governed` are GitHub's pull requests, the
same as its API shows them, what branches hold, whom the registry trusts and
whether the VTC has the namespace: `Open` to `Redeliver` change them and send the
deliveries. A `task` is an arrival of a delivery, a redelivery being another; its
fields are the locals of `spawn` and `run`. `handled` is `Table::Deliveries`,
`inFlight` the runner's set of keys, `gate` the newest check run on each head,
`lastCheck` the repository's record, `pending`, `reports` and `inspected` the
throttled report.

`Receive` is `on_webhook`; `Begin`, `ReadPull`, `Claim`, `StartRun`, `Judge`,
`FinishRun`, `Record` are `checks::run` from await to await, once per trigger;
`EndDelivery` is `on_done`; `Fails` a request to GitHub that comes back with an
error, applied or not; `StartReport`, `Inspect`, `Tell` are `report_check`; `Crash`
loses everything but the store. `Merge` is the ruleset: into the protected branch
only with a success as the newest run on the head.

A commit is trusted or not: fetching commit objects, recomputing platform merges
and verify-trust are behind that word. The base a check compares with is the
base's tip when GitHub answered, or when the pull request last changed; branches
only grow; the default branch stays the same; a check's delivery names one
repository, because repositories share nothing but the permits.

### StateLease (with LeaseTimes; StateLeaseProofs)

`LeaseTimes` declares the lease's length, a request's timeout and the skew of the
clocks with the assumptions on them (`lease_expiry`, `bounded`). State: `now`;
`vta`, the records at the VTA, the lease among them; `proc`, the processes, each
with the lease it thinks it has and what it is doing; `req`, the request each
waits for, which arrives, is answered, is lost or is given up in its own time.

`Begin`, `Take`, `LookAgain`, `Granted`, `GiveUp` are `Lease::acquire`; `Renew`,
`Renewed`, `RanOut`, `LongEnough` are `renew_if_due`; `Put`, `Written`,
`Unpredicted`, `SealAgain` are `put_sealed`, which seals for the version it expects
to create and seals again when it was wrong; `Delete` is `forget_remote`;
`Release` the end. `Accepts` and `Apply` are the VTA's conditional write.
`Foreign` is a writer that ignores the lease, `Crash`, `Lost`, `Fails` the rest.
`SealedAgain` says that a secret sealed to another version than it landed at is being
sealed again; it excepts clocks that are ahead by two ticks or more.

A request that was given up is not applied later: the model's one assumption
about the VTA, named at `bounded`.

### ForgejoRepo, GitHubOrg, GitHubRoles, PullClosing (MCForgeProofs)

Jobs on the forge, one API call a step; the jobs of a namespace run one at a time,
people do not wait for them. Every call may be refused, or be applied and its
answer lost; the bridge may die between two, and the job runs again from its
start. `Call` is the forge: the outcomes a call can have.

*ForgejoRepo*: one repository. `CreateRepo`, `Taken`, `Manage` are `create_repo`
and the record; `ConfigureRepo`, `RefreshFiles`, `OpenForBot`, `WriteFile`,
`RestoreRule`, `Protect` are bootstrap and refresh, which open the protected branch
to the bot for their own pushes; `ReadRoles` to `RecordRoles` are `apply_roles`
with the branch's allow-list, which is how Forgejo expresses "maintain". `repo` is
at the forge, `rec` the bridge's record, `told` history: what was given, cut off,
changed by an admin. `plan` says whom a behaviour is about and how often each thing
may happen in it.

*GitHubOrg*: the repositories of an organisation and the check required of them,
by an org ruleset that pins `.vgi`'s workflow where the plan has it, and else by a
ruleset and a file in each. `store` is the durable namespace record, `adapter` the
copy in memory, which `persist_adapter_state` writes at the end of a job and a
restart drops. `Plan`, `Look`, `Commit`, `ProtectCentral`, `WriteRules`,
`VerifyRules` are `require_namespace_workflow`; `WorkflowFile`, `RepoRuleset`,
`CleanUp` the per-repository guard and the order in which the other comes off;
`Archive`, `Retire` are `archive_repo`.

*GitHubRoles*: the roles on one repository, where a grant to an outsider is an
invitation that they accept or decline between any two calls.

*PullClosing*: `close_pull_request`: read, look for the job's own comment, comment,
close, while people close, reopen and delete.

### RoleMaps and RoleReports (MCForgeProofs)

*RoleMaps* is data: `Closure`, `Held`, `ForgeTier`, `Canonical` (`rights.rs`), `Maps`
(the role maps a configuration may have), `Collapse` (rounding down onto the roles
a forge has), `MapRole`, `Effective`. *RoleReports* is the rest of `rolemap.rs`: a
report is made when the link comes up and stands in the outbox until one of the
documents it went out in is acknowledged; it says which map applies where and
which repositories are *stale*, their roles given under another map. Two tasks
report, the mediator session and the background loop; documents and answers are
lost, repeated and late; the bridge restarts with another configuration; jobs give
roles in whole or in part. `Take` is the VTC, which keeps the report with the
latest date.

### Webhooks (MCEdgesProofs)

GitHub's organisations, each a namespace with an App of its own; repositories that
people and the bridge create, rename, transfer and delete; deliveries late, lost,
repeated, out of order, or untrue in all but the organisation they are from.
`forge` is GitHub (with its redirects from old names), `store` the bridge's records
and managed sets with the adapter's copies, `tasks` the handlers, each a task
beside the jobs. `Receive` is `on_webhook`, `OnCreated` to `OnEdited` are `handle`,
`LeftFor` is `confirm_transfer_in`, `Detach` is `detach_from`; `Create`, `Read`,
`Manage`, `Roles` are the jobs that write the same records. `notes.gone` is what left
a namespace since the namespace's last job for it: `NothingIsCarried` is about that.

### Resign (MCEdgesProofs)

One branch of Dependabot's. A head is a number; what it holds is the set of those
who wrote its commits. `ledger` is the branch ledger kept from push deliveries,
`runs` the runs from a delivery to a push with a lease. `OnPush`, `OnDeletion`,
`Forget` keep the ledger; `Clean` is `is_clean`: what the ledger must show before the
bridge signs, walking `Back` from a head (the least set that its pushes close); `Read`, `Judge`, `Hold`, `Examine`, `RecordOwn`, `Send` are `run`.

### KeyRotation (MCEdgesProofs)

`world` is the VTA's keys and the DID document, `kept` what was written down of when
each key was first listed, `run` the bridge's process with its key task, `conn` the
mediator session. `Ask`, `Fingerprint`, `Baseline`, `Check`, `Load`, `Apply` are
`refresh_keys`; `Choice`, `SwitchDue` are `SigningPolicy`, which signs with a new key
only once every verifier's copy of the document must have it; `ReadKeys`,
`MarkSeen`, `Reconnect` are the session's side in `lib.rs`. After a `Crash` the times
are those the mirror carried over; the keys whose time is then that of an earlier
listing are in `past.shaky`, which `SignsKnown` excepts.

### BotTokens

`Due`, `Mint`, `InUse`, `Verify`, `Persist`, `Stamp`, `Flush`, `Retire` are
`rotate_forgejo_tokens` and `mint_token` step by step, in file mode and in VTA mode,
where what is durable is the VTA's copy. Tokens of others are the same bot's and
may end in the same eight characters, by which the old one is found.

### RegistryAnswers, RunSession, TrustRange (MCTrustProofs)

*TrustRange* is verify-trust's verdict over a range of commits: signatures checked,
signers queried, and then the rounds of `apply_platform_merge_policy` (`Settle`),
one action a round. `PassesIffVouched` compares with a reference definition of
"vouched for", the least set closed under the rule.
*RegistryAnswers* is how the bridge's checks ask over the link they share with
everything else: `Ask`, `Send`, `Hear`, `TimeOut`, `Abort` are `registry_channel.rs`
and `Route` the decision whether a document is an answer or a job's.
*RunSession* is how verify-trust asks by itself: the binding it picks, an identity
minted for the run, the session, TSP's relationship, the queries and the end
(`registry.rs`, mod mediated).

### Signing

did-git-sign on one machine. `home` is its files and the keyring, `lines` the
include lines that enable and disable write, `shell` the command each shell runs,
`commit` the commit being made. init is a step per file. uninstall looks whose the
config file is (`LookConfig`) and then removes it (`RemoveConfig`), drops the
credentials and the signer, and goes through the include files one by one:
`LookInclude`, the lines that name it (`RemoveDirLine`, `RemoveRepoLine`),
`RemoveInclude`. No lock is held, so what it removes may be another's by then; a step
that fails is warned of and passed over (`Fail`), and any command may be stopped
(`Stop`). `beside` is who was being set up while a removal ran. The hook and the signer
find the persona each on its own.

### Documents (with DocumentTimes)

Which of the VTC's signed documents the bridge acts on: `Receive` (freshness),
`Prove`, `Doubt`, `ProveAgain` (the cached DID document, and resolving again, not too
often), `Act`, `Finish`, `Prune` (the memory of what was handled).

## 4. The runs

Constants that bound a run are named in the modules (`MaxCrashes`, `MaxLosses`,
`MaxForgets`, `MaxStrays`, `MaxValues`, `MaxJobs`, `MaxFaults`, `MaxEdits`,
`MaxTime`, ..., and the plans' counts: a *plan* says how often each move may happen
in a behaviour).

| Run | Asks | Answer |
|---|---|---|
| `JobLedgerWork` | Are jobs of the bridge's own work kept and answered, over a crash and a lost message? | Yes: `NothingLost`, `WorkIsAnswered`; and the ledger implements `JobContract` (`KeepsContract`). `TypeOK`. |
| `JobLedgerFlows` | The same of jobs a person completes, with the callback, the poll and the expiry racing | Yes: `OneResult`, `FinishedIsFinal`; `FlowsAgree`, never a failure for a link that took effect, nobody waited for without a flow or a taker; `FlowsAreSettled`, but for a crash or a late link. |
| `JobLedgerTwice` | Is it one result per job without VTA mode (`OneResult`)? | No: finding 1. |
| `MirrorMixed` | Do reported changes stand (`NothingUndone`), and does a lone bridge go on (`StopsOnlyForOthers`), over two hosts, restores, lost directories, failures, lost answers? `TypeOK`. | Yes, short of a crash with changes pending, and of deletions beside another host. |
| `NamespaceLife` | Do bind, re-bind, orphan, revive and sweep keep one record per owner (`OneRecordPerOwner`), hand everything over (`ReboundWhole`) and orphan on fresh word only (`OrphanedOnFreshWord`)? `TypeOK`. | Yes, but for the excepted cases. |
| `BridgeChecks` | Does anything reach the protected branch that no check vouched for (`NothingUnvouched`); is the newest verdict the last one shown (`NewestVerdictStands`); does each head get one, and the VTC the last (`VerdictsArrive`)? `TypeOK`. | Nothing does, and they do, unless the API lags behind a delivery. |
| `ForgeWork` (MCForge) | Does a job that ended well leave what it promises (`GuardsHold`, `RolesAreExact`, `ClosingIsCareful`, `OthersAreKept`), whatever failed or was changed meanwhile; does every job end (`EveryJobEnds`); does the VTC derive the roles that were given (`RolesAreReported`)? `TypeOK`. | Yes, but for the excepted cases. |
| `RolesForgotten` | Does who is not listed lose the role (`UnlistedLoseTheirRole`)? | No: finding 2. |
| `ArchiveUncovers` | Is a repository guarded until it is archived (`KeptUntilArchived`)? | No: finding 3. |
| `EdgesWork` (MCEdges) | Are a delivery's claims believed only of its own organisation (`EventsAreBelieved`); are rotations taken up and no signature made too early (`KeysAreFollowed`); does one host write (`LeaseIsSole`); does a step touch only what is its own, Dependabot's work alone being signed (`StepsAreOwn`); is everything caught up with in the end, reports, deliveries, branches, keys (`EdgesCatchUp`)? `TypeOK`. | Yes, but for the excepted cases. |
| `KeysForgotten` | Are the keys current in the end (`CurrentInTheEnd`)? | No: finding 4. |
| `TrustWork` (MCTrust) | Does a range pass exactly if it is vouched for (`PassesIffVouched`); is only the registry believed (`OnTheRegistrysWord`); is the bot's token never lost or leaked (`BotKeepsItsToken`); is a commit signed as selected (`SigningIsAsChosen`); does a document act once (`DocumentsActOnce`); `NoStepTooFar`; does all come to an end (`TrustEnds`)? `TypesOK`. | Yes, but for the excepted cases. |

A property's exceptions are in its definition, by name, and each is explained
under "Seen while modelling" below.

### Bounds, and why they are enough

*JobLedger.* Two jobs: everything a job shares with another is the document loop,
the namespace lock and the outbox, and two jobs contend for each. One crash at any
point reaches every pair of "what is on disk" and "what a task had done"; the
state after a restart is again one in which a crash may fall, so a second adds
depth and not a new pair. Two contents tell a repeat from a reused id. One lost
message and one result lost by the VTC are enough for each resend to be needed.

*Mirror.* Five plans divide what is one question from what is another: two hosts on one
record (any conflict is about one record), one host with two records (a pass with
one written and one not). Three values give a change, one built on it and one
beside it; the plan with deletions and reaping has four, for a value after the
deletion. Each mishap once per behaviour, several of them together.

*NamespaceLife.* Two ids of one owner: the list a superseding bind walks, and the
two orders in which two binds complete; one repository, because repositories do
not interact. Six plans instead of one with every move, which has too many states:
each plan is a combination in which the moves can meet. Three ids, or two
repositories, are only in the proofs.

*BridgeChecks.* Two commits, one on top of the other, and a branch beside the
protected one that holds the first already: the smallest case in which a success
for one base says too little for another. Two pull requests share a head or do
not. Four arrivals are two deliveries, each cut off once. Eleven plans, each with
the moves that can meet: a pull request moved about while trust changes, crashes,
failed requests and lost deliveries beside a second delivery.

*ForgeWork.* Forgejo: one person and three jobs (a job cut off, one sent again, one
of another kind), or two people and two jobs (who is listed and who is not, one of
them let in by a team); one fault and one edit anywhere. GitHub: two repositories
and three jobs on an organisation, because a ruleset covers several; two people on
one repository. A pull request with two orders, two faults and three edits. The
role reports: one repository, three configurations (default, another, one with the
repository's own), two forges' roles, and plans of two mishaps each: a restart and
a loss, a failing send and a flush that takes too long, a repeated document and a
session that ends.

*EdgesWork.* Webhooks: two organisations, two names, two ids, seven plans: what a
delivery can confuse is a name with an id and one organisation with another. Re-sign:
five heads, three pushes, two runs at once: a push before, between and after a run's
reading and its pushing. Keys: the key in use and a new one, two instants, a horizon
of one. Mirror: one host, two records of which one is too large for the VTA, three
changes, a crash, a stop and a failure. Lease: two processes, a secret and a plain
record, a lease of six with a timeout of one and a skew of one, which is the tightest
the assumption admits, and seven ticks, so that one lease may run out entirely under
its holder while the other takes it.

*TrustWork.* Ranges of three commits: one of each kind, what may be said of it by one
after it, and a merge of the two, with parents inside, outside and among themselves.
Two checks and two signers; three queries in one run's session, one that fails, one
after it and one that was waiting. Nine tokens, enough for the plan that makes most.
Two keys, include files, repositories and shells, in seven plans: init, enable,
uninstall and a commit; two inits, enable and a commit; the four commands of the include
lines beside a commit; two inits and a removal with a repository enabled, or with one of
them stopped; a removal one step of which fails; two removals. One job and two documents, one key
and its successor, five instants.

Deadlock is not checked: when the bounds are used up and everything is answered,
these systems rest.

### Fairness, and why the code justifies it

*JobLedger, FairSpec.* A spawned tokio task proceeds: workers, callbacks once they
took a flow, polls, the handler. The expiry loop and the resend loop tick for ever
(`main.rs`), time passes (`Lapse`). Of the VTC, that it takes what reaches it and
repeats a job whose result it lacks, which is what its side of the protocol says.
Nobody is obliged to follow a link (`TakeFlow` is not fair), and nothing is fair
about crashes and losses, which are bounded. Fairness is weak everywhere: a
namespace lock is never held by anything that waits for a person.

*Mirror.* Its Spec has no fairness; its liveness is a part of `EdgesWork` (below):
`Mirror::run` retries for ever, the outbox is sent again at every interval, a process
that ended is started again by its supervisor, and a lease runs out.

*NamespaceLife* has no liveness property: its Spec has no fairness.

*BridgeChecks, FairSpec.* Spawned tasks proceed, permits are handed out in turn (a
tokio semaphore is first come, first served), a waiting report wakes, the API
catches up, and a delivery that came to nothing is sent again, which
`docs/BRIDGE.md:683` asks of GitHub or of an operator. Nothing people do is fair.

*MCForge, WF(RunJob).* The job under way takes its next step: a call answers or fails.
Of the reports (`Reports!Work`), that the two tasks run, the mediator is connected
again, and a document or an answer that is not lost arrives; nothing is fair about
people, jobs or restarts.

*MCEdges.* `One`, `Another` and `Third` put together what each part is fair to, under
weak fairness of each: handlers and jobs proceed (`Hooks!Proceed`); deliveries
that are not lost arrive and a run proceeds (`Sign!Receive`, `Sign!Work`), separately
since either alone must not starve the other; the key task and the session
(`Rot!KeyTask`, `Rot!Session`); a pass of the mirror, the start of the process by its
supervisor, the resending of a report. The lease has only safety properties.

*MCTrust.* A round of the verdict; a check or run proceeds or times out
(`Answers!Work`, `Meeting!Run`); the rotation task runs at every tick (`Bots!Work`).
Signing and documents have no liveness property: `NewKeyIsHeard` is about steps.

## 5. What is proved

All theorems hold for any sets of jobs, hosts, records, ids, repositories, commits,
branches, pull requests, checks, queries and identities, and for any bounds and
plans; they assume the named ASSUMEs of each module, which TLC evaluates in every
run. `PROJECT.json` ("theorems") lists them with the properties they state.

*JobLedgerProofs.*
- `TypeCorrect`.
- `ResultsAreKept`, `AcceptedJobsAreDurable`, and with them `NothingIsLost`, by
  `DurabilityInv`. `ResultKept` is not inductive alone: an acknowledgement under way
  must imply that the VTC holds the result, whatever is in the outbox must be
  finished, and a worker or a document being handled must have its job on disk.
- `OneResultPerJob`, `OnlyOpenJobsRun`, `FinishedJobsAreFinal` and
  `LedgerKeepsContract` (the refinement: initial states to initial states, every
  step to a step or a stutter), by `OwnershipInv` and `AgreementInv`: at most one
  task may still write a job's record (the handler while it begins, the worker
  while it is queued or running, the person's side once a link was given out).
- `FlowsStayAgreed`, by `FlowInv` (`Settled`, job by job): whoever ends a flow first
  deletes it, so one of the callback, the poll and the expiry loop has it, and a job
  that waits has its flow or one of them at work on it.
  From `OneResultPerJob` on all assume `NoResumedPolls`: there is no device link, or
  VTA mode keeps their codes in memory. That is not caution: `JobLedgerTwice`
  violates `OneResult` without it.

*MirrorProofs.*
- `TypeCorrect`.
- `AloneNeverStops`: `StopsOnlyForOthers`, by `InStep`: what the one mirror that
  runs remembers of each record is the version the VTA has, except of the record
  whose write is applied and not answered, so that no request can conflict.
- `NothingIsUndone`: `NothingUndone`, by three invariants. `KnownInv`: what values were
  made from is nested, no version is used twice without a restore, a cache that was
  mirrored at a record's version holds something made from that record, and what a
  lone bridge caches is made from what the VTA has. `SaidInv`: what a queued report
  speaks of stands in the cache or is not sent before it is mirrored, and what a
  directory reported stands in its cache. `ToldInv`: every copy of the VTA at or after
  the version mirrored when a report went out has what was told. A write then builds
  on what it replaces, because its precondition names a version whose value its cache
  was made from; a pull changes nothing that was told, because it refuses a VTA that
  is older than what was mirrored.

*NamespaceLifeProofs.*
- `TypeCorrect`.
- `OneRecord`: `OneRecordPerOwner`, by `OwnerInv`: a bind about to put its record
  has every other record that serves the owner on its list, or another bind is at
  the same point (then `hasty`). That is why `supersede` lists by owner and not by
  what the job named.
- `OrphanedByFreshWord`: `OrphanedOnFreshWord`, by `FreshInv`: a message that
  still threads to an entry is about the entry as it was last put; an orphaned
  namespace keeps at most its role map in the outbox; and what is stale of the
  messages when a job brings a namespace back is about that role map, which
  `ServeAgain` puts anew before the loop takes another answer.
- `RebindingIsWhole`: `ReboundWhole`, which is four theorems. `DeadOnlyByRebinding`
  (`WorkInv`): jobs and the sweep share the lock of the namespace, so only a bind
  can take the record from under a job. `RetiredIsGone` (`RetireInv`, on top of what
  is known of each binder): between retiring an id and putting the record that
  replaces it nothing serves the id again. `RetiredIdsAreReported` (`LossInv`,
  `ReportInv`): without crashes and losses a retired id is in a report that is queued
  or under way, or the VTC has heard it. `RepositoriesAreHandedOver` (`HandInv`): a
  record and the managed set that names it move by the same list.

*BridgeChecksProofs.*
- `TypeCorrect`, with the invariant that every check between its claim and its end
  has a key no other has, and that its base is the protected branch: so two checks
  of one head never overlap.
- `NothingGetsInUnvouched`: `NothingUnvouched`, by `CoverInv`. A check verifies only
  what the base lacks, so a success must cover the rest of the head too: what a
  base was read to hold is on the protected branch still, and what is there was
  vouched for.
- `TheNewestVerdictStands`: `NewestVerdictStands`, by `VerdictInv`: between its start
  and its end a check's run is the newest on its head.

*StateLeaseProofs.*
- `Typed`, `Exclusive` (one writer), `Openable` (every secret opens), by `Always`:
  `Spec => []IInv`, where IInv is the types and, process by process, `Good`: a
  write is sent with more than half a lease left by the holder's clock and arrives
  within one timeout; another takes the lease only when it has run out by its own
  clock; two timeouts and the skew fit into half a lease. That is what
  `RequestAssumption` and `ClockAssumption` are for.
- `Resealed`: `SealedAgain`, by `KeptInv`. A write lands at another version than
  foreseen only as often as somebody ignores the lease (`Budget`: the attempts made,
  and by how much the foreseen version falls short, come to no more than what others
  wrote), so as many attempts and one more are enough; and the lease is not lost
  between two attempts, because a record is sealed again within two timeouts of a
  write that had more than half the lease left (`InTime`, `Resealing`).

*MCEdgesProofs*, of MCEdges's parts together, by `AllInv`: of whichever part a
behaviour is, its own invariant; of the mirror and the lease those of MirrorProofs
and StateLeaseProofs, through an instance.
- `EdgesTyped`: the types of all five.
- `EventsBelieved`: `EventsAreBelieved`. By `HookInv` a handler that asked the
  forge and was told of its own namespace is right that the repository was there
  (`TaskKnows`), whatever happened since; a look holds its namespace's lock, alone
  (`Locked`), and what a job has in hand it looked up itself (`JobKnows`); a record is
  inside its namespace, but for those a job put astray by a stale view
  (`RecordsInside`); the managed set and the adapter's copy of it agree (`SetsAgree`);
  and until something is transferred or claimed everything is where it was born
  (`AtHome`), so that what the bridge made cannot look like a stranger's. By `SignInv`
  what the ledger tells of a push, and what is still on its way, is so (`LedgerTold`,
  `PostsTold`), a head on record as the bridge's own holds its commits (`OwnAreOwn`),
  and a run that passed `is_clean` has a head no writer touched (`RunsKnow`).
- `KeysFollowed`: `KeysAreFollowed`, by `KeyInv`: no time is ahead of the clock it was
  read from (`TimesInOrder`); the first-seen time of a listed key is not before its
  listing, unless noted (`WellDated`); the key that signs was the newest one known for
  the horizon, or none was and it was the earliest that could be had (`ChosenWell`); a
  session with other keys than those in service has been told (`SessionTold`).
- `LeaseSole`: `LeaseIsSole`, which is the three theorems about the lease.
- `StepsOwn`: `StepsAreOwn`. The key that signs moves only on, because the choice is
  the newest of those known long enough, and first-seen times do not change; a check
  that takes keys up chooses at the very clock at which a switch would be due.

*MCForgeProofs*, of MCForge's parts together, by `AllInv`: of whichever part a
behaviour is, its own invariant. They assume of the constants what ForgeWork.cfg
satisfies and any deployment does: there is a repository and a release, an order is
not called "none", bounds are numbers. The model of one
Forgejo repository and of one GitHub organisation is for any people, repositories,
releases, plans and bounds.
- Of the maps alone: `EffectiveIsAMap`, `RoundingIsExact` (what the effective map
  gives is what the bridge would give under the configured one), `RolesAreSafe`
  (rounding never gives more, and never less to who holds more), `CanonicalIsTheSame`.
- `ForgeTyped`: the types of all five parts.
- `GuardsSaidHold`: `GuardsHold`. On Forgejo by `RepoGuards` and `RepoOpens`: each stage
  of a job has behind it what the stages before were for, merging that respects the
  rule (`GuardKnown`), the workflow's file, and, once the branch was opened for the
  bot, a rule to put back (`OpenKnown`); so the last stage finds them, unless
  somebody else was at it meanwhile (then not `told.clean`). `OwnKnown`: between creating a repository and
  recording it there is only the stage `manage`, so a repository the bridge made and
  has no record of is one whose create was cut off. On GitHub by `ManagedKnown` and
  `AloneKnown`: whatever must stay required is in the managed set in the store and in
  memory and in the set a job writes into the ruleset, and a job takes a repository's
  own guard off only when it has seen the organisation's cover it and nobody has
  touched that since. `ShaKnown`: a job pins only what the bridge rendered.
- `RolesGivenExact`: `RolesAreExact`. On Forgejo by `SeenKnown` (what was read stands but
  for what the job did since, person by person, and the allow-list is right but for
  those still to be added or dropped), `ExactKnown` and `GivenKnown` (whoever was given a
  role is on record, or the job under way is about them, which is why a
  projection asks about the record's people too). On GitHub by `StandsAsRead`,
  `DoneAsAsked` and `RemovedKnown`: whoever a job has come to has what was asked or is
  noted as failed; and by `MissedStay`, for who accepts an invitation between the
  reading of members and that of invitations is in neither list.
- `OthersUntouched`: `OthersAreKept`, from the same: a job writes of nobody it did not
  ask about (`AskedKnown`, `InWork`), and the allow-list it writes is the one it read
  with its own changes.
- `ClosedWithCare`: `ClosingIsCareful`, by `PullSeen`: a job about to comment has not
  done so, one about to close has unless the comment was deleted, and one whose
  reading is not out of date was ordered after the last reopening.
- `ReportsAreSo`: `RolesAreReported`. A repository that is not stale has no role left of
  another map, but one of a job that was cut short (`Accounted`); what a report of this
  run says is what the configuration in force comes to, and every copy of a report,
  in a task, a document or with the VTC, is one that was made so (`Truthful`); from
  the first put on, the report that the outbox's entry notes or that was acknowledged
  is current, and so is whatever the VTC takes after it (`ReportKnown`).

*MCTrustProofs*, of MCTrust's parts together, by `AllInv`: of whichever part a
behaviour is, its own invariant. Each part's step lemmas say what each action does
to it.
- `TypeCorrect`, and `Vouching`: a commit passes if and only if it is in the least set
  closed under the rule. `Rounds` says in every round that those passing are vouched
  for, and that a platform merge that failed has a parent that failed for good; at
  the end those that pass are closed under the rule, so they include the least set.
- `TypesAreKept`.
- `OnTheirWordAlone`: `OnTheRegistrysWord`. By `AskInv` an id belongs to one query
  under way, what was said to it is what the registry thought at some moment since
  it was asked, and each check that waits has its waiter or its reply in hand. By
  `MeetInv` who holds the run's lock holds a session that neither failed nor was
  closed, and each frame of the registry's says what the registry did.
- `TheBotKeepsItsToken`: `BotKeepsItsToken`, by `BotInv`: at each step of a rotation
  the tokens minted, stored, in use and replaced are live as long as any copy may be
  started from, and the live tokens nobody knows of number at most the faults, with
  one spent ahead while the token being replaced could not be told.
- `SignedAsChosen`: `SigningIsAsChosen`, by `SignInv`: a commit has seen whatever is
  selected while it is made; what a removal beside which nobody set the identity up
  again, and of which no step failed, has undone stays undone (`RemovalsKnown`); while
  commands do not overlap, the one that runs
  last read the allowed signers as they are.
- `DocumentsActOnlyOnce`: `DocumentsActOnce`, by `DocInv`: a job's record goes only
  when every document of the job is too old to be looked at, counted from its date,
  the skew and how slow handling may be; a key is believed no longer than its
  lifetime after the moment it was resolved.
- `NoStepGoesTooFar`: `NoStepTooFar`, from the same invariants. That a removal takes
  nothing from an identity that was not being set up beside it needs more than the step
  that looks: whoever is being set up while a removal runs is in its `beside`, and the
  file a removal has in hand is its own, nobody's, or of one of those (`BesideKnown`).

Only model-checked:
- Liveness, which is out of this prover's reach: `WorkIsAnswered`, `FlowsAreSettled`,
  `VerdictsArrive`, `EveryJobEnds`, `EdgesCatchUp`, `TrustEnds`. So is ENABLED.
- What a recursive definition computes for every input: the library's induction
  theorems take an operator as a parameter, which no prover here instantiates. The
  proofs avoid it by defining references as least closed sets and maps as
  functions; where a least number or a latest key is needed they take it from the
  well-foundedness of Nat (`LeastNumber` in MCEdgesProofs).
- What docs say and the code does not do is false and so not proved:
  `EveryFlowIsAnswered`, `ReportsAreTrue`, `StopsForWriters`, `RemovedOnlyOverdue`,
  `IdsAreNotReused`, `LateCostsNothing`, `PushResumes` are defined beside the properties
  they differ from; instances with the mishap in question refute them.

## 6. Findings

Each has a run whose trace is the shortest behaviour.

1. **Two results for one device link** (`bridge.rs:807`, `JobLedgerTwice`). `run_job`
   reads the state before it waits for the lock and then sets `Running` whatever the
   job has become; after a restart a link cut off in its handler has a worker and a
   poll.
2. **Who was to lose a role keeps it** (`jobs.rs:451`, `RolesForgotten`). `apply_roles`
   records the roles asked for whether or not each call took; the job sent again
   does not find the person whose removal failed, and reports success.
3. **A repository is unguarded before it is archived** (GitHub `forge.rs:1579`,
   `ArchiveUncovers`). It leaves the managed set first; if archiving fails, the next
   bootstrap rewrites the organisation's ruleset without it.
4. **A rotation during the start is not noticed** (`vta.rs:621`, `KeysForgotten`). The
   first fingerprint is taken long after the identity was loaded and includes the
   rotation, so nothing ever differs from it.

### Seen while modelling, without a run of its own

*Jobs and namespaces.*
- `take` deletes a flow and then looks at its expiry (`flows.rs:207`): a link followed
  late leaves its job waiting, and nothing finds it again.
- A `beginBind` or `beginAccountLink` interrupted while Queued is answered
  `notRunHere` after a restart (`jobs.rs:70`), where `store.rs:130` says an
  interrupted job is run again.
- A crash between taking or expiring a flow and closing its job leaves the job
  waiting for good (`flows.rs:514`): why `WaitingIsOwned` excepts crashes.
- A result acknowledged only when its job's record is due to be pruned is pruned at
  once, for maintenance counts from `finished_at` (`bridge.rs:1255`) where
  `bridge.rs:1232` says "acknowledged long ago"; a late repeat of the job would run
  it again. `ActsOnce` excepts it (`told.late`).
- Two binds of one owner that complete at once leave two records (`hasty`);
  `docs/BRIDGE.md:1248` says this never happens.
- A retired id is bound again by a link opened before it was retired
  (`flows.rs:284`).
- A bind may rewrite a record under a running job, for `supersede` takes no
  namespace lock: the job then ends at `expect("bound namespace")`
  (`jobs.rs:675`), or its managed set is lost (`overtaken`).
- A crash inside `supersede` before the new record is put loses the managed set and
  leaves a retired id bound; `bindCompleted` never names what it superseded.
- `unorphan` takes no namespace lock, so the sweep may remove a namespace that was
  just brought back (`namespaces.rs:83`); `forget` under its lock does not look at the
  due date again. An event checked before a flush may be sent for a namespace
  orphaned during it (`bridge.rs:1017`).
- A crash between the orphaning and `drop_events` leaves events of an orphan in the
  outbox.

*The mirror and the lease.*
- Which records wait to be mirrored is known in memory only (`appstate.rs:877`): after
  a crash `pull` writes the VTA's older copy over them, `flush` finds nothing pending
  and the outbox entry goes out. A lost answer stops the mirror, for the retry
  conflicts with the bridge's own write (`appstate.rs:1045`).
- A deletion of a record this host has seen no version of is sent with no
  precondition (`appstate.rs:1023`), where `docs/BRIDGE.md:306` says every write is
  conditional: with two hosts it removes what the other reported. A create that is
  retried after a lost answer does not see the other host's deletion either.
- The mirror does not remember a tombstone's version (`appstate.rs:1040`), so a VTA
  restored to before a deletion is not noticed by it; and with two hosts the writes
  of the other push the counter past what was mirrored, so that a restore is not
  noticed at all. `NoAmnesia` and `ReportedStands` except these by name.
- The lease assumes that a request given up after 20 s is not applied later and that
  clocks differ by at most one request timeout. `until` may be earlier than the
  holder's own deadline (`appstate.rs:500`). A host that is suspended is outside the
  model. With another host's clock ahead by two ticks or more, within the skew that
  is allowed, the lease may be taken between two sealings of a record: `SealedAgain`
  excepts it, for the secret then stays sealed to a version it is not at. With a writer that ignores the lease, a crash between the two sealings
  leaves a secret that does not open. `vta setup`'s probe writes and deletes without
  renewing, and does not release the lease when its read fails.

*Keys and tokens.*
- `lib.rs:271` reads the identity and then marks rotations as seen: a rotation in
  between leaves the session on the old keys.
- A newer listed key that the VTA does not release keeps `switch_due` true, so the
  secrets are exported at every tick (`vta.rs:606` says otherwise). `first_listed` is
  dated when the policy is loaded, before the document is resolved; a key unlisted
  and listed again between two checks keeps its old date, and one listed again while
  the bridge was down may keep the date the mirror carried over; two keys first seen
  together wait for another change before the switch.
- Each persist that failed, each previous token that could not be told from another
  (same last eight characters) and each flush that failed leaves one more live token
  per rotation; a halted mirror leaks one per period. `ExtrasAreFaults` counts them.

*On the forge.*
- `guard.rs:487` emits "requiredWorkflow" where `jobs.rs:722` and 731 compare with
  "required_workflow": the fallback is never persisted.
- On GitHub a person who accepts an invitation between the listing of collaborators
  and that of invitations is in neither. On Forgejo a stray login on the merge
  allow-list stays, a crash in a refresh leaves the rule open and a later refresh
  restores the open state, and a bot asked to be removed loses its own place.
- Moving an organisation's pin cannot be done once `.vgi` is protected, until a
  person merges.
- The comment at `jobs.rs:434` is wrong where the record's map equals the current
  one, or becomes it again, after a projection that failed in part (`LeftIsListed`
  excepts `half`); two senders at once can date an older `stale` list later than a newer
  one (`rolemap.rs:31`); a first projection that fails in part under a map that is not
  the default makes a repository stale without a report until the next link-up.

*Webhooks, checks, re-sign.*
- `persist_adapter_state` (`jobs.rs:690`) racing a detach writes the detached id back
  into `managed` (`events.rs:365` says it is gone), and `claimed_elsewhere` then blocks
  the other namespace's detach.
- `inspect_repo` (`jobs.rs:960`) takes the record of another namespace, reports
  `repoRenamed` from outside and rewrites it; `manage()` keeps another namespace's
  record when a transferred repository is adopted, so that neither can detach it;
  bootstrap on a redirected name records a repository outside the namespace;
  `apply_roles` creates anew the record of a repository detached meanwhile
  (`jobs.rs:440`).
- A delivery that comes late may detach the newcomer at a name used again; a
  deletion handled between create and `manage` leaves a dead record; a transfer back
  in while the old record exists is reported and never unmanaged (`events.rs:4`).
  A crash loses the delivery being handled (`events.rs:250`).
- A check under way when its namespace is orphaned may still succeed: the namespace
  is read before the wait for a permit and GitHub's answers (`checks.rs:1282`). The
  sweep's namespace is as stale (`jobs.rs:1164`).
- A pull request whose new head the API does not show yet has "moved on" for the
  delivery of that head (`checks.rs:1239`): it is recorded as handled, and the head
  waits for another push or a reopening. `EveryHeadIsJudged` excepts an API that lags.
- Two heads' checks may record `last_check` in another order than they ended.
- A re-sign run turned away as "already running" while the holder has an old head
  is not taken up again (`resign.rs:775`); a creation delivered after another push of
  the same second erases it.

*verify-trust, the wire, did-git-sign.*
- A grant moved from the resource to the namespace between the two queries denies
  a signer who was always authorised.
- `transport.rs` compares the sender's DID part, `DocChecker` the sender exactly.
- `enable --dir` overwrites a user's own includeIf for that directory
  (`enable.rs:157`; `enable.rs:12` and the README of did-git-sign say it does not).
  Uninstalling the default identity removes the `config.json` that every other
  include names. Uninstall leaves include lines that a later `init` of the same name
  revives, and `profiles.json` keeps removed identities. Overlapping `init` and
  `uninstall` may write a removed signer back into `allowed_signers`.
- `uninstall` looks whose `config.json` or include file it is and then removes it
  (`init.rs:162-166`, `215-222`), under no lock: what an `init` of another identity
  wrote in between, the new default or an include of the same name, is removed with
  it, though "a profile being removed must not take the default with it"
  (`init.rs:154`). `OthersStay` excepts who was being set up beside the removal, and
  says that nobody else loses anything.
- A step of `uninstall` that fails is warned of (`init.rs:168`, `182`, `204`, `220`,
  `224`), and a file that cannot be read is silently taken for another's (`164`, `215`):
  what that step was to remove stays, though the rest is gone. `RemovedIsGone` is about
  removals no step of which failed.

## 7. What is not modelled

- *Bridge process, setup, HTTP and configuration; vgi-cli*: command lines, parsing
  and one-shot sequences of calls. Their results are constants of the models.
- *vgi-core*, and the parsing in verify-trust and the adapters: pure conversions;
  their results enter the models as values.
- *API plumbing*: requests, paging, tokens of the App, OAuth, framing. A call is a
  step that answers, fails, or is applied and not answered.
- *The App's manifest flow, Forgejo's hooks, the inspection that reports drift, the
  workflow pin of a namespace, TSP relationships with peers, schemas of bodies and
  sealing*: left out of components that are otherwise modelled; `PROJECT.json`
  ("components") says so at each.
- *CI workflows and the action*: outside.

The map covers about 9,800 of the 56,000 lines under `src/`, which include the tests
inside the source files, configuration, command lines, conversions and plumbing
above. What decides, remembers and races is in the rest.
