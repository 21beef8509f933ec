# Heimdallm in TLA+

Specifications of the parts of Heimdallm whose correctness depends on the order
of things: what may run while the application is being replaced, what becomes
of a review between its generation and GitHub, what reviews may spend, which
pull requests are looked at again, when one is merged, and who works in which
checkout. Heimdallm is a daemon
(Go, `daemon/`) that polls GitHub, has AI agents review pull requests and
publishes their reviews; a desktop application (Flutter, `flutter_app/`) shows
them and updates itself and the daemon. Paths below are relative to `src/`.

Contents: [inventory](#1-inventory), [plan](#2-plan),
[modules](#3-the-modules), [runs](#4-the-runs), [proofs](#5-the-proofs),
[limits](#6-what-is-not-modelled).

## 1. Inventory

| component | state | operations | interacts with | what is hard, what must hold |
|---|---|---|---|---|
| work-admission gate, `daemon/internal/workgate/gate.go` | lease (draining, sealed, authorized, owner, expiry), counters per kind of work, marker file | Acquire, Release, Prepare, Seal, ConfirmBootstrap, Cancel, Status, bootstrap wait, restore | every worker and handler (permits), the `/update` endpoints | releases from converging cleanup paths, expiry races renewal, file calls that fail before or after their effect, death at any point. No work behind a seal; no acknowledged seal is lost; abandoned drains reopen |
| desktop updater, `flutter_app/lib/core/platform/linux_app_updater.dart`; `workgate/recovery_journal.go` | phase and lease of the update in memory, the recovery journal on disk, the daemon binary | install, recover at launch; the daemon reads the journal when it starts | gate over HTTP, file system, daemon process | two processes that die independently, lost replies, a journal shared by both. Installation excludes work, a new daemon works only after it was confirmed (or its installation reported a failure and the old one was), no seal is left without an owner |
| review lifecycle, `pipeline/pipeline.go`, `pipeline/peer_review.go`, `worker/`, `cmd/heimdallm/main.go` | reviews (rows), in-flight claims, publish messages, what each worker holds | automatic review, Re-review button, publish worker, poll of pending rows, sweep of claims, restart | store, GitHub, bus, gate, agents | check-then-act around network calls, a lost reply or record after a submission, messages without redelivery, claims that leak, another instance under the same account. Submissions of a review are bounded by publishers and failures; nothing stays pending; a request is answered |
| spending limits: `store/circuitbreaker.go`, `store/review_retry_*.go`, `pipeline/review_budget.go` | counts of stored reviews, cooldown per commit, reservations per repository, slots held by running reviews | check, reserve, advance, mark, clear, admit, assign, release | review lifecycle | checks separated from what they count, death between advance and clear. Concurrent runs do not exceed a limit; a failure loop slows down |
| rate limiter, `scheduler/ratelimit.go` | token pools, observed budgets, cooldown | Acquire, Observe, ObserveRetryAfter, Refill | every GitHub call | waiters act on what they read before waiting. Tiers keep their reserve; waiters are served |
| watch store, `bus/watch.go`, state worker `worker/state.go` | entries with next check, backoff and last seen update | enroll, reset, increase, defer, evict, scan, backfill | pollers, state worker, reviews | read-then-write over SQLite, dispatch twice, eviction under a queued check, lost messages. An open pull request is checked for ever, a closed one is not |
| gate verdict cache, `pipeline/gate_verdict.go` | last skip verdict per pull request | lookup, remember, forget | review lifecycle | staleness: a request must not stay hidden |
| merge tracking, `mergetrack/`, `store/merge_tracking.go` | one row per pull request: phase, commit, counters, arming, cooldown, fingerprint | a pass of the loop (sync, decide, claim, act, release), dry run by the operator, restart | GitHub, store, repository contexts, agents | every action is a request to GitHub for a pull request that moves meanwhile; answers are lost; a claim outlives its owner. A dry run writes to the row the loop acts on. Only the decided commit is merged, claims end with their actions, a ready pull request is merged, a merged one leaves the table |
| bus, `bus/` | Core NATS subjects | publish, subscribe | workers | messages may be lost; an environment assumption of the models |
| GitHub client, `github/` | caches | requests | everything | the environment of the models |
| HTTP API, events: `server/`, `sse/` | sessions, subscribers | request handlers, broadcast | web, desktop, CLI | slow subscribers; update endpoints are in the handshake |
| configuration, discovery: `config/`, `discovery/` | settings, monitored repositories | load, reload | everything | a repository disabled during a run (in the review model as "pause") |
| instances, LAN: `instances/`, `lan/` | peers, probes, takeovers | route, probe, pair | HTTP | partition of instances |
| repository contexts, `repoctx/`; git, `gitops/` | clone, worktrees, lock and slots per repository | acquire, release, purge, startup sweep | agents, merge tracking, HTTP | lock and slots are counted and dropped while others wait, waits are cancelled, git is killed, a purge does not ask. A checkout stays while it is used; slots do not leak |
| agents: `executor/`, `procgroup/` | child processes | execute, kill | pipeline | timeouts; in the review model an execution succeeds or fails |
| flows, quota, activity, catalogue, rename | rows, settings | sequential transformations | store | nothing concurrent of their own |
| CLI, web and desktop views, packaging | none that matters here | | HTTP | |

`PROJECT.json` lists the components with their sources and status, and under
`hazards` every place of this code where a test would hardly reach, with the
properties that cover it or the reason why none does yet.

## 2. Plan

Modules in order of importance; the first six are done.

1. `WorkGate` (core), its abstract specification `AdmissionBarrier`, the
   end-to-end `UpdateHandshake` that composes it with journal, updater and
   restarts.
2. `ReviewPublication`: one pull request from the decision to review it to the
   review on GitHub.
3. `SpendingLimits`: breaker, cooldown, reservations and budgets around runs that
   overlap, fail and die.
4. `WatchSchedule`: the watch store with its poller, the state worker and the
   reviews that write to it.
5. `MergeTracking`: the reconciliation loop.
6. `RepoContexts`: slots, lock, clone and worktrees of a repository.
7. `ReviewCluster`: two daemons with their own stores on one pull request.

Each of the first six has a module of proofs. What is left to prove is what is
only model-checked now (section 5), and which of the theorems survive a second
daemon.

## 3. The modules

### WorkGate

`gate` is the `Gate` struct's lease fields, `active` its counters, `permit` the
`Permit` each top-level job holds, `disk` the marker file, `proc` the process
(down, restored and waiting for a bootstrap authorization, running), `now` the
clock. One action per exported method; all run under the gate's mutex, so each
is atomic but for the marker file: `PersistOutcomes` gives the three ways a
write (temporary file, rename, directory sync) can end: done, failed with the
old content, failed with the new content. `ExpireOutcomes` is
`expireLeaseLocked`, the first thing every call does. `Boot` is a start of the
daemon with `restore`, `Crash` its death: memory and permits are gone. Permits
that travel through contexts (`Accepts`) are the live permit of one job.
Operations take their result as a parameter, so that the handshake can act on it.

### AdmissionBarrier

What the gate promises, in four variables. `MCWorkGate` maps a running process
to its memory and a dead one to its marker, and checks that every step of
`WorkGate` is a step of the barrier or a stutter, which is also proved. A dead process with an
unconfirmed seal must come back sealed; nothing else survives for certain.

### UpdateHandshake

`EXTENDS WorkGate`: the daemon's steps are WorkGate's actions unchanged. `app`
is the local state of `LinuxAppUpdater` (program counter of
`installAvailableUpdate` and `_recoverBarrier`, lease, phase in memory),
`journal` the recovery file, `binary` and `version` the program on disk and the
one running, `boot` the identity that requests name (`verifyExpectedUpdateBootID`).
A request happens at the daemon, then the updater acts on the reply or takes
the exception path: the reply was an error, was lost, or the daemon is another
process. `BootDaemon` is a start: `RestoreDesktopRecoveryBarrier` first, the
gate's own restore after. `AppExit` and `Crash` kill either side between any two
steps. `verified`, `failed` and `cleared` are history variables: the versions a
daemon of which was confirmed and then seen healthy, whether the installation
reported a failure, and the phase of the journal deleted last.

### ReviewPublication

One pull request and one daemon. `rows` is the table `reviews` in order of
creation (`github_review_id`: 0 pending, -1 orphaned, -2 superseded, else the
review's id), `inflight` the table `reviews_in_flight`, `queue` the publish
messages, `worker` what each goroutine knows and holds. A worker runs through
claim, gate, peer check, generation, re-check, peer guard, submission, mark and
release. Each step is one call of the store or of GitHub and the local decision on its
answer; other workers, the sweep, the poll, a crash and GitHub come between.
The same steps serve the three kinds of workers, as the code does with
`Pipeline.Run` and the publish handler: a publish worker enters at the re-check,
a forced run skips gate, peer check and guard.

GitHub is the environment: pushes, "Update branch" (which moves standing
reviews to the merge commit), closing, requests, dismissals, and another
instance under the same account. Every call fails as often as `MaxFaults`
allows, in the ways of `Fault`: before its effect, or after it with the reply
lost. Counts of events stand for timestamps: `seen` is a row's `created_at`.

`verdict` is the cache of the gate's last skip (`gate_verdict.go`): a run whose
row, commit and `updated_at` are those of the last skip asks GitHub nothing.
`updated_at` is a stamp that every change moves to a value nobody remembers
(`Later`), except that a request may come within the second of an earlier change
("second"). A claim is swept by its age, which the model does not count: a claim
that its worker still holds may be swept at any time, as a fault ("outlive"),
one that nobody holds is swept for nothing.

Not in the model: rows without a commit (legacy), dismissed pull requests, the
comments of multi mode. The agent, with what it may spend, is one step that
succeeds or fails.

### SpendingLimits

What `Pipeline.Run` may spend, for one repository and a flow of two agents.
`runs` are the executions in the order they began: a run takes the in-flight
claim of its commit, passes breaker and cooldown (`Check`), is admitted under
the budget (`Admit`, a ticket in memory under the budget's mutex), picks its
agents (`SelectCLIs`), reserves its attempt and advances the cooldown in one
transaction, executes, hands over to the next agent when one fails, and stores
its review, after which cooldown and ticket are cleared. `reviews`, the attempts
and the cooldowns are tables that survive `Crash`; tickets do not. A run is
forced (the button) or automatic; forced runs and lost writes together are
bounded by `MaxTroubles`. The unit of time is the base delay. The rotation of a
retry is part of its reservation, clearing and release part of the end of a run:
nothing reads between them what they write. Reads of the store that fail, which
the code lets pass on purpose, and rows of peers are left out.

### WatchSchedule

The table `watch_state` (`watch`: next check, backoff, last update seen), the
poller that scans it, publishes what is due and defers it in a second write, the
workers of the state subject that check one pull request, and the reviews that
enroll it again. `IncreaseRead` and `IncreaseWrite` are the two statements of
`IncreaseBackoff`; whatever happens between them is overwritten. Messages and
writes may be lost as often as `MaxFaults` says. `record` is the state that table
`prs` gives the backfill, `cache` the snapshots prefetched for a scan,
which a check may answer from. GitHub updates, requests, closes, reopens and
deletes; the operator stops and starts monitoring. `last_seen` is a time of the
daemon's clock, and only entries without an open record are dropped for age.

### MergeTracking

One pull request, the acting loop and the operator's dry runs
(`handleEvaluateMergeTracking`), which sync and record a decision but act on
nothing. `row` is the row of `merge_tracking`, `github` the pull request (its
commits are numbered), `run` what each evaluation holds. An evaluation takes no
lock, so its steps are the statements of the store and the requests to GitHub,
one by one, and those of others come between any two: `Load`, `Fetch`,
`SyncHead`, `SyncAutoMerge` (both compare the snapshot with the row as it was
loaded), `Consider` (the row read again, and the decision, which fixes the phase
and cooldown that will be written), `Record`, `TrackWaits`, `Mark`; of the loop also
`Claim`, `Admit`, the requests of the action, each of which may fail with or
without effect, and `Count` and `Fail`. Taken together are a cycle's pruning,
enrolment and listing (`StartCycle`), the last statement of a pass with the
loop's write of the fingerprint, and a request that changes nothing with the
statement that follows. Store statements do not fail. `Decide` is a function of row and snapshot. Statuses are what
evaluation makes of GitHub's answer: "draft" stands for the blocks that rule
out arming, "pending" for those that allow it. The cooldown is a flag that time
ends, the fingerprint of the last decision is current, old or none, and
`MaxSkips` is how many passes it may spare. `MCMergeTracking` has the
configurations, one for each way through the decision.

### RepoContexts

One repository of `repoctx.Manager`. `lock` and `cap` are its entries in
`locks` and `caps`: the channel in the map, the count of references, who
is inside, and the channel each goroutine holds, which need not be the map's any
more. `proc` are executions and purges, `clone` the managed clone ("partial": a
directory without marker), `trees` and `registered` the worktrees on disk and in
git's registry, `seq` the number in their names. Executions share one token, the
hardest case. Leaving a channel and dropping the reference are one step: a
goroutine that comes between them finds the channel it would have found before.
`m.active` is not modelled: its only reader, the startup sweep, is part of
`Restart` and runs before the first acquisition. The two acquisition paths
without a worktree have no caller.

## 4. The runs

| run | question | result |
|---|---|---|
| `WorkGate` | types, counters, seals and leases; does the gate implement the barrier; do abandoned drains and restored leases end | holds under `FairSpec` |
| `UpdateHandshake` | is installation exclusive, and a new daemon confirmed before it works; does the journal order survive recovery | holds |
| `ReviewPublication` | is every review on GitHub accounted for by a row, does an agent run only for what the gate allowed | holds |
| `ReviewLiveness` | how often is a review submitted, is every stored review resolved and every request answered | holds under `FairSpec` |
| `ReviewDoublePublish` | can duplicate messages race (main.go:1667) | violated |
| `SpendingLimits` | are budget, failure limit, cooldown and the cap of a commit kept, and by how much are the breaker and the agents' limits overrun | holds |
| `AgentBudget` | can parallel workers take an agent's last slot (configuration-guide.md:1198) | violated |
| `WatchSchedule` | is what is open checked for ever, what is quiet rarely, what is closed no more; is a request noticed | holds |
| `WatchGone` | does a 404 stop the checks (main.go:1907) | violated |
| `MergeTracking` | what is merged, what leaves a row claimed, is a ready pull request merged and a merged one settled | holds |
| `MergeDryRun` | does "in flight" mean that an action is (store/merge_tracking.go:31) | violated |
| `RepoContexts` | do checkouts stay and acquisitions end | holds |

The violated properties are statements of the repository that the code does not
keep; `PROJECT.json` quotes each under `findings` and says how it happens.

`PostsAccounted` deserves a note: the daemon's reviews carry no row identity on
GitHub, so one whose record was lost looks like a peer's. The guard then
attributes reviews to rows one to one: there are never more of our reviews on a
commit than rows they can be accounted to, and the only surplus is a placeholder
row that took one. With several publish workers, a lookup that fails (which lets
a submission through) or a claim swept under a run this is false. What holds
then is `SubmissionsBounded`: each publish worker can hold one message for a row it
read as pending, and each failure can add one submission, no more.

`RequestServed` has one exception beside the bound on rows: a request that comes
in the second of an earlier change, after a run was skipped in it, is not told apart
from what was skipped (`pr.quiet`, and `Remembered` while the cache says so). Any
later change of the pull request, or a restart, brings it up again.

`ClaimsOwned`, `ReadyMerges` and `MergedSettles` are about what `MergeDryRun`
shows: a dry run that read the row while the loop's action was in flight writes
that phase back after the loop has released it. The row is then `Stranded`: listed
and claimed by nothing until a restart, or an evaluation that finds the pull
request closed or merged. `ClaimsOwned` says that nothing else strands a row, the
other two what holds of a row that is not.

Seen while modelling, in the models or beside them, and stated by no run:

- A seal marker that expired may outlive its lease when its removal fails
  (gate.go:397); a recovery of phase preparing or sealed, followed by a restart
  between the DELETE and the deletion of the journal, leaves a seal without an
  owner (recovery_journal.go:49 covers phase installing only).
- An installation that reports a failure may have replaced the binary. Recovery
  then confirms the old daemon, which still runs (linux_app_updater.dart:472), and
  deletes the journal: when the daemon is started next, the new binary works
  without ever having been confirmed. `ReplacementVerified` names this case; the
  comment at linux_app_updater.dart:444-447 counts on the recovery to check it.
- The sweep deletes claims of reviews that outlive its age (main.go:1159), a
  publish worker that waits for GitHub's rate limit for instance, and the run's
  own release then deletes the claim of whoever came next. With several publish
  workers a row that was resolved may be resolved again. A forced review that
  was deferred is resolved by the guard it had skipped. A review requested within
  the second of the change that was skipped waits for the next change.
- A check that was published is deferred by one backoff only, not until it "has
  run" (main.go:1843); `RememberPRs` does not clear the note that a pull request
  is missing.
- A row re-anchored to a new commit in the second its pass began reads as armed
  before it (times are stored in whole seconds), and the pass merges directly; a
  commit that used up its merge attempts is still armed, and merged directly if
  GitHub refuses to queue it. A dry run's late record may overwrite a terminal
  phase until the next pass. `action_cooldown` is read by no pass.
- A write acquisition in a repository that has a `local_dir` of its own gets that
  checkout (main.go:4654, manager.go:354-362 and 574-582), where the rebase and
  the agent work; configuration-guide.md:1351 says "never your own checkout".
- A clone left by a daemon that died in `git clone` has no marker: every later
  acquisition and every purge refuses it. A purge removes a clone under
  the runs that work in it, the retention even one prepared since it looked at
  the marker. A release without the lock leaves the worktree registered, and a
  restart that skips the sweep (an update drains) can give its name out again,
  which git refuses.

Bounds. *WorkGate*: two leases (owner and rival), two jobs and two kinds (a
counter and its neighbour), a clock of five with a time to live of two: a lease
can expire, be renewed and expire again. *UpdateHandshake*: one job, as the
gate's own run has the others; two installs, four starts of the daemon, so that
a second update starts in the debris of the first. *ReviewPublication*: one
worker of each kind, two commits, two stored reviews, a re-request or dismissal, one
review of a peer, one fault; this is where a claim, a row and a review on GitHub
can each be about the wrong one of two. With one publish worker
(`server.max_concurrent_workers = 1`; the default is 5), because with two a row is published
twice (`ReviewDoublePublish`), and without failing claims and lookups, for which
the code fails open on purpose and accepts duplicates. *ReviewLiveness* has all
fourteen kinds of faults, two of them in a behaviour, on one commit and without
another instance: enough for a claim to be swept under a publisher and for a
skip to be remembered wrongly, with a second row and a second request after. *SpendingLimits*: two workers, two commits and
two agents, three runs and one trouble, every limit one or two and every window
shorter than the four units of time, so that each limit is reached, left and
reached again. *WatchSchedule*: two slots for checks (they overlap), one event on
GitHub and one fault: pull requests share nothing but queue and slots.
*MergeTracking*: one dry run, up to two commits, one attempt, one skipped pass, one fault and one thing that happens besides (a second push, a user's switch, a
dry run), under seven configurations. *RepoContexts*: two reviews and a rebase
for two slots, a purge, three worktrees in the life of a daemon, one fault: one
waits for a slot while one waits for the lock. Deadlock is checked but
for reviews, limits and merges: a pull request that stays closed, or runs that
are used up, have no next step.

Fairness. *WorkGate*: the clock, the waiting process's poll (a ticker), the
pollers that keep offering work, and the end of admitted work (agents run under
a timeout). *ReviewPublication*: weak fairness of the review worker's start and
of every worker's next step (calls have timeouts), of the sweep (a ticker every
five minutes). The poll, a delivery to a free commit and the publish worker's claim are strongly
fair: automatic runs that have nothing to do take the claim once per poll and
hold it for a few calls, so the publish worker, which tries once per poll too,
does not meet them every single time. Nothing in the code orders the two; with
weak fairness alone TLC shows the starvation. *WatchSchedule*: the poller's loop,
some worker's next step (calls have timeouts) and time. *MergeTracking*: the
loop, its steps, the end of cooldowns and the restart of a dead daemon.
*RepoContexts*: every goroutine's next step (git and agents run under timeouts),
and strong fairness of entering a channel, which Go grants to those that wait in
the order they came. Nothing is assumed of GitHub, users, updaters, crashes or
faults; that faults are bounded is the assumption that failures end.

## 5. The proofs

A theorem holds for every value of the constants that the named assumptions of
its module allow, not only for those of the runs. The bounds of the exploration
(`MaxRuns`, `MaxFaults`, ...) are such constants. Each module's theorems are
proved from an inductive invariant:

| proofs | of | inductive invariant | theorems |
|---|---|---|---|
| `WorkGateProofs` | `WorkGate`, `AdmissionBarrier` | `Inv` | `TypeCorrect`, `CountersExact`, `SealExcludesWork`, `SealsAreDurable`, `SealsAreHeld`, `LeasesAreHonoured`, `GateImplementsBarrier` |
| `UpdateHandshakeProofs` | `UpdateHandshake` | `HandshakeInv` | `HandshakeTypeCorrect`, `NoWorkWhileInstalling`, `NoWorkUnverified`, `InstallationsJournaled`, `NoSealWithoutOwner` |
| `ReviewPublicationProofs` | `ReviewPublication` | `Core`, `Steady` | `TypeCorrect`, `SubmissionsCounted` |
| `SpendingLimitsProofs` | `SpendingLimits` | `SpendingInv`, `CooldownInv` | `TypeCorrect`, `BudgetRespected`, `FailuresLimited`, `CommitCapRespected`, `RepoOverrunLimited`, `AgentOverrunLimited`, `CooldownRespected` |
| `WatchScheduleProofs` | `WatchSchedule` | `WatchInv` | `TypeCorrect`, `NothingSeenAhead` |
| `MergeTrackingProofs` | `MergeTracking` | `Inv` | `TypeCorrect`, `DecidedCommitMerged`, `RowsStrandedByRecords` |
| `RepoContextsProofs` | `RepoContexts` | `ContextsInv` | `LockExclusive`, `SlotsRespected`, `CheckoutsKept` |

`ProofLemmas` has what several of them need: cardinalities of sets that lose or
gain one element or are covered by two others, least numbers, and `LoopValues`:
a function defined by a loop has the values of the loop. The library's
induction theorem takes an operator, so this is proved from the least
counterexample.

### The gate

For every set of leases, kinds and jobs, every time to live and every clock. The
empty lease is no lease, there is a kind, jobs are finitely many (so that
cardinalities count), times are natural numbers.

The inductive invariant is `Inv`: the four invariants and `Shape`, which says
how memory and marker agree (sealed implies draining, authorized implies
sealed, a drained gate has an owner and any other is blank, a sealed marker is a
proper seal, a dead process has an empty gate). The invariants are not inductive
alone: `SealedIdle` needs `AccountingExact`, since `Seal` looks at counters and
not at permits; `SealDurable` needs `Shape`, since `Seal` may find a marker that
an earlier failed write left. All steps of an updater are first reduced to
`GateStep`, a description of what any call may do to lease and marker
(`PrepareStep`, `SealStep`, `ConfirmStep`, `CancelStep`), so that preservation
is proved once; permits are counted by `CountAdmitted` and `CountReleased`.
`GateStepKeepsSeal` and `UpdaterHonours` give the action properties.

The refinement `Spec => Barrier!Spec`, under the mapping of `MCWorkGate`, needs
the invariant at both ends of a step: `GateStepImplements` names the barrier's
action for each case of `GateStep`; a `Crash` is `Die`, and keeps an unconfirmed
seal because of `SealDurable`; a `Boot` that finds a seal stutters, any other is
a `Die` whose outcome `BarrierShape` bounds.

### The handshake

`HandshakeInv` is the gate's `Inv`, which every step of the daemon and every call
of the updater keeps by the lemmas above (`UpdaterInv`, `StartInv`, ...), with
what the two processes know of each other: whose leases app, journal and gate
hold (`Leases`), what the journal says at each step of the updater
(`Journaled`), that a new binary is in place only from the end of an installation
on and under a seal until a daemon of it was verified or, after a failure, an old one (`Replaced`), that this seal holds
between any two requests, whoever is restarted (`Secured`), and that none is left
behind an installation that ended (`Ended`). `PrepareEffect`, `SealEffect`,
`ConfirmEffect`, `CancelEffect` and `DaemonEffect` say once what a call can leave
in gate and marker, whatever its answer; a request whose answer is lost is then
the same call followed by the updater's exception path.

### Reviews

`TypeCorrect` needs no hypothesis: whatever fails, a row that is recorded as
published names a review that is on GitHub. Its `Shape` counts the rows that
are there and those the workers may still add.

`SubmissionsCounted` needs none either: for any number of publish workers,
commits, messages and failures of every kind, claims swept under a run
included, a stored review is submitted at most once for every publish worker and
once for every failure. `Steady` is the account behind it. A run past its claim
is `Active` on its commit; those beside the one whose claim stands (`Excess`) have each
cost a fault: an unanswered claim, or a claim that was swept. While a row is
pending (`PendingBound`), every submission of it but those about to be recorded,
and every run beside the claim, is paid for in this way, because a submission
that is not recorded is a lost reply, a failed record or a crash. Once the row is
resolved (`ResolvedBound`), only those who read it as pending before may submit
it again (`Holding`), and they are publish workers waiting for the claim or runs
that were paid for. The one case in between is `Contested`: the run that generated the
row has the claim and publish workers already wait for the same row. It cannot
come about without a failure, for a row gets its first message when its commit
is free (`Poll`) or its run has ended (`Release`). `Linked` says who can have a row at all. Each
action is then one lemma (`ClaimSteady`, `SubmitSteady`, ...), most of them from
`KeepsBounds`, `StayRow` or `ResolvedRow`, which reduce a step to what it does to these counts.

`PostsAccounted` and `NoUnaskedRereview` are left to TLC: they hold for one
publish worker and claims that are never lost, which is less than the code's
defaults offer, so a theorem would have to assume the hard part away.

### Spending

`SpendingInv` follows a slot through a run: it has a ticket while it is in
progress (`Tickets`), one row when it has produced a review (`Rows`), its record
while a failure counts (`Tried`), and the clock has not moved before it starts an
agent (`Clock`). `Fitting` says that no window that ends with an element holds more than the
limit; `PartFits` and `GrownFits` keep it when a set shrinks or gains an element
that found room. `Represented` maps runs to the tickets or rows that are
counted for them, which is where a limit kept in two places (memory and disk)
becomes one count. `Budget`, `Failures` and `CommitCapKept` are exact because
test and record are one transaction or guarded by the claim; `Repository` and
`AgentRoom` carry the runs between test and row as the overrun, never more than
the other workers. `CooldownInv` says what a cooldown stands for: it counts
no fewer attempts than have failed since the last review and is no older
(`Remembered`), a run in progress is the last of its commit (`Latest`), and one
that is to start an agent has waited (`Waited`). `DelayGrows`, on the doubling loop of
`RetryDelay`, closes the gap between what is counted and what has failed; it is
why the base delay is assumed not to exceed the maximum (5 minutes and 6 hours
in review_retry_backoff.go).

### Schedule, merges and checkouts

`WatchInv` types the queue, the cache and what the workers read.
`NothingSeenAhead` is the part of it that is not about types: neither an entry
nor a cached snapshot has an update that has not happened on GitHub yet, so that
the next one is news to both.

`MergeTracking`'s `Inv` follows each evaluation (`Fits`): a dry run never gets
past its decision, a claim is for an action that changes GitHub, and a merge
that was checked again is asked for the commit it was decided for. So
`DecidedCommitMerged` holds for any configurations, with any number of pushes.
`RowsStrandedByRecords` goes through the statements that write a phase: a claim
has an action that goes on to release it, a release leaves no in-flight phase,
the other updates keep one only, and of a decision's record the phase is the one
read with the row (`Consider`), in flight only if it was then.

`ContextsInv` is about counted channels. `Sound` says of one, for the goroutines
that wait for it or hold it and the set that is inside: all know the channel of
the map, its count is their number, and a forgotten channel is not in use.
`LockExclusive` and `SlotsRespected` are its sizes, 1 and `MaxWorktrees`, for any
number of executions and purges, cancelled or not. `CheckoutsKept` needs
`Paths` (each worktree has one user, and names are fresh in a life of the daemon)
and `Clones`.

### What is only model-checked

`PostsAccounted` and `NoUnaskedRereview` (above), and liveness
(`AbandonedDrainReopens`, `RestoredLeaseBootstraps`, `PendingResolved`,
`RequestServed`, `OpenChecked`, `QuietSettles`, `ClosedForgotten`,
`RequestNoticed`, `ReadyMerges`, `MergedSettles`, `AcquireReturns`): proofs under
fairness need `ENABLED`, which is out of the prover's reach. The four properties
that are violated have nothing to prove.

## 6. What is not modelled

Pure data and I/O (GitHub encoding, configuration, diffs, prompts, views), the
macOS updater, whose Swift code shares the journal's format, and the components
that `PROJECT.json` lists as not modelled, with the reason for each: most are
request decoding over the store, process handling or views, and hold no protocol
state. The rate limiter's cooldowns are instants and its budgets rates, which a
counter of time would not tell apart. Of merge tracking: untracking, switches
toggled during a pass, repositories that are not allowed, a second daemon. Of
the spending limits: reads that fail open. A file system that loses an acknowledged rename, a clock
that goes backwards and a store that loses committed rows are excluded.
