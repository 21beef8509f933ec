------------------------- MODULE ReviewPublication -------------------------
(***************************************************************************)
(* The life of the reviews of one pull request: automatic reviews          *)
(* (daemon/cmd/heimdallm/main.go, runReview), forced ones (the Re-review   *)
(* button), the publish worker that submits stored reviews, the poll that  *)
(* re-enqueues pending ones and the sweep of leaked claims.  All of them   *)
(* share the local store: the review rows and the in-flight claims keyed   *)
(* by commit.  GitHub is the environment: commits are pushed, branches     *)
(* updated, reviews requested and dismissed, and another instance running  *)
(* as the same account may publish first.                                  *)
(*                                                                         *)
(* A step of a worker is one call of the store or of GitHub.  Calls fail   *)
(* and the process dies as often as the fault budget allows.               *)
(***************************************************************************)
EXTENDS Integers, Sequences, FiniteSets

CONSTANTS
    Automatic,      \* review workers (automatic path)
    Manual,         \* runners of the Re-review button
    Publisher,      \* publish workers
    Fault,          \* kinds of faults that may happen
    MaxHead,        \* bound on commits
    MaxRows,        \* bound on stored reviews
    MaxMessages,    \* bound on queued publish messages per review
    MaxEvents,      \* bound on review requests and dismissals
    MaxPeerPosts,   \* bound on reviews published by another instance
    MaxFaults       \* bound on faults

\* "outlive": a run is older than the sweep lets a claim become, say because
\* it waited for the rate limiter; "second": a review is requested within the
\* second of the change before, so that updated_at stays.
FaultKinds == {"claim", "lookup", "generate", "insert", "transient", "permanent",
               "reply", "mark", "release", "lose", "pause", "outlive", "second",
               "crash"}

Reviewer == Automatic \cup Manual
Worker == Reviewer \cup Publisher

ASSUME WorkerAssumption ==
    /\ Automatic \cap Manual = {} /\ Reviewer \cap Publisher = {}
    /\ IsFiniteSet(Worker) /\ Publisher # {}
ASSUME BoundAssumption ==
    /\ {MaxHead, MaxEvents} \subseteq Nat \ {0}
    /\ {MaxRows, MaxMessages, MaxPeerPosts, MaxFaults} \subseteq Nat
ASSUME FaultAssumption == Fault \subseteq FaultKinds

VARIABLES
    pr,         \* the pull request on GitHub
    posted,     \* the reviews on it, GitHub's id is the index
    rows,       \* table reviews, in order of creation
    inflight,   \* table reviews_in_flight: the claimed commits
    queue,      \* publish messages per row (Core NATS: no redelivery)
    worker,     \* what each worker is doing
    verdict,    \* the gate's last skip (gate_verdict.go)
    faults      \* faults so far

vars == <<pr, posted, rows, inflight, queue, worker, verdict, faults>>

---------------------------------------------------------------------------
\* State

Commit == 1..MaxHead
RowId == 1..MaxRows

\* Values of updated_at.  Only whether two are equal matters, so there need be
\* no more than can be remembered at once.
Stamp == 0..(Cardinality(Automatic) + 1)

\* asked: the last request event is a request, not a dismissal.  quiet (history):
\* updated_at has not moved since before the last request.
PullRequests == [head: Commit, open: BOOLEAN, requested: BOOLEAN, asked: BOOLEAN,
                 events: 0..MaxEvents, updated: Stamp, quiet: BOOLEAN]

\* made is the commit the review was written for, row the row it was
\* submitted from (0: another instance's); sha is its present anchor.
Posts == [sha: Commit, made: Commit, row: 0..MaxRows, standing: BOOLEAN]

Pending == 0
Orphaned == -1
Superseded == -2

\* github_review_id, head_sha and created_at (counted in request events);
\* two history fields: the commit the content was generated for (0: a
\* placeholder), and whether the operator forced it, which is not stored.
Rows == [gh: Int, sha: Commit, seen: 0..MaxEvents, made: 0..MaxHead,
         forced: BOOLEAN]

Steps == {"idle", "claim", "gate", "peer", "generate", "recheck", "guard",
          "submit", "mark", "release"}

\* sha and updated are those of the hydrated pull request.
Workers == [pc: Steps, sha: 0..MaxHead, updated: Stamp, row: 0..MaxRows,
            owns: BOOLEAN, gh: Nat, enqueue: BOOLEAN]

IdleWorker == [pc |-> "idle", sha |-> 0, updated |-> 0, row |-> 0, owns |-> FALSE,
               gh |-> 0, enqueue |-> FALSE]

\* gateVerdictKey; row 0: nothing remembered.
Verdicts == [row: 0..MaxRows, sha: 0..MaxHead, updated: Stamp]

NoVerdict == [row |-> 0, sha |-> 0, updated |-> 0]

\* updated_at when the pull request changes: a value nobody remembers.
Later ==
    LET remembered == {worker[w].updated : w \in Automatic} \cup {verdict.updated}
    IN  CHOOSE u \in Stamp : u \notin remembered \/ Stamp \subseteq remembered

At(w, pc) == worker[w].pc = pc

Goto(w, pc) == worker' = [worker EXCEPT ![w].pc = pc]

\* The call fails in the given way.
Fails(kind) ==
    /\ kind \in Fault /\ faults < MaxFaults
    /\ faults' = faults + 1

Succeeds == UNCHANGED faults

IsPending(r) == r \in DOMAIN rows /\ rows[r].gh = Pending

\* Reviews this daemon knows to be its own (ownPublishedReviewIDs).
Ours == {rows[r].gh : r \in DOMAIN rows} \cap DOMAIN posted

\* Mutant: recognises only the reviews of other instances.
PeersOfOthers(sha) ==
    {i \in DOMAIN posted : posted[i].row = 0 /\ posted[i].sha = sha /\ posted[i].standing}
        \ Ours

\* LookupPublishedPeerReview: standing reviews of our own login on a commit
\* that no row of ours accounts for.
PeersOn(sha) ==
    {i \in DOMAIN posted : posted[i].sha = sha /\ posted[i].standing} \ Ours

\* Mutant: off by one.
NewestAfter(S) == 1 + CHOOSE i \in S : \A k \in S : k <= i

Newest(S) == CHOOSE i \in S : \A k \in S : k <= i

\* MarkReviewPublished, which may fail.
SetGitHubId(r, gh) ==
    \/ Succeeds /\ rows' = [rows EXCEPT ![r].gh = gh]
    \/ Fails("mark") /\ UNCHANGED rows

---------------------------------------------------------------------------
\* Starting and claiming

RoomForReview ==
    Len(rows) + Cardinality({w \in Reviewer : worker[w].pc # "idle"}) < MaxRows

\* A review message whose fresh hydration finds the PR open and the bot
\* requested.
Start(w) ==
    /\ At(w, "idle") /\ RoomForReview
    /\ pr.open /\ pr.requested
    /\ worker' = [worker EXCEPT ![w].pc = "claim", ![w].sha = pr.head,
                               ![w].updated = pr.updated]
    /\ UNCHANGED <<pr, posted, rows, inflight, queue, verdict, faults>>

Trigger(w) ==
    /\ At(w, "idle") /\ RoomForReview
    /\ worker' = [worker EXCEPT ![w].pc = "claim", ![w].sha = pr.head]
    /\ UNCHANGED <<pr, posted, rows, inflight, queue, verdict, faults>>

\* Mutant: the row's state is not looked at.
DeliverUnread(w, r) ==
    /\ At(w, "idle") /\ queue[r] > 0
    /\ queue' = [queue EXCEPT ![r] = @ - 1]
    /\ worker' = [worker EXCEPT ![w] = [IdleWorker EXCEPT !.pc = "claim",
                                        !.sha = rows[r].sha, !.row = r]]
    /\ UNCHANGED <<pr, posted, rows, inflight, verdict, faults>>

\* The publish worker reads the row first and claims its commit after.
Deliver(w, r) ==
    /\ At(w, "idle") /\ queue[r] > 0
    /\ queue' = [queue EXCEPT ![r] = @ - 1]
    /\ worker' = IF rows[r].gh = Pending
                 THEN [worker EXCEPT ![w] = [IdleWorker EXCEPT !.pc = "claim",
                                             !.sha = rows[r].sha, !.row = r]]
                 ELSE worker
    /\ UNCHANGED <<pr, posted, rows, inflight, verdict, faults>>

\* Where the claim leads; a failed claim stops only a publisher.
AfterClaim(w) ==
    IF w \in Automatic THEN "gate" ELSE IF w \in Manual THEN "generate" ELSE "recheck"

Claim(w) ==
    /\ At(w, "claim")
    /\ \/ /\ worker[w].sha \notin inflight /\ Succeeds
          /\ inflight' = inflight \cup {worker[w].sha}
          /\ worker' = [worker EXCEPT ![w].pc = AfterClaim(w), ![w].owns = TRUE]
       \/ /\ worker[w].sha \in inflight /\ Succeeds
          /\ worker' = [worker EXCEPT ![w] = IdleWorker]
          /\ UNCHANGED inflight
       \/ /\ Fails("claim")
          /\ worker' = IF w \in Publisher THEN [worker EXCEPT ![w] = IdleWorker]
                       ELSE [worker EXCEPT ![w].pc = AfterClaim(w)]
          /\ UNCHANGED inflight
    /\ UNCHANGED <<pr, posted, rows, queue, verdict>>

---------------------------------------------------------------------------
\* Pipeline.Run: whether to review

Previous == rows[Len(rows)]

\* A superseded row counts as absent.
HasPrevious == rows # <<>> /\ Previous.gh # Superseded

\* Mutant: a request as old as the review counts as newer.
AskedBefore == HasPrevious /\ pr.asked /\ pr.events >= Previous.seen

\* shouldBypassSHASkipForReReview
AskedAgain == HasPrevious /\ pr.asked /\ pr.events > Previous.seen

\* reviewWasReanchoredToHead, without its write.
Reanchored(sha) ==
    /\ HasPrevious /\ Previous.sha # sha /\ Previous.gh > 0
    /\ posted[Previous.gh].sha = sha

\* The bot was a requested reviewer when the PR was hydrated, so a new commit
\* is an implicit request.
Verdict(asked, moved, sha) ==
    IF ~HasPrevious \/ asked THEN "review"
    ELSE IF moved THEN "covered"
    ELSE IF Previous.sha # sha THEN "review" ELSE "skip"

\* What one evaluation of the gate is about.
GateKey(w) == [row |-> Len(rows), sha |-> worker[w].sha, updated |-> worker[w].updated]

\* Mutant: an answer is remembered although a lookup failed.
RememberAnyway(w, outcome, failed) ==
    IF ~HasPrevious \/ outcome = "covered" THEN verdict
    ELSE IF outcome = "review" THEN NoVerdict ELSE GateKey(w)

\* verdicts.remember and verdicts.forget: a skip is remembered unless a lookup
\* failed, and a review ends what was remembered.
Remember(w, outcome, failed) ==
    IF ~HasPrevious \/ outcome = "covered" THEN verdict
    ELSE IF outcome = "review" THEN NoVerdict
    ELSE IF failed THEN verdict ELSE GateKey(w)

\* The gate asks GitHub only when something changed since its last skip.  A
\* failed lookup answers no.  After it updated_at is not looked at any more.
Gate(w) ==
    /\ At(w, "gate")
    /\ \/ /\ HasPrevious /\ verdict = GateKey(w) /\ Succeeds
          /\ Goto(w, "release") /\ UNCHANGED <<rows, verdict>>
       \/ /\ ~HasPrevious \/ verdict # GateKey(w)
          /\ \E failed \in BOOLEAN, moved \in {Reanchored(worker[w].sha), FALSE} :
               LET outcome == Verdict(AskedAgain /\ ~failed, moved, worker[w].sha) IN
               /\ IF failed THEN Fails("lookup")
                  ELSE moved = Reanchored(worker[w].sha) /\ Succeeds
               /\ worker' = [worker EXCEPT ![w].updated = 0,
                                ![w].pc = IF outcome = "review" THEN "peer" ELSE "release"]
               /\ rows' = IF outcome = "covered"
                          THEN [rows EXCEPT ![Len(rows)].sha = worker[w].sha] ELSE rows
               /\ verdict' = Remember(w, outcome, failed)
    /\ UNCHANGED <<pr, posted, inflight, queue>>

\* The check before generation: another instance's review is recorded in a
\* row that is born published.
PeerCheck(w) ==
    LET peers == PeersOn(worker[w].sha)
        placeholder == [gh |-> Newest(peers), sha |-> worker[w].sha,
                        seen |-> pr.events, made |-> 0, forced |-> FALSE]
    IN
    /\ At(w, "peer")
    /\ \/ /\ peers = {} /\ Succeeds
          /\ Goto(w, "generate") /\ UNCHANGED rows
       \/ /\ peers # {} /\ Fails("lookup")
          /\ Goto(w, "generate") /\ UNCHANGED rows
       \/ /\ peers # {}
          /\ Goto(w, "release")
          /\ \/ Succeeds /\ rows' = Append(rows, placeholder)
             \/ Fails("insert") /\ UNCHANGED rows
    /\ UNCHANGED <<pr, posted, inflight, queue, verdict>>

\* The agent runs and its result is stored.  Spent budgets, the breaker and
\* the retry cooldown stop a run here as a failing agent does.
Generate(w) ==
    /\ At(w, "generate")
    /\ \/ /\ Succeeds
          /\ rows' = Append(rows, [gh |-> Pending, sha |-> worker[w].sha,
                                   seen |-> pr.events, made |-> worker[w].sha,
                                   forced |-> w \in Manual])
          /\ worker' = [worker EXCEPT ![w].pc = "recheck", ![w].row = Len(rows) + 1]
       \/ Fails("generate") /\ Goto(w, "release") /\ UNCHANGED rows
    /\ UNCHANGED <<pr, posted, inflight, queue, verdict>>

---------------------------------------------------------------------------
\* Publication, by the run that generated the review or by the publish worker

\* retireIfPRMoved and pendingReviewInvalidReason.
Retirement(sha) ==
    IF ~pr.open THEN Orphaned
    ELSE IF pr.head # sha THEN Superseded ELSE Pending

\* Only the automatic paths look for a peer's review.
AfterRecheck(w) == IF w \in Manual THEN "submit" ELSE "guard"

\* A failed lookup lets a run publish and stops the publish worker; a
\* repository that is no longer monitored leaves the row pending.
Recheck(w) ==
    LET gh == Retirement(worker[w].sha) IN
    /\ At(w, "recheck")
    /\ \/ /\ gh = Pending /\ Succeeds
          /\ Goto(w, AfterRecheck(w)) /\ UNCHANGED rows
       \/ /\ gh # Pending
          /\ SetGitHubId(worker[w].row, gh) /\ Goto(w, "release")
       \/ /\ Fails("lookup") /\ UNCHANGED rows
          /\ Goto(w, IF w \in Publisher THEN "release" ELSE AfterRecheck(w))
       \/ /\ w \notin Manual /\ Fails("pause") /\ UNCHANGED rows
          /\ Goto(w, "release")
    /\ UNCHANGED <<pr, posted, inflight, queue, verdict>>

\* SkipIfPeerPublished
Guard(w) ==
    LET peers == PeersOn(worker[w].sha) IN
    /\ At(w, "guard")
    /\ \/ /\ peers = {} /\ Succeeds
          /\ Goto(w, "submit") /\ UNCHANGED rows
       \/ /\ peers # {} /\ Fails("lookup")
          /\ Goto(w, "submit") /\ UNCHANGED rows
       \/ /\ peers # {}
          /\ SetGitHubId(worker[w].row, Newest(peers)) /\ Goto(w, "release")
    /\ UNCHANGED <<pr, posted, inflight, queue, verdict>>

\* GitHub anchors the review to the commit it names and drops the request.
Published(w) ==
    /\ posted' = Append(posted, [sha |-> worker[w].sha, made |-> worker[w].sha,
                                 row |-> worker[w].row, standing |-> TRUE])
    /\ pr' = [pr EXCEPT !.requested = FALSE, !.updated = Later, !.quiet = FALSE]

\* A run that could not publish enqueues its row when it ends.
NotPublished(w) ==
    worker' = [worker EXCEPT ![w].pc = "release", ![w].enqueue = w \in Automatic]

Submit(w) ==
    /\ At(w, "submit")
    /\ \/ /\ Published(w) /\ Succeeds /\ UNCHANGED rows
          /\ worker' = [worker EXCEPT ![w].pc = "mark", ![w].gh = Len(posted) + 1]
       \/ /\ Published(w) /\ Fails("reply") /\ UNCHANGED rows
          /\ NotPublished(w)
       \/ /\ Fails("transient") /\ UNCHANGED <<pr, posted, rows>>
          /\ NotPublished(w)
       \/ /\ Fails("permanent") /\ UNCHANGED <<pr, posted>>
          /\ \/ rows' = [rows EXCEPT ![worker[w].row].gh = Orphaned]
             \/ UNCHANGED rows  \* this write may fail too
          /\ NotPublished(w)
    /\ UNCHANGED <<inflight, queue, verdict>>

Mark(w) ==
    /\ At(w, "mark")
    /\ \/ /\ Succeeds /\ Goto(w, "release")
          /\ rows' = [rows EXCEPT ![worker[w].row].gh = worker[w].gh]
       \/ /\ Fails("mark") /\ NotPublished(w) /\ UNCHANGED rows
    /\ UNCHANGED <<pr, posted, inflight, queue, verdict>>

\* The claim is released whoever holds it, then the row is enqueued.
Release(w) ==
    /\ At(w, "release")
    /\ \/ /\ worker[w].owns /\ Succeeds
          /\ inflight' = inflight \ {worker[w].sha}
       \/ /\ ~worker[w].owns /\ Succeeds /\ UNCHANGED inflight
       \/ /\ worker[w].owns /\ Fails("release") /\ UNCHANGED inflight
    /\ queue' = IF worker[w].enqueue /\ queue[worker[w].row] < MaxMessages
                THEN [queue EXCEPT ![worker[w].row] = @ + 1] ELSE queue
    /\ worker' = [worker EXCEPT ![w] = IdleWorker]
    /\ UNCHANGED <<pr, posted, rows, verdict>>

---------------------------------------------------------------------------
\* The daemon around the workers

\* Mutant: re-enqueues the latest row only.
PollLatest(r) ==
    /\ IsPending(r) /\ r = Len(rows)
    /\ rows[r].sha \notin inflight /\ queue[r] < MaxMessages
    /\ queue' = [queue EXCEPT ![r] = @ + 1]
    /\ UNCHANGED <<pr, posted, rows, inflight, worker, verdict, faults>>

\* PublishPending: every poll re-enqueues the pending rows whose commit is
\* not in flight.
Poll(r) ==
    /\ IsPending(r)
    /\ rows[r].sha \notin inflight /\ queue[r] < MaxMessages
    /\ queue' = [queue EXCEPT ![r] = @ + 1]
    /\ UNCHANGED <<pr, posted, rows, inflight, worker, verdict, faults>>

\* No subscriber, or a draining work gate.
LoseMessage(r) ==
    /\ queue[r] > 0 /\ Fails("lose")
    /\ queue' = [queue EXCEPT ![r] = @ - 1]
    /\ UNCHANGED <<pr, posted, rows, inflight, worker, verdict>>

\* Mutant: every claim is swept, however young.
SweepYoung(sha) ==
    /\ sha \in inflight
    /\ inflight' = inflight \ {sha}
    /\ UNCHANGED <<pr, posted, rows, queue, worker, verdict, faults>>

Owned(sha) == \E w \in Worker : worker[w].owns /\ worker[w].sha = sha

\* The periodic sweep goes by the age of a claim, not by its owner.
Sweep(sha) ==
    /\ sha \in inflight
    /\ IF Owned(sha) THEN Fails("outlive") ELSE Succeeds
    /\ inflight' = inflight \ {sha}
    /\ UNCHANGED <<pr, posted, rows, queue, worker, verdict>>

\* Death and restart: the messages are gone and a start clears every claim.
Crash ==
    /\ Fails("crash")
    /\ inflight' = {}
    /\ queue' = [r \in RowId |-> 0]
    /\ worker' = [w \in Worker |-> IdleWorker]
    /\ verdict' = NoVerdict
    /\ UNCHANGED <<pr, posted, rows>>

---------------------------------------------------------------------------
\* GitHub

GitHubOnly == UNCHANGED <<rows, inflight, queue, worker, verdict>>

Push ==
    /\ pr.head < MaxHead
    /\ pr' = [pr EXCEPT !.head = @ + 1, !.updated = Later, !.quiet = FALSE]
    /\ UNCHANGED posted /\ Succeeds /\ GitHubOnly

\* "Update branch" moves the standing reviews onto the merge commit.
UpdateBranch ==
    /\ pr.head < MaxHead
    /\ pr' = [pr EXCEPT !.head = @ + 1, !.updated = Later, !.quiet = FALSE]
    /\ posted' = [i \in DOMAIN posted |->
                     IF posted[i].standing
                     THEN [posted[i] EXCEPT !.sha = pr.head + 1] ELSE posted[i]]
    /\ Succeeds /\ GitHubOnly

CloseOrReopen ==
    /\ pr' = [pr EXCEPT !.open = ~@, !.updated = Later, !.quiet = FALSE]
    /\ UNCHANGED posted /\ Succeeds /\ GitHubOnly

Request ==
    /\ pr.events < MaxEvents
    /\ \E u \in {pr.updated, Later} :
         /\ IF u = Later THEN Succeeds ELSE Fails("second")
         /\ pr' = [pr EXCEPT !.requested = TRUE, !.asked = TRUE, !.events = @ + 1,
                             !.updated = u, !.quiet = u # Later]
    /\ UNCHANGED posted /\ GitHubOnly

Dismiss(i) ==
    /\ pr.events < MaxEvents /\ posted[i].standing
    /\ posted' = [posted EXCEPT ![i].standing = FALSE]
    /\ pr' = [pr EXCEPT !.asked = FALSE, !.events = @ + 1,
                        !.updated = Later, !.quiet = FALSE]
    /\ Succeeds /\ GitHubOnly

\* Another instance under the same account publishes for the present head.
PeerPost ==
    /\ Cardinality({i \in DOMAIN posted : posted[i].row = 0}) < MaxPeerPosts
    /\ posted' = Append(posted, [sha |-> pr.head, made |-> pr.head,
                                 row |-> 0, standing |-> TRUE])
    /\ pr' = [pr EXCEPT !.requested = FALSE, !.updated = Later, !.quiet = FALSE]
    /\ Succeeds /\ GitHubOnly

---------------------------------------------------------------------------
Init ==
    /\ pr = [head |-> 1, open |-> TRUE, requested |-> TRUE, asked |-> TRUE,
             events |-> 1, updated |-> 1, quiet |-> FALSE]
    /\ posted = <<>> /\ rows = <<>>
    /\ inflight = {}
    /\ queue = [r \in RowId |-> 0]
    /\ worker = [w \in Worker |-> IdleWorker]
    /\ verdict = NoVerdict
    /\ faults = 0

Proceed(w) ==
    \/ Claim(w) \/ Gate(w) \/ PeerCheck(w) \/ Generate(w)
    \/ Recheck(w) \/ Guard(w) \/ Submit(w) \/ Mark(w) \/ Release(w)

Environment ==
    \/ Push \/ UpdateBranch \/ CloseOrReopen \/ Request \/ PeerPost
    \/ \E i \in DOMAIN posted : Dismiss(i)

Next ==
    \/ \E w \in Automatic : Start(w)
    \/ \E w \in Manual : Trigger(w)
    \/ \E w \in Publisher, r \in RowId : Deliver(w, r)
    \/ \E w \in Worker : Proceed(w)
    \/ \E r \in RowId : Poll(r) \/ LoseMessage(r)
    \/ \E sha \in Commit : Sweep(sha)
    \/ Crash
    \/ Environment

Spec == Init /\ [][Next]_vars

\* The commit of row r is not being worked on.
Unclaimed(r) == r \in DOMAIN rows /\ rows[r].sha \notin inflight

\* Every worker goes on, polls and sweeps recur.  The runs of the automatic
\* path are a poll interval apart and hold the claim for a part of it, so the
\* polls, deliveries and claims of a deferred publication do not all fall
\* into them.  Nothing is assumed of GitHub or of faults.
Fairness ==
    /\ \A w \in Automatic : WF_vars(Start(w))
    /\ \A w \in Worker : WF_vars(Proceed(w))
    /\ \A sha \in Commit : WF_vars(Sweep(sha) /\ ~Owned(sha))
    /\ \A r \in RowId :
          /\ SF_vars(Poll(r))
          /\ SF_vars(\E w \in Publisher : Deliver(w, r) /\ Unclaimed(r))
    /\ \A w \in Publisher : SF_vars(Claim(w) /\ worker'[w].owns)

FairSpec == Spec /\ Fairness

---------------------------------------------------------------------------
\* Properties

\* Every value in its type; a published row names a review GitHub has.
TypeOK ==
    /\ pr \in PullRequests
    /\ posted \in Seq(Posts)
    /\ rows \in Seq(Rows) /\ Len(rows) <= MaxRows
    /\ \A r \in DOMAIN rows : rows[r].gh \in Superseded..Len(posted)
    /\ inflight \subseteq Commit
    /\ queue \in [RowId -> 0..MaxMessages]
    /\ worker \in [Worker -> Workers]
    /\ verdict \in Verdicts
    /\ faults \in 0..MaxFaults

OwnPosts(sha) ==
    {i \in DOMAIN posted : posted[i].row # 0 /\ posted[i].standing
                           /\ posted[i].made = sha /\ posted[i].sha = sha}

Generated(sha) == {r \in DOMAIN rows : rows[r].made = sha}

\* Placeholders that took a review of this daemon for another instance's.
Misread(sha) == {r \in DOMAIN rows : rows[r].made = 0 /\ rows[r].gh \in OwnPosts(sha)}

\* However replies, records and processes are lost between the submission of
\* a review and the record of it, no stored review is published twice, except
\* once for every placeholder that took such an unrecorded review for
\* another instance's: the guard counts each review on GitHub for one row.
\* Only with one publish worker, no failed claim or lookup of a peer's review
\* and no claim swept under a run; SubmissionsBounded says what holds otherwise.
PostsAccounted ==
    \A sha \in Commit :
        Cardinality(OwnPosts(sha))
            <= Cardinality(Generated(sha)) + Cardinality(Misread(sha))

\* configuration-guide.md of the check before a submission: if a review of
\* this login is already anchored to the commit, the daemon "does not publish
\* a second".  The reviews standing on a commit never outnumber those generated for it.
PostsWithinRows ==
    \A sha \in Commit : Cardinality(OwnPosts(sha)) <= Cardinality(Generated(sha))

\* A stored review is submitted at most once for every publish worker (each may
\* hold a message for which it read the row before it claimed the commit) and
\* once more for every call that failed, process that died and claim that was
\* swept under a run, by whatever paths the row travels.
SubmissionsBounded ==
    \A r \in DOMAIN rows :
        Cardinality({i \in DOMAIN posted : posted[i].row = r})
            <= Cardinality(Publisher) + faults

\* The gate's verdict still holds when the agent's result is stored: an
\* automatic run never reviews the commit of the latest review again without
\* a request event after that review.  Only with one publish worker and claims
\* that neither fail nor are swept under a run.
NoUnaskedRereview ==
    [][\A w \in Automatic :
          /\ At(w, "generate") /\ worker'[w].pc = "recheck"
          /\ HasPrevious /\ Previous.sha = worker[w].sha
          => Previous.seen < pr.events]_vars

\* A stored review does not stay pending for ever, whatever message, reply,
\* claim or process was lost on the way.
PendingResolved == \A r \in RowId : IsPending(r) ~> ~IsPending(r)

\* The bot is asked for a review that the latest stored one does not answer.
Unserved ==
    /\ pr.open /\ pr.requested
    /\ \/ ~HasPrevious
       \/ pr.asked /\ pr.events > Previous.seen
       \/ Previous.sha # pr.head /\ ~Reanchored(pr.head)

\* The gate remembers a skip for the pull request as it is now.
Remembered ==
    HasPrevious /\ verdict = [row |-> Len(rows), sha |-> pr.head, updated |-> pr.updated]

\* A request on an open pull request is answered by a review stored after it
\* (the bound on stored reviews excepted): no leaked claim, failed lookup, crash,
\* late review of an older commit or remembered skip makes the daemon ignore it
\* for ever, but for a request that left updated_at as it was when the skip was
\* remembered.
RequestServed ==
    Unserved ~> ~Unserved \/ (Remembered /\ pr.quiet) \/ Len(rows) = MaxRows
=============================================================================
