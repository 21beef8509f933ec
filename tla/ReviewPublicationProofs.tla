----------------------- MODULE ReviewPublicationProofs -----------------------
(***************************************************************************)
(* Proofs about the reviews of one pull request, for every set of workers, *)
(* every bound and every kind of fault.                                    *)
(***************************************************************************)
EXTENDS ReviewPublication, ProofLemmas

---------------------------------------------------------------------------
\* What every state looks like, whatever fails.

\* A worker has a row to publish.
Publishing == {"recheck", "guard", "submit", "mark"}

\* A reviewer may still append a row.
Early == {"claim", "gate", "peer", "generate"}

Coming == {w \in Reviewer : worker[w].pc \in Early}

WorkerFits(w) ==
    /\ At(w, "idle") => worker[w] = IdleWorker
    /\ ~At(w, "idle") => worker[w].sha \in 1..pr.head
    /\ worker[w].pc \in Early /\ w \in Reviewer => worker[w].row = 0
    /\ worker[w].row \in 0..Len(rows)
    /\ worker[w].pc \in Publishing \/ worker[w].enqueue => worker[w].row # 0
    /\ w \in Publisher /\ ~At(w, "idle")
          => worker[w].row # 0 /\ worker[w].pc \notin {"gate", "peer", "generate"}
    /\ At(w, "mark") => worker[w].gh \in 1..Len(posted)
    /\ At(w, "claim") => ~worker[w].owns
    /\ worker[w].enqueue => w \in Automatic

QueueFits == \A r \in RowId : queue[r] > 0 => r \in 1..Len(rows)

RowsFit ==
    \A r \in 1..Len(rows) : /\ rows[r].gh = Pending => rows[r].made = rows[r].sha
                            /\ rows[r].sha <= pr.head

PostsFit == \A i \in 1..Len(posted) : posted[i].made <= pr.head

RoomFits == Len(rows) + Cardinality(Coming) <= MaxRows

Shape ==
    /\ \A w \in Worker : WorkerFits(w)
    /\ QueueFits /\ RowsFit /\ PostsFit /\ RoomFits

Core == TypeOK /\ Shape

---------------------------------------------------------------------------
\* Steps as facts about the fields they change.

\* Only worker w moves, to the given state.
Becomes(w, pc, sha, row, owns, gh, enqueue) ==
    /\ worker' \in [Worker -> Workers]
    /\ worker'[w].pc = pc /\ worker'[w].sha = sha /\ worker'[w].row = row
    /\ worker'[w].owns = owns /\ worker'[w].gh = gh
    /\ worker'[w].enqueue = enqueue
    /\ \A v \in Worker \ {w} : worker'[v] = worker[v]

Moves(w, pc) ==
    Becomes(w, pc, worker[w].sha, worker[w].row, worker[w].owns, worker[w].gh,
            worker[w].enqueue)

Ends(w) ==
    Becomes(w, "release", worker[w].sha, worker[w].row, worker[w].owns,
            worker[w].gh, w \in Automatic)

Stops(w) ==
    Becomes(w, "idle", 0, 0, FALSE, 0, FALSE) /\ worker'[w] = IdleWorker

\* Row r gets the given resolution, or the given commit.
RowBecomes(r, gh, sha) ==
    /\ rows' \in Seq(Rows) /\ Len(rows') = Len(rows)
    /\ r \in 1..Len(rows)
    /\ rows'[r].gh = gh /\ rows'[r].sha = sha
    /\ rows'[r].seen = rows[r].seen /\ rows'[r].made = rows[r].made
    /\ \A q \in 1..Len(rows) : q # r => rows'[q] = rows[q]

Resolves(r, gh) == RowBecomes(r, gh, rows[r].sha)

\* A row is appended.
Adds(gh, sha, seen, made) ==
    /\ rows' \in Seq(Rows) /\ Len(rows') = Len(rows) + 1
    /\ rows'[Len(rows) + 1].gh = gh /\ rows'[Len(rows) + 1].sha = sha
    /\ rows'[Len(rows) + 1].seen = seen /\ rows'[Len(rows) + 1].made = made
    /\ \A q \in 1..Len(rows) : rows'[q] = rows[q]

\* A review appears on GitHub.
Posted(sha, row) ==
    /\ pr' \in PullRequests /\ pr'.head = pr.head /\ pr'.events = pr.events
    /\ posted' \in Seq(Posts) /\ Len(posted') = Len(posted) + 1
    /\ posted'[Len(posted) + 1].sha = sha /\ posted'[Len(posted) + 1].made = sha
    /\ posted'[Len(posted) + 1].row = row /\ posted'[Len(posted) + 1].standing
    /\ \A i \in 1..Len(posted) : posted'[i] = posted[i]

\* The fields of a worker and of the request are typed.
LEMMA WorkerFields ==
    ASSUME TypeOK, NEW w \in Worker
    PROVE  /\ worker[w] \in Workers
           /\ worker[w].pc \in Steps /\ worker[w].sha \in 0..MaxHead
           /\ worker[w].updated \in Stamp
           /\ worker[w].row \in 0..MaxRows /\ worker[w].owns \in BOOLEAN
           /\ worker[w].gh \in Nat /\ worker[w].enqueue \in BOOLEAN
BY DEF TypeOK, Workers

\* The fields of the pull request are typed.
LEMMA RequestFields ==
    ASSUME TypeOK
    PROVE  /\ pr.head \in Commit /\ pr.events \in 0..MaxEvents
           /\ pr.open \in BOOLEAN /\ pr.requested \in BOOLEAN /\ pr.asked \in BOOLEAN
           /\ pr.updated \in Stamp /\ pr.quiet \in BOOLEAN
BY DEF TypeOK, PullRequests

\* There are stamps,
LEMMA StampType == Cardinality(Automatic) \in Nat /\ 0 \in Stamp /\ 1 \in Stamp
<1>1. Automatic \in SUBSET Worker
  BY DEF Worker, Reviewer
<1>2. Cardinality(Automatic) \in Nat
  BY <1>1, WorkerAssumption, FewerElements
<1> QED
  BY <1>2 DEF Stamp

\* and one that nobody remembers.
LEMMA LaterTyped == Later \in Stamp
<1> DEFINE remembered == {worker[w].updated : w \in Automatic} \cup {verdict.updated}
<1>1. \E u \in Stamp : u \notin remembered \/ Stamp \subseteq remembered
  BY StampType
<1>2. Later = CHOOSE u \in Stamp : u \notin remembered \/ Stamp \subseteq remembered
  BY DEF Later
<1> HIDE DEF remembered
<1> QED
  BY <1>1, <1>2

\* The fields of the rows and of the reviews on GitHub are typed.
LEMMA RowFields ==
    ASSUME TypeOK
    PROVE  /\ Len(rows) \in Nat /\ DOMAIN rows = 1..Len(rows)
           /\ Len(posted) \in Nat /\ DOMAIN posted = 1..Len(posted)
           /\ \A r \in 1..Len(rows) :
                /\ rows[r] \in Rows
                /\ rows[r].gh \in Superseded..Len(posted) /\ rows[r].sha \in Commit
                /\ rows[r].seen \in 0..MaxEvents /\ rows[r].made \in 0..MaxHead
                /\ rows[r].forced \in BOOLEAN
           /\ \A i \in 1..Len(posted) :
                /\ posted[i] \in Posts
                /\ posted[i].sha \in Commit /\ posted[i].made \in Commit
                /\ posted[i].row \in 0..MaxRows /\ posted[i].standing \in BOOLEAN
<1>1. rows \in Seq(Rows) /\ posted \in Seq(Posts)
  BY DEF TypeOK
<1>2. /\ Len(rows) \in Nat /\ DOMAIN rows = 1..Len(rows)
      /\ Len(posted) \in Nat /\ DOMAIN posted = 1..Len(posted)
  BY <1>1, LenProperties
<1>3. \A r \in 1..Len(rows) : rows[r] \in Rows
  BY <1>1, ElementOfSeq
<1>4. \A i \in 1..Len(posted) : posted[i] \in Posts
  BY <1>1, ElementOfSeq
<1> QED
  BY <1>2, <1>3, <1>4 DEF TypeOK, Rows, Posts

\* A worker goes to another step.
LEMMA GotoStep ==
    ASSUME TypeOK, NEW w \in Worker, NEW pc \in Steps, Goto(w, pc)
    PROVE  Moves(w, pc)
<1>1. [worker[w] EXCEPT !.pc = pc] \in Workers
  BY WorkerFields DEF Workers
<1>2. /\ worker' \in [Worker -> Workers]
      /\ worker'[w] = [worker[w] EXCEPT !.pc = pc]
      /\ \A v \in Worker \ {w} : worker'[v] = worker[v]
  BY <1>1 DEF TypeOK, Goto
<1> QED
  BY <1>2, WorkerFields DEF Becomes, Moves, Workers

\* A worker stops.
LEMMA IdleStep ==
    ASSUME TypeOK, NEW w \in Worker, worker' = [worker EXCEPT ![w] = IdleWorker]
    PROVE  Stops(w)
<1>1. IdleWorker \in Workers
  BY StampType, BoundAssumption DEF IdleWorker, Workers, Steps
<1>2. /\ worker' \in [Worker -> Workers] /\ worker'[w] = IdleWorker
      /\ \A v \in Worker \ {w} : worker'[v] = worker[v]
  BY <1>1 DEF TypeOK
<1> QED
  BY <1>2 DEF Stops, Becomes, IdleWorker

\* A worker takes the claim.
LEMMA TakeStep ==
    ASSUME TypeOK, NEW w \in Worker, NEW pc \in Steps,
           worker' = [worker EXCEPT ![w].pc = pc, ![w].owns = TRUE]
    PROVE  Becomes(w, pc, worker[w].sha, worker[w].row, TRUE, worker[w].gh,
                   worker[w].enqueue)
<1>1. [worker[w] EXCEPT !.pc = pc, !.owns = TRUE] \in Workers
  BY WorkerFields DEF Workers
<1>2. /\ worker' \in [Worker -> Workers]
      /\ worker'[w] = [worker[w] EXCEPT !.pc = pc, !.owns = TRUE]
      /\ \A v \in Worker \ {w} : worker'[v] = worker[v]
  BY <1>1 DEF TypeOK
<1> QED
  BY <1>2, WorkerFields DEF Becomes, Workers

\* A run ends with or without a message to enqueue.
LEMMA EnqueueStep ==
    ASSUME TypeOK, NEW w \in Worker, NEW enqueue \in BOOLEAN,
           worker' = [worker EXCEPT ![w].pc = "release", ![w].enqueue = enqueue]
    PROVE  Becomes(w, "release", worker[w].sha, worker[w].row, worker[w].owns,
                   worker[w].gh, enqueue)
<1>1. [worker[w] EXCEPT !.pc = "release", !.enqueue = enqueue] \in Workers
  BY WorkerFields DEF Workers, Steps
<1>2. /\ worker' \in [Worker -> Workers]
      /\ worker'[w] = [worker[w] EXCEPT !.pc = "release", !.enqueue = enqueue]
      /\ \A v \in Worker \ {w} : worker'[v] = worker[v]
  BY <1>1 DEF TypeOK
<1> QED
  BY <1>2, WorkerFields DEF Becomes, Workers

\* A run could not publish.
LEMMA EndStep ==
    ASSUME TypeOK, NEW w \in Worker, NotPublished(w)
    PROVE  Ends(w)
<1>1. (w \in Automatic) \in BOOLEAN
  OBVIOUS
<1> QED
  BY <1>1, EnqueueStep DEF Ends, NotPublished

\* The idle state is typed.
LEMMA IdleFields ==
    /\ IdleWorker \in Workers
    /\ IdleWorker.pc = "idle" /\ IdleWorker.sha = 0 /\ IdleWorker.row = 0
    /\ ~IdleWorker.owns /\ IdleWorker.gh = 0 /\ ~IdleWorker.enqueue
BY StampType, BoundAssumption DEF IdleWorker, Workers, Steps

\* The gate remembers nothing at first.
LEMMA NothingRemembered == NoVerdict \in Verdicts
BY StampType, BoundAssumption DEF NoVerdict, Verdicts

\* A worker takes up a row of the store.
LEMMA CommitStep ==
    ASSUME TypeOK, NEW w \in Worker, NEW sha \in 0..MaxHead, NEW row \in 0..MaxRows,
           worker' = [worker EXCEPT ![w] = [IdleWorker EXCEPT !.pc = "claim",
                                            !.sha = sha, !.row = row]]
    PROVE  Becomes(w, "claim", sha, row, FALSE, 0, FALSE)
<1> DEFINE x == [IdleWorker EXCEPT !.pc = "claim", !.sha = sha, !.row = row]
<1>1. x \in Workers
  BY IdleFields DEF Workers, Steps
<1>2. /\ x.pc = "claim" /\ x.sha = sha /\ x.row = row
      /\ x.owns = FALSE /\ x.gh = 0 /\ x.enqueue = FALSE
  BY IdleFields DEF Workers
<1>3. /\ worker' \in [Worker -> Workers] /\ worker'[w] = x
      /\ \A v \in Worker \ {w} : worker'[v] = worker[v]
  <2> HIDE DEF x
  <2> QED
    BY <1>1 DEF TypeOK, x
<1> QED
  BY <1>2, <1>3 DEF Becomes

\* A worker that was idle takes up a commit.
LEMMA HeadStep ==
    ASSUME TypeOK, NEW w \in Worker, NEW sha \in 0..MaxHead, NEW u \in Stamp,
           worker[w] = IdleWorker,
           worker' = [worker EXCEPT ![w].pc = "claim", ![w].sha = sha, ![w].updated = u]
    PROVE  Becomes(w, "claim", sha, 0, FALSE, 0, FALSE)
<1>1. [worker[w] EXCEPT !.pc = "claim", !.sha = sha, !.updated = u] \in Workers
  BY WorkerFields DEF Workers, Steps
<1>2. /\ worker' \in [Worker -> Workers]
      /\ worker'[w] = [worker[w] EXCEPT !.pc = "claim", !.sha = sha, !.updated = u]
      /\ \A v \in Worker \ {w} : worker'[v] = worker[v]
  BY <1>1 DEF TypeOK
<1> QED
  BY <1>2, IdleFields DEF Becomes, Workers

\* So does one that does not look at updated_at.
LEMMA TriggerStep ==
    ASSUME TypeOK, NEW w \in Worker, NEW sha \in 0..MaxHead, worker[w] = IdleWorker,
           worker' = [worker EXCEPT ![w].pc = "claim", ![w].sha = sha]
    PROVE  Becomes(w, "claim", sha, 0, FALSE, 0, FALSE)
<1>1. [worker[w] EXCEPT !.pc = "claim", !.sha = sha] \in Workers
  BY WorkerFields DEF Workers, Steps
<1>2. /\ worker' \in [Worker -> Workers]
      /\ worker'[w] = [worker[w] EXCEPT !.pc = "claim", !.sha = sha]
      /\ \A v \in Worker \ {w} : worker'[v] = worker[v]
  BY <1>1 DEF TypeOK
<1> QED
  BY <1>2, IdleFields DEF Becomes, Workers

\* The gate's run goes on or ends.
LEMMA GateStep ==
    ASSUME TypeOK, NEW w \in Worker, NEW pc \in Steps,
           worker' = [worker EXCEPT ![w].updated = 0, ![w].pc = pc]
    PROVE  Moves(w, pc)
<1>1. [worker[w] EXCEPT !.updated = 0, !.pc = pc] \in Workers
  BY WorkerFields, StampType DEF Workers
<1>2. /\ worker' \in [Worker -> Workers]
      /\ worker'[w] = [worker[w] EXCEPT !.updated = 0, !.pc = pc]
      /\ \A v \in Worker \ {w} : worker'[v] = worker[v]
  BY <1>1 DEF TypeOK
<1> QED
  BY <1>2, WorkerFields DEF Becomes, Moves, Workers

\* A row is resolved.
LEMMA ResolveStep ==
    ASSUME TypeOK, NEW r \in 1..Len(rows), NEW gh \in Int,
           rows' = [rows EXCEPT ![r].gh = gh]
    PROVE  Resolves(r, gh)
<1> DEFINE x == [rows[r] EXCEPT !.gh = gh]
<1>1. x \in Rows
  BY RowFields DEF Rows
<1>2. rows \in Seq(Rows) /\ rows' = [rows EXCEPT ![r] = x]
  BY DEF TypeOK
<1>3. /\ rows' \in Seq(Rows) /\ Len(rows') = Len(rows)
      /\ \A q \in 1..Len(rows) : rows'[q] = IF q = r THEN x ELSE rows[q]
  <2> HIDE DEF x
  <2> QED
    BY <1>1, <1>2, ExceptSeq
<1>4. /\ x.gh = gh /\ x.sha = rows[r].sha /\ x.seen = rows[r].seen
      /\ x.made = rows[r].made
  BY RowFields DEF Rows
<1> QED
  BY <1>3, <1>4 DEF Resolves, RowBecomes

\* A row is re-anchored.
LEMMA ReanchorStep ==
    ASSUME TypeOK, NEW r \in 1..Len(rows), NEW sha \in Commit,
           rows' = [rows EXCEPT ![r].sha = sha]
    PROVE  RowBecomes(r, rows[r].gh, sha)
<1> DEFINE x == [rows[r] EXCEPT !.sha = sha]
<1>1. x \in Rows
  BY RowFields DEF Rows
<1>2. rows \in Seq(Rows) /\ rows' = [rows EXCEPT ![r] = x]
  BY DEF TypeOK
<1>3. /\ rows' \in Seq(Rows) /\ Len(rows') = Len(rows)
      /\ \A q \in 1..Len(rows) : rows'[q] = IF q = r THEN x ELSE rows[q]
  <2> HIDE DEF x
  <2> QED
    BY <1>1, <1>2, ExceptSeq
<1>4. /\ x.gh = rows[r].gh /\ x.sha = sha /\ x.seen = rows[r].seen
      /\ x.made = rows[r].made
  BY RowFields DEF Rows
<1> QED
  BY <1>3, <1>4 DEF RowBecomes

\* A row is stored.
LEMMA AddStep ==
    ASSUME TypeOK, NEW x \in Rows, rows' = Append(rows, x)
    PROVE  Adds(x.gh, x.sha, x.seen, x.made)
<1>1. rows \in Seq(Rows)
  BY DEF TypeOK
<1> QED
  BY <1>1, RowFields, AppendProperties DEF Adds

\* A review is submitted by a worker or by another instance.
LEMMA PostStep ==
    ASSUME TypeOK, NEW sha \in Commit, NEW row \in 0..MaxRows,
           posted' = Append(posted, [sha |-> sha, made |-> sha, row |-> row,
                                     standing |-> TRUE]),
           pr' = [pr EXCEPT !.requested = FALSE, !.updated = Later, !.quiet = FALSE]
    PROVE  Posted(sha, row)
<1> DEFINE x == [sha |-> sha, made |-> sha, row |-> row, standing |-> TRUE]
<1>1. x \in Posts
  BY DEF Posts
<1>2. posted \in Seq(Posts)
  BY DEF TypeOK
<1>3. /\ posted' \in Seq(Posts) /\ Len(posted') = Len(posted) + 1
      /\ posted'[Len(posted) + 1] = x
      /\ \A i \in 1..Len(posted) : posted'[i] = posted[i]
  <2> HIDE DEF x
  <2> QED
    BY <1>1, <1>2, AppendProperties DEF x
<1>4. pr' \in PullRequests /\ pr'.head = pr.head /\ pr'.events = pr.events
  BY LaterTyped DEF TypeOK, PullRequests
<1> QED
  BY <1>3, <1>4 DEF Posted

---------------------------------------------------------------------------
\* What each action does to these fields.

\* A fault is counted within its bound.
LEMMA FaultCounted ==
    ASSUME TypeOK, Succeeds \/ \E kind \in Fault : Fails(kind)
    PROVE  faults' \in faults..MaxFaults
BY BoundAssumption DEF TypeOK, Succeeds, Fails

\* Of a set of reviews on GitHub that is not empty, Newest is a member.
LEMMA NewestMember ==
    ASSUME TypeOK, NEW sha, PeersOn(sha) # {}
    PROVE  Newest(PeersOn(sha)) \in PeersOn(sha)
<1>1. PeersOn(sha) \in SUBSET (0..Len(posted))
  BY RowFields DEF PeersOn
<1>2. \E i \in PeersOn(sha) : \A k \in PeersOn(sha) : k <= i
  BY <1>1, RowFields, GreatestNatural
<1> QED
  BY <1>2 DEF Newest

\* There is room for the review of a run that has not stored one.
LEMMA ComingRoom ==
    ASSUME Core
    PROVE  /\ IsFiniteSet(Reviewer) /\ IsFiniteSet(Coming)
           /\ \A w \in Coming : Len(rows) + 1 <= MaxRows
<1>1. IsFiniteSet(Reviewer) /\ IsFiniteSet(Coming)
  <2>1. Reviewer \in SUBSET Worker /\ Coming \in SUBSET Worker
    BY DEF Worker, Coming
  <2> QED
    BY <2>1, WorkerAssumption, FS_Subset
<1>2. Cardinality(Coming) \in Nat
  BY <1>1, FS_CardinalityType
<1>3. \A w \in Coming : Cardinality(Coming) # 0
  BY <1>1, FS_EmptySet
<1> QED
  BY <1>1, <1>2, <1>3, RowFields, BoundAssumption DEF Core, Shape, RoomFits

\* The resolutions without a review are numbers of their own.
LEMMA Resolutions ==
    /\ Orphaned \in Int /\ Superseded \in Int /\ Pending \in Int
    /\ Superseded < Orphaned /\ Orphaned < Pending
BY DEF Orphaned, Superseded, Pending

\* A worker that is not idle has a commit; one that publishes or enqueues
\* has a row of the store.
LEMMA Busy ==
    ASSUME Core, NEW w \in Worker
    PROVE  /\ worker[w].pc # "idle" => worker[w].sha \in Commit
           /\ worker[w].pc \in Publishing \/ worker[w].enqueue
                 => worker[w].row \in 1..Len(rows) /\ worker[w].row \in RowId
<1>1. WorkerFits(w) /\ TypeOK
  BY DEF Core, Shape
<1>2. worker[w].pc # "idle" => worker[w].sha \in Commit
  BY <1>1, RequestFields, BoundAssumption DEF WorkerFits, At, Commit
<1>3. /\ worker[w].row \in 0..Len(rows) /\ Len(rows) \in Nat /\ Len(rows) <= MaxRows
      /\ worker[w].pc \in Publishing \/ worker[w].enqueue => worker[w].row # 0
  BY <1>1, RowFields DEF WorkerFits, TypeOK
<1> QED
  BY <1>2, <1>3, BoundAssumption DEF RowId

\* A review message or the button starts a run.
LEMMA StartCases ==
    ASSUME Core, NEW w \in Reviewer, Start(w) \/ Trigger(w)
    PROVE  /\ At(w, "idle") /\ RoomForReview
           /\ Becomes(w, "claim", pr.head, 0, FALSE, 0, FALSE)
           /\ UNCHANGED <<pr, posted, rows, inflight, queue, verdict, faults>>
<1>1. w \in Worker /\ worker[w] = IdleWorker
  BY DEF Core, Shape, WorkerFits, Start, Trigger, Worker
<1>2. pr.head \in 0..MaxHead /\ pr.updated \in Stamp
  BY RequestFields, BoundAssumption DEF Core, Commit
<1>3. CASE Start(w)
  <2>1. worker' = [worker EXCEPT ![w].pc = "claim", ![w].sha = pr.head,
                                 ![w].updated = pr.updated]
    BY <1>3 DEF Start
  <2>2. Becomes(w, "claim", pr.head, 0, FALSE, 0, FALSE)
    BY <1>1, <1>2, <2>1, HeadStep DEF Core
  <2> QED
    BY <1>3, <2>2 DEF Start
<1>4. CASE Trigger(w)
  <2>1. worker' = [worker EXCEPT ![w].pc = "claim", ![w].sha = pr.head]
    BY <1>4 DEF Trigger
  <2>2. Becomes(w, "claim", pr.head, 0, FALSE, 0, FALSE)
    BY <1>1, <1>2, <2>1, TriggerStep DEF Core
  <2> QED
    BY <1>4, <2>2 DEF Trigger
<1> QED
  BY <1>3, <1>4

\* A publisher takes a message and looks at the row.
LEMMA DeliverCases ==
    ASSUME Core, NEW w \in Publisher, NEW r \in RowId, Deliver(w, r)
    PROVE  /\ At(w, "idle") /\ queue[r] > 0 /\ r \in 1..Len(rows)
           /\ queue' \in [RowId -> 0..MaxMessages]
           /\ queue'[r] = queue[r] - 1
           /\ \A q \in RowId \ {r} : queue'[q] = queue[q]
           /\ \/ /\ rows[r].gh = Pending
                 /\ Becomes(w, "claim", rows[r].sha, r, FALSE, 0, FALSE)
              \/ UNCHANGED worker
           /\ UNCHANGED <<pr, posted, rows, inflight, verdict, faults>>
<1>1. w \in Worker /\ queue[r] > 0 /\ r \in 1..Len(rows)
  BY DEF Core, Shape, QueueFits, Deliver, Worker
<1>2. /\ queue' \in [RowId -> 0..MaxMessages]
      /\ queue'[r] = queue[r] - 1
      /\ \A q \in RowId \ {r} : queue'[q] = queue[q]
  BY BoundAssumption DEF Core, TypeOK, Deliver
<1>3. CASE rows[r].gh = Pending
  <2>1. rows[r].sha \in 0..MaxHead /\ r \in 0..MaxRows
    BY <1>1, RowFields, BoundAssumption DEF Core, RowId, Commit
  <2>2. worker' = [worker EXCEPT ![w] = [IdleWorker EXCEPT !.pc = "claim",
                                         !.sha = rows[r].sha, !.row = r]]
    BY <1>3 DEF Deliver
  <2>3. Becomes(w, "claim", rows[r].sha, r, FALSE, 0, FALSE)
    BY <1>1, <2>1, <2>2, CommitStep DEF Core
  <2> QED
    BY <1>1, <1>2, <1>3, <2>3 DEF Deliver
<1>4. CASE rows[r].gh # Pending
  BY <1>1, <1>2, <1>4 DEF Deliver
<1> QED
  BY <1>3, <1>4

\* The claim is taken, refused or, when the store fails, done without.
LEMMA ClaimCases ==
    ASSUME Core, NEW w \in Worker, Claim(w)
    PROVE  /\ At(w, "claim") /\ faults' \in faults..MaxFaults
           /\ UNCHANGED <<pr, posted, rows, queue, verdict>>
           /\ \/ /\ worker[w].sha \notin inflight
                 /\ inflight' = inflight \cup {worker[w].sha}
                 /\ Becomes(w, AfterClaim(w), worker[w].sha, worker[w].row, TRUE,
                            worker[w].gh, worker[w].enqueue)
              \/ UNCHANGED inflight /\ Stops(w)
              \/ /\ w \notin Publisher /\ UNCHANGED inflight
                 /\ Moves(w, AfterClaim(w)) /\ faults' = faults + 1
<1>1. AfterClaim(w) \in Steps
  BY DEF AfterClaim, Steps
<1>2. faults' \in faults..MaxFaults
  BY FaultCounted DEF Claim, Core, Succeeds, Fails
<1>3. CASE /\ worker[w].sha \notin inflight
           /\ inflight' = inflight \cup {worker[w].sha}
           /\ worker' = [worker EXCEPT ![w].pc = AfterClaim(w), ![w].owns = TRUE]
  BY <1>1, <1>2, <1>3, TakeStep DEF Core, Claim
<1>4. CASE /\ worker' = [worker EXCEPT ![w] = IdleWorker]
           /\ UNCHANGED inflight
  BY <1>2, <1>4, IdleStep DEF Core, Claim
<1>5. CASE /\ Fails("claim") /\ w \notin Publisher
           /\ worker' = [worker EXCEPT ![w].pc = AfterClaim(w)]
           /\ UNCHANGED inflight
  <2>1. Moves(w, AfterClaim(w))
    BY <1>1, <1>5, GotoStep DEF Core, Goto
  <2> QED
    BY <1>2, <1>5, <2>1 DEF Claim, Fails
<1> QED
  BY <1>3, <1>4, <1>5 DEF Claim

\* The gate lets the run go on, ends it, or moves the latest row with a
\* review that GitHub re-anchored.
LEMMA GateCases ==
    ASSUME Core, NEW w \in Worker, Gate(w)
    PROVE  /\ At(w, "gate") /\ faults' \in faults..MaxFaults
           /\ UNCHANGED <<pr, posted, inflight, queue>> /\ verdict' \in Verdicts
           /\ \/ Moves(w, "peer") /\ UNCHANGED rows
              \/ Moves(w, "release") /\ UNCHANGED rows
              \/ /\ Moves(w, "release") /\ Previous.gh > 0
                 /\ posted[Previous.gh].sha = worker[w].sha
                 /\ RowBecomes(Len(rows), Previous.gh, worker[w].sha)
<1> DEFINE sha == worker[w].sha
<1>1. faults' \in faults..MaxFaults
  BY FaultCounted DEF Gate, Core, Succeeds, Fails
<1>2. "peer" \in Steps /\ "release" \in Steps
  BY DEF Steps
<1>3. verdict \in Verdicts /\ NoVerdict \in Verdicts /\ GateKey(w) \in Verdicts
  <2>1. worker[w].sha \in 0..MaxHead /\ worker[w].updated \in Stamp
    BY WorkerFields DEF Core
  <2>2. Len(rows) \in 0..MaxRows
    BY RowFields, BoundAssumption DEF Core, TypeOK
  <2> QED
    BY <2>1, <2>2, StampType, BoundAssumption
       DEF Core, TypeOK, Verdicts, NoVerdict, GateKey
<1>4. CASE Goto(w, "release") /\ UNCHANGED <<rows, verdict>>
  <2>1. Moves(w, "release")
    BY <1>2, <1>4, GotoStep DEF Core
  <2> QED
    BY <1>1, <1>3, <1>4, <2>1 DEF Gate
<1>5. CASE \E failed \in BOOLEAN, moved \in {Reanchored(sha), FALSE} :
             LET outcome == Verdict(AskedAgain /\ ~failed, moved, sha) IN
             /\ worker' = [worker EXCEPT ![w].updated = 0,
                             ![w].pc = IF outcome = "review" THEN "peer" ELSE "release"]
             /\ rows' = IF outcome = "covered"
                        THEN [rows EXCEPT ![Len(rows)].sha = sha] ELSE rows
             /\ verdict' = Remember(w, outcome, failed)
  <2>1. PICK failed \in BOOLEAN, moved \in {Reanchored(sha), FALSE},
             outcome \in {"review", "covered", "skip"} :
          /\ outcome = Verdict(AskedAgain /\ ~failed, moved, sha)
          /\ worker' = [worker EXCEPT ![w].updated = 0,
                          ![w].pc = IF outcome = "review" THEN "peer" ELSE "release"]
          /\ rows' = IF outcome = "covered"
                     THEN [rows EXCEPT ![Len(rows)].sha = sha] ELSE rows
          /\ verdict' = Remember(w, outcome, failed)
    <3>1. \A asked, moved : Verdict(asked, moved, sha) \in {"review", "covered", "skip"}
      BY DEF Verdict
    <3>2. PICK failed \in BOOLEAN, moved \in {Reanchored(sha), FALSE} :
            LET outcome == Verdict(AskedAgain /\ ~failed, moved, sha) IN
            /\ worker' = [worker EXCEPT ![w].updated = 0,
                            ![w].pc = IF outcome = "review" THEN "peer" ELSE "release"]
            /\ rows' = IF outcome = "covered"
                       THEN [rows EXCEPT ![Len(rows)].sha = sha] ELSE rows
            /\ verdict' = Remember(w, outcome, failed)
      BY <1>5
    <3>3. PICK outcome \in {"review", "covered", "skip"} :
            outcome = Verdict(AskedAgain /\ ~failed, moved, sha)
      BY <3>1
    <3> QED
      BY <3>2, <3>3
  <2>2. verdict' \in Verdicts
    BY <1>3, <2>1 DEF Remember
  <2>3. CASE outcome = "review"
    <3>1. Moves(w, "peer") /\ UNCHANGED rows
      BY <1>2, <2>1, <2>3, GateStep DEF Core
    <3> QED
      BY <1>1, <2>2, <3>1 DEF Gate
  <2>4. CASE outcome = "skip"
    <3>1. Moves(w, "release") /\ UNCHANGED rows
      BY <1>2, <2>1, <2>4, GateStep DEF Core
    <3> QED
      BY <1>1, <2>2, <3>1 DEF Gate
  <2>5. CASE outcome = "covered"
    <3>1. Moves(w, "release") /\ rows' = [rows EXCEPT ![Len(rows)].sha = sha]
      BY <1>2, <2>1, <2>5, GateStep DEF Core
    <3>2. Reanchored(sha)
      BY <2>1, <2>5 DEF Verdict
    <3>3. Len(rows) \in 1..Len(rows)
      BY <3>2, RowFields, EmptySeq DEF Reanchored, HasPrevious, Core, TypeOK
    <3>4. Previous.gh > 0 /\ posted[Previous.gh].sha = sha
      BY <3>2 DEF Reanchored
    <3>5. sha \in Commit
      BY <3>3, <3>4, RowFields DEF Core, Previous
    <3>6. RowBecomes(Len(rows), Previous.gh, sha)
      BY <3>1, <3>3, <3>5, ReanchorStep DEF Core, Previous
    <3> QED
      BY <1>1, <2>2, <3>1, <3>4, <3>6 DEF Gate
  <2> QED
    BY <2>1, <2>3, <2>4, <2>5
<1> QED
  BY <1>4, <1>5 DEF Gate

\* The check before generation finds nothing, or records a review in a row.
LEMMA PeerCases ==
    ASSUME Core, NEW w \in Reviewer, PeerCheck(w)
    PROVE  /\ At(w, "peer") /\ faults' \in faults..MaxFaults
           /\ UNCHANGED <<pr, posted, inflight, queue, verdict>>
           /\ \/ Moves(w, "generate") /\ UNCHANGED rows
              \/ Moves(w, "release") /\ UNCHANGED rows
              \/ /\ Moves(w, "release")
                 /\ \E i \in PeersOn(worker[w].sha) :
                        Adds(i, worker[w].sha, pr.events, 0)
<1> DEFINE peers == PeersOn(worker[w].sha)
           placeholder == [gh |-> Newest(peers), sha |-> worker[w].sha,
                           seen |-> pr.events, made |-> 0, forced |-> FALSE]
<1>1. faults' \in faults..MaxFaults
  BY FaultCounted DEF PeerCheck, Core, Succeeds, Fails
<1>2. w \in Worker /\ At(w, "peer")
  BY DEF PeerCheck, Worker
<1>3. CASE Goto(w, "generate") /\ UNCHANGED rows
  <2>1. Moves(w, "generate")
    BY <1>2, <1>3, GotoStep DEF Core, Steps
  <2> QED
    BY <1>1, <1>3, <2>1 DEF PeerCheck
<1>4. CASE Goto(w, "release") /\ UNCHANGED rows
  <2>1. Moves(w, "release")
    BY <1>2, <1>4, GotoStep DEF Core, Steps
  <2> QED
    BY <1>1, <1>4, <2>1 DEF PeerCheck
<1>5. CASE peers # {} /\ Goto(w, "release") /\ rows' = Append(rows, placeholder)
  <2>1. Moves(w, "release")
    BY <1>2, <1>5, GotoStep DEF Core, Steps
  <2>2. PICK i \in peers : i = Newest(peers)
    BY <1>5, NewestMember DEF Core
  <2>3. i \in Int
    BY RowFields DEF PeersOn, Core
  <2>4. worker[w].sha \in Commit
    BY <1>2, Busy DEF At
  <2>5. placeholder \in Rows
    BY <2>2, <2>3, <2>4, RequestFields, BoundAssumption DEF Rows, Core
  <2>6. Adds(placeholder.gh, placeholder.sha, placeholder.seen, placeholder.made)
    <3> HIDE DEF placeholder
    <3> QED
      BY <1>5, <2>5, AddStep DEF Core
  <2>7. Adds(i, worker[w].sha, pr.events, 0)
    BY <2>2, <2>6
  <2> QED
    BY <1>1, <2>1, <2>7 DEF PeerCheck
<1> QED
  BY <1>3, <1>4, <1>5 DEF PeerCheck

\* The agent's result is stored, or the run ends.
LEMMA GenerateCases ==
    ASSUME Core, NEW w \in Reviewer, Generate(w)
    PROVE  /\ At(w, "generate") /\ faults' \in faults..MaxFaults
           /\ UNCHANGED <<pr, posted, inflight, queue, verdict>>
           /\ \/ /\ Adds(Pending, worker[w].sha, pr.events, worker[w].sha)
                 /\ Becomes(w, "recheck", worker[w].sha, Len(rows) + 1,
                            worker[w].owns, worker[w].gh, worker[w].enqueue)
              \/ Moves(w, "release") /\ UNCHANGED rows
<1> DEFINE review == [gh |-> Pending, sha |-> worker[w].sha, seen |-> pr.events,
                      made |-> worker[w].sha, forced |-> w \in Manual]
<1>1. faults' \in faults..MaxFaults
  BY FaultCounted DEF Generate, Core, Succeeds, Fails
<1>2. w \in Worker /\ At(w, "generate")
  BY DEF Generate, Worker
<1>3. CASE Goto(w, "release") /\ UNCHANGED rows
  <2>1. Moves(w, "release")
    BY <1>2, <1>3, GotoStep DEF Core, Steps
  <2> QED
    BY <1>1, <1>3, <2>1 DEF Generate
<1>4. CASE /\ rows' = Append(rows, review)
           /\ worker' = [worker EXCEPT ![w].pc = "recheck", ![w].row = Len(rows) + 1]
  <2>1. worker[w].sha \in Commit
    BY <1>2, Busy DEF At
  <2>2. review \in Rows
    <3>1. (w \in Manual) \in BOOLEAN
      OBVIOUS
    <3>2. worker[w].sha \in 0..MaxHead /\ pr.events \in 0..MaxEvents
      BY <1>2, WorkerFields, RequestFields DEF Core
    <3>3. \A sha \in Commit, made \in 0..MaxHead, seen \in 0..MaxEvents, forced \in BOOLEAN :
            [gh |-> Pending, sha |-> sha, seen |-> seen, made |-> made,
             forced |-> forced] \in Rows
      BY DEF Rows, Pending
    <3> QED
      BY <2>1, <3>1, <3>2, <3>3
  <2>3. Adds(review.gh, review.sha, review.seen, review.made)
    <3> HIDE DEF review
    <3> QED
      BY <1>4, <2>2, AddStep DEF Core
  <2>4. Adds(Pending, worker[w].sha, pr.events, worker[w].sha)
    BY <2>3
  <2>5. Len(rows) + 1 \in 0..MaxRows
    BY <1>2, ComingRoom, RowFields DEF Core, Coming, Early, At
  <2>6. [worker[w] EXCEPT !.pc = "recheck", !.row = Len(rows) + 1] \in Workers
    BY <1>2, <2>5, WorkerFields DEF Core, Workers, Steps
  <2>7. /\ worker' \in [Worker -> Workers]
        /\ worker'[w] = [worker[w] EXCEPT !.pc = "recheck", !.row = Len(rows) + 1]
        /\ \A v \in Worker \ {w} : worker'[v] = worker[v]
    BY <1>2, <1>4, <2>6 DEF Core, TypeOK
  <2>8. Becomes(w, "recheck", worker[w].sha, Len(rows) + 1, worker[w].owns,
                worker[w].gh, worker[w].enqueue)
    BY <1>2, <2>7, WorkerFields DEF Becomes, Core, Workers
  <2> QED
    BY <1>1, <2>4, <2>8 DEF Generate
<1> QED
  BY <1>3, <1>4 DEF Generate

\* The pull request still stands, or the row is retired.
LEMMA RecheckCases ==
    ASSUME Core, NEW w \in Worker, Recheck(w)
    PROVE  /\ At(w, "recheck") /\ faults' \in faults..MaxFaults
           /\ UNCHANGED <<pr, posted, inflight, queue, verdict>>
           /\ \/ Moves(w, AfterRecheck(w)) /\ UNCHANGED rows
              \/ Moves(w, "release") /\ UNCHANGED rows
              \/ /\ Moves(w, "release")
                 /\ \E gh \in {Orphaned, Superseded} : Resolves(worker[w].row, gh)
<1>1. faults' \in faults..MaxFaults
  BY FaultCounted DEF Recheck, SetGitHubId, Core, Succeeds, Fails
<1>2. At(w, "recheck") /\ worker[w].row \in 1..Len(rows)
  BY Busy DEF Recheck, At, Publishing
<1>3. AfterRecheck(w) \in Steps /\ "release" \in Steps
  BY DEF AfterRecheck, Steps
<1>4. CASE Goto(w, AfterRecheck(w)) /\ UNCHANGED rows
  BY <1>1, <1>3, <1>4, GotoStep DEF Core, Recheck
<1>5. CASE Goto(w, "release") /\ UNCHANGED rows
  BY <1>1, <1>3, <1>5, GotoStep DEF Core, Recheck
<1>6. CASE /\ Retirement(worker[w].sha) # Pending /\ Goto(w, "release")
           /\ rows' = [rows EXCEPT ![worker[w].row].gh = Retirement(worker[w].sha)]
  <2>1. Moves(w, "release")
    BY <1>3, <1>6, GotoStep DEF Core
  <2>2. PICK gh \in {Orphaned, Superseded} : gh = Retirement(worker[w].sha)
    BY <1>6 DEF Retirement
  <2>3. Resolves(worker[w].row, gh)
    BY <1>2, <1>6, <2>2, Resolutions, ResolveStep DEF Core
  <2> QED
    BY <1>1, <2>1, <2>3 DEF Recheck
<1> QED
  BY <1>4, <1>5, <1>6 DEF Recheck, SetGitHubId

\* The check before the submission finds nothing, or gives the row a review.
LEMMA GuardCases ==
    ASSUME Core, NEW w \in Worker, Guard(w)
    PROVE  /\ At(w, "guard") /\ faults' \in faults..MaxFaults
           /\ UNCHANGED <<pr, posted, inflight, queue, verdict>>
           /\ \/ Moves(w, "submit") /\ UNCHANGED rows
              \/ Moves(w, "release") /\ UNCHANGED rows
              \/ /\ Moves(w, "release")
                 /\ \E i \in PeersOn(worker[w].sha) : Resolves(worker[w].row, i)
<1> DEFINE peers == PeersOn(worker[w].sha)
<1>1. faults' \in faults..MaxFaults
  BY FaultCounted DEF Guard, SetGitHubId, Core, Succeeds, Fails
<1>2. At(w, "guard") /\ worker[w].row \in 1..Len(rows)
  BY Busy DEF Guard, At, Publishing
<1>3. "submit" \in Steps /\ "release" \in Steps
  BY DEF Steps
<1>4. CASE Goto(w, "submit") /\ UNCHANGED rows
  BY <1>1, <1>3, <1>4, GotoStep DEF Core, Guard
<1>5. CASE Goto(w, "release") /\ UNCHANGED rows
  BY <1>1, <1>3, <1>5, GotoStep DEF Core, Guard
<1>6. CASE /\ peers # {} /\ Goto(w, "release")
           /\ rows' = [rows EXCEPT ![worker[w].row].gh = Newest(peers)]
  <2>1. Moves(w, "release")
    BY <1>3, <1>6, GotoStep DEF Core
  <2>2. Newest(peers) \in peers
    BY <1>6, NewestMember DEF Core
  <2>3. Newest(peers) \in Int
    BY <2>2, RowFields DEF Core, PeersOn
  <2>4. Resolves(worker[w].row, Newest(peers))
    BY <1>2, <1>6, <2>3, ResolveStep DEF Core
  <2> QED
    BY <1>1, <2>1, <2>2, <2>4 DEF Guard
<1> QED
  BY <1>4, <1>5, <1>6 DEF Guard, SetGitHubId, Fails

\* GitHub takes the review, or refuses it for now or for good.
LEMMA SubmitCases ==
    ASSUME Core, NEW w \in Worker, Submit(w)
    PROVE  /\ At(w, "submit") /\ faults' \in faults..MaxFaults
           /\ UNCHANGED <<inflight, queue, verdict>>
           /\ \/ /\ Posted(worker[w].sha, worker[w].row) /\ UNCHANGED rows
                 /\ \/ Becomes(w, "mark", worker[w].sha, worker[w].row, worker[w].owns,
                               Len(posted) + 1, worker[w].enqueue)
                    \/ Ends(w) /\ faults' = faults + 1
              \/ /\ UNCHANGED <<pr, posted>> /\ Ends(w)
                 /\ UNCHANGED rows \/ Resolves(worker[w].row, Orphaned)
<1>1. faults' \in faults..MaxFaults
  BY FaultCounted DEF Submit, Core, Succeeds, Fails
<1>2. At(w, "submit") /\ worker[w].row \in 1..Len(rows)
  BY Busy DEF Submit, At, Publishing
<1>3. worker[w].sha \in Commit
  BY <1>2, Busy DEF At
<1>4. Published(w) => Posted(worker[w].sha, worker[w].row)
  BY <1>3, WorkerFields, PostStep DEF Published, Core
<1>5. CASE /\ Published(w) /\ UNCHANGED rows
           /\ worker' = [worker EXCEPT ![w].pc = "mark", ![w].gh = Len(posted) + 1]
  <2>1. Len(posted) + 1 \in Nat
    BY RowFields DEF Core
  <2>2. [worker[w] EXCEPT !.pc = "mark", !.gh = Len(posted) + 1] \in Workers
    BY <2>1, WorkerFields DEF Core, Workers, Steps
  <2>3. /\ worker' \in [Worker -> Workers]
        /\ worker'[w] = [worker[w] EXCEPT !.pc = "mark", !.gh = Len(posted) + 1]
        /\ \A v \in Worker \ {w} : worker'[v] = worker[v]
    BY <1>5, <2>2 DEF Core, TypeOK
  <2>4. Becomes(w, "mark", worker[w].sha, worker[w].row, worker[w].owns,
                Len(posted) + 1, worker[w].enqueue)
    BY <2>3, WorkerFields DEF Becomes, Core, Workers
  <2> QED
    BY <1>1, <1>4, <1>5, <2>4 DEF Submit
<1>6. CASE Published(w) /\ UNCHANGED rows /\ NotPublished(w) /\ Fails("reply")
  BY <1>1, <1>4, <1>6, EndStep DEF Core, Submit, Fails
<1>7. CASE UNCHANGED <<pr, posted, rows>> /\ NotPublished(w)
  BY <1>1, <1>7, EndStep DEF Core, Submit
<1>8. CASE /\ UNCHANGED <<pr, posted>> /\ NotPublished(w)
           /\ rows' = [rows EXCEPT ![worker[w].row].gh = Orphaned]
  <2>1. Resolves(worker[w].row, Orphaned)
    BY <1>2, <1>8, Resolutions, ResolveStep DEF Core
  <2> QED
    BY <1>1, <1>8, <2>1, EndStep DEF Core, Submit
<1> QED
  BY <1>5, <1>6, <1>7, <1>8 DEF Submit

\* GitHub's id is recorded, or the run ends without.
LEMMA MarkCases ==
    ASSUME Core, NEW w \in Worker, Mark(w)
    PROVE  /\ At(w, "mark") /\ faults' \in faults..MaxFaults
           /\ UNCHANGED <<pr, posted, inflight, queue, verdict>>
           /\ \/ Moves(w, "release") /\ Resolves(worker[w].row, worker[w].gh)
              \/ Ends(w) /\ UNCHANGED rows /\ faults' = faults + 1
<1>1. faults' \in faults..MaxFaults
  BY FaultCounted DEF Mark, Core, Succeeds, Fails
<1>2. At(w, "mark") /\ worker[w].row \in 1..Len(rows)
  BY Busy DEF Mark, At, Publishing
<1>3. CASE /\ Goto(w, "release")
           /\ rows' = [rows EXCEPT ![worker[w].row].gh = worker[w].gh]
  <2>1. Moves(w, "release")
    BY <1>3, GotoStep DEF Core, Steps
  <2>2. worker[w].gh \in Int
    BY WorkerFields DEF Core
  <2>3. Resolves(worker[w].row, worker[w].gh)
    BY <1>2, <1>3, <2>2, ResolveStep DEF Core
  <2> QED
    BY <1>1, <2>1, <2>3 DEF Mark
<1>4. CASE NotPublished(w) /\ UNCHANGED rows /\ Fails("mark")
  BY <1>1, <1>4, EndStep DEF Core, Mark, Fails
<1> QED
  BY <1>3, <1>4 DEF Mark

\* The run ends: it lets go of its claim and enqueues its row.
LEMMA ReleaseCases ==
    ASSUME Core, NEW w \in Worker, Release(w)
    PROVE  /\ At(w, "release") /\ faults' \in faults..MaxFaults
           /\ UNCHANGED <<pr, posted, rows, verdict>> /\ Stops(w)
           /\ \/ worker[w].owns /\ inflight' = inflight \ {worker[w].sha}
              \/ UNCHANGED inflight
           /\ queue' \in [RowId -> 0..MaxMessages]
           /\ \/ UNCHANGED queue
              \/ /\ worker[w].enqueue /\ worker[w].row \in 1..Len(rows)
                 /\ \A r \in RowId : r # worker[w].row => queue'[r] = queue[r]
<1>1. faults' \in faults..MaxFaults
  BY FaultCounted DEF Release, Core, Succeeds, Fails
<1>2. Stops(w)
  BY IdleStep DEF Release, Core
<1>3. CASE worker[w].enqueue /\ queue[worker[w].row] < MaxMessages
  <2>1. worker[w].row \in 1..Len(rows)
    BY <1>3, Busy
  <2>2. worker[w].row \in RowId
    BY <1>3, Busy
  <2>3. queue' = [queue EXCEPT ![worker[w].row] = @ + 1]
    BY <1>3 DEF Release
  <2>4. /\ queue' \in [RowId -> 0..MaxMessages]
        /\ \A r \in RowId : r # worker[w].row => queue'[r] = queue[r]
    BY <1>3, <2>2, <2>3, BoundAssumption DEF Core, TypeOK
  <2> QED
    BY <1>1, <1>2, <1>3, <2>1, <2>4 DEF Release
<1>4. CASE ~(worker[w].enqueue /\ queue[worker[w].row] < MaxMessages)
  BY <1>1, <1>2, <1>4 DEF Release, Core, TypeOK
<1> QED
  BY <1>3, <1>4

---------------------------------------------------------------------------
\* Types and shape are kept.

\* The gate's memory stays typed.
VerdictKept == UNCHANGED verdict \/ verdict' \in Verdicts

\* The store's table grows or one row of it is resolved.
RowsChange ==
    \/ UNCHANGED rows
    \/ \E r \in 1..Len(rows), gh \in (Superseded..Len(posted)) \ {Pending},
          sha \in 1..pr.head : RowBecomes(r, gh, sha)
    \/ /\ Len(rows) + 1 <= MaxRows
       /\ \E gh \in Superseded..Len(posted), sha \in 1..pr.head : \E seen, made :
              Adds(gh, sha, seen, made) /\ (gh = Pending => made = sha)

\* Such a change keeps the rows typed and in shape.
LEMMA RowsKept ==
    ASSUME Core, RowsChange, pr'.head \in Nat, pr.head <= pr'.head,
           Len(posted') \in Nat, Len(posted) <= Len(posted')
    PROVE  /\ rows' \in Seq(Rows) /\ Len(rows') <= MaxRows
           /\ \A r \in DOMAIN rows' : rows'[r].gh \in Superseded..Len(posted')
           /\ RowsFit'
           /\ Len(rows') \in Nat /\ Len(rows) <= Len(rows')
<1>1. /\ Len(rows) \in Nat /\ Len(posted) \in Nat /\ Superseded \in Int
      /\ MaxRows \in Nat /\ pr.head \in Nat
  BY RowFields, Resolutions, RequestFields, BoundAssumption DEF Core, Commit
<1>2. \A r \in 1..Len(rows) :
        /\ rows[r].gh \in Superseded..Len(posted) /\ rows[r].sha \in Nat
        /\ rows[r].gh = Pending => rows[r].made = rows[r].sha
        /\ rows[r].sha <= pr.head
  BY RowFields, BoundAssumption DEF Core, Shape, RowsFit, Commit
<1>0. /\ \A gh \in Superseded..Len(posted) : gh \in Superseded..Len(posted')
      /\ \A sha \in Nat : sha <= pr.head => sha <= pr'.head
      /\ \A sha \in 1..pr.head : sha <= pr'.head
  BY <1>1
<1>3. CASE UNCHANGED rows
  <2>1. rows' \in Seq(Rows) /\ Len(rows') = Len(rows) /\ Len(rows) <= MaxRows
    BY <1>3 DEF Core, TypeOK
  <2>2. DOMAIN rows' = 1..Len(rows)
    BY <1>3, RowFields DEF Core
  <2> QED
    BY <1>1, <1>2, <1>3, <2>1, <2>2 DEF RowsFit
<1>4. CASE \E r \in 1..Len(rows), gh \in (Superseded..Len(posted)) \ {Pending},
              sha \in 1..pr.head : RowBecomes(r, gh, sha)
  <2>1. PICK r \in 1..Len(rows), gh \in (Superseded..Len(posted)) \ {Pending},
             sha \in 1..pr.head : RowBecomes(r, gh, sha)
    BY <1>4
  <2>2. rows' \in Seq(Rows) /\ Len(rows') = Len(rows) /\ Len(rows) <= MaxRows
    BY <2>1 DEF Core, TypeOK, RowBecomes
  <2>3. DOMAIN rows' = 1..Len(rows)
    BY <2>2, LenProperties
  <2>4. \A q \in 1..Len(rows) :
          /\ rows'[q].gh \in Superseded..Len(posted')
          /\ rows'[q].gh = Pending => rows'[q].made = rows'[q].sha
          /\ rows'[q].sha <= pr'.head
    <3> TAKE q \in 1..Len(rows)
    <3>1. CASE q = r
      BY <1>0, <2>1, <3>1 DEF RowBecomes
    <3>2. CASE q # r
      BY <1>0, <1>2, <2>1, <3>2 DEF RowBecomes
    <3> QED
      BY <3>1, <3>2
  <2>5. RowsFit'
    BY <2>2, <2>4 DEF RowsFit
  <2> QED
    BY <1>1, <2>2, <2>3, <2>4, <2>5
<1>5. CASE /\ Len(rows) + 1 <= MaxRows
           /\ \E gh \in Superseded..Len(posted), sha \in 1..pr.head : \E seen, made :
                  Adds(gh, sha, seen, made) /\ (gh = Pending => made = sha)
  <2>1. PICK gh \in Superseded..Len(posted), sha \in 1..pr.head : \E seen, made :
                  Adds(gh, sha, seen, made) /\ (gh = Pending => made = sha)
    BY <1>5
  <2>2. rows' \in Seq(Rows) /\ Len(rows') = Len(rows) + 1
    BY <2>1 DEF Adds
  <2>3. DOMAIN rows' = 1..(Len(rows) + 1)
    BY <2>2, LenProperties
  <2>4. \A q \in 1..(Len(rows) + 1) : q \in 1..Len(rows) \/ q = Len(rows) + 1
    BY <1>1
  <2>5. \A q \in 1..(Len(rows) + 1) :
          /\ rows'[q].gh \in Superseded..Len(posted')
          /\ rows'[q].gh = Pending => rows'[q].made = rows'[q].sha
          /\ rows'[q].sha <= pr'.head
    <3> TAKE q \in 1..(Len(rows) + 1)
    <3>1. CASE q = Len(rows) + 1
      BY <1>0, <2>1, <3>1 DEF Adds
    <3>2. CASE q \in 1..Len(rows)
      BY <1>0, <1>2, <2>1, <3>2 DEF Adds
    <3> QED
      BY <2>4, <3>1, <3>2
  <2> QED
    BY <1>1, <1>5, <2>2, <2>3, <2>5 DEF RowsFit
<1> QED
  BY <1>3, <1>4, <1>5 DEF RowsChange

\* A worker that does not move stays in shape while everything grows.
LEMMA OthersFit ==
    ASSUME Core, NEW v \in Worker, worker'[v] = worker[v],
           pr'.head \in Nat, pr.head <= pr'.head,
           Len(rows') \in Nat, Len(rows) <= Len(rows'),
           Len(posted') \in Nat, Len(posted) <= Len(posted')
    PROVE  WorkerFits(v)'
<1>1. WorkerFits(v)
  BY DEF Core, Shape
<1>2. Len(rows) \in Nat /\ Len(posted) \in Nat /\ pr.head \in Nat
  BY RowFields, RequestFields, BoundAssumption DEF Core, Commit
<1> QED
  BY <1>1, <1>2 DEF WorkerFits, At

\* A run that stores its review gives up its place.
LEMMA RoomKept ==
    ASSUME Core, NEW w \in Worker, \A v \in Worker \ {w} : worker'[v] = worker[v],
           \/ /\ Len(rows') = Len(rows)
              /\ worker'[w].pc \in Early => worker[w].pc \in Early
           \/ /\ Len(rows') = Len(rows) + 1
              /\ w \in Reviewer /\ worker[w].pc \in Early
              /\ worker'[w].pc \notin Early
    PROVE  RoomFits'
<1>1. IsFiniteSet(Coming) /\ Cardinality(Coming) \in Nat
  BY ComingRoom, FS_CardinalityType
<1>2. /\ Len(rows) \in Nat /\ MaxRows \in Nat
      /\ Len(rows) + Cardinality(Coming) <= MaxRows
  BY RowFields, BoundAssumption DEF Core, Shape, RoomFits
<1>3. CASE Len(rows') = Len(rows) /\ (worker'[w].pc \in Early => worker[w].pc \in Early)
  <2>1. Coming' \in SUBSET Coming
    BY <1>3 DEF Coming, Worker
  <2>2. Cardinality(Coming') \in Nat /\ Cardinality(Coming') <= Cardinality(Coming)
    BY <1>1, <2>1, FS_Subset, FS_CardinalityType
  <2> QED
    BY <1>1, <1>2, <1>3, <2>2 DEF RoomFits
<1>4. CASE /\ Len(rows') = Len(rows) + 1
           /\ w \in Reviewer /\ worker[w].pc \in Early
           /\ worker'[w].pc \notin Early
  <2>1. w \in Coming /\ Coming' \in SUBSET (Coming \ {w})
    BY <1>4 DEF Coming, Worker
  <2>2. /\ IsFiniteSet(Coming \ {w})
        /\ Cardinality(Coming \ {w}) = Cardinality(Coming) - 1
    BY <1>1, <2>1, FS_RemoveElement
  <2>3. /\ Cardinality(Coming') \in Nat
        /\ Cardinality(Coming') <= Cardinality(Coming \ {w})
    BY <2>1, <2>2, FS_Subset, FS_CardinalityType
  <2> QED
    BY <1>1, <1>2, <1>4, <2>2, <2>3 DEF RoomFits
<1> QED
  BY <1>3, <1>4

\* What a step of a worker has to show.
LEMMA WorkerKeepsCore ==
    ASSUME Core, NEW w \in Worker,
           worker' \in [Worker -> Workers],
           \A v \in Worker \ {w} : worker'[v] = worker[v],
           faults' \in faults..MaxFaults, VerdictKept, inflight' \in SUBSET Commit,
           queue' \in [RowId -> 0..MaxMessages],
           \A r \in RowId : queue'[r] > 0 => r \in 1..Len(rows'),
           pr' \in PullRequests, pr'.head = pr.head,
           posted' \in Seq(Posts), Len(posted) <= Len(posted'), PostsFit',
           RowsChange,
           \/ /\ Len(rows') = Len(rows)
              /\ worker'[w].pc \in Early => worker[w].pc \in Early
           \/ /\ Len(rows') = Len(rows) + 1
              /\ w \in Reviewer /\ worker[w].pc \in Early
              /\ worker'[w].pc \notin Early,
           WorkerFits(w)'
    PROVE  Core'
<1>1. /\ pr.head \in Nat /\ pr'.head \in Nat /\ pr.head <= pr'.head
      /\ Len(posted') \in Nat
  BY RequestFields, LenProperties, BoundAssumption DEF Core, Commit
<1>2. TypeOK' /\ RowsFit' /\ Len(rows') \in Nat /\ Len(rows) <= Len(rows')
  <2>1. verdict' \in Verdicts /\ faults' \in 0..MaxFaults
    BY BoundAssumption DEF VerdictKept, Core, TypeOK
  <2> QED
    BY <1>1, <2>1, RowsKept DEF TypeOK
<1>3. \A v \in Worker \ {w} : WorkerFits(v)'
  BY <1>1, <1>2, OthersFit
<1>4. RoomFits'
  BY RoomKept
<1>5. QueueFits'
  BY DEF QueueFits
<1> QED
  BY <1>2, <1>3, <1>4, <1>5 DEF Core, Shape

\* What it has to show when it leaves GitHub alone.
LEMMA StoreKeepsCore ==
    ASSUME Core, NEW w \in Worker,
           worker' \in [Worker -> Workers],
           \A v \in Worker \ {w} : worker'[v] = worker[v],
           faults' \in faults..MaxFaults, VerdictKept, inflight' \in SUBSET Commit,
           queue' \in [RowId -> 0..MaxMessages],
           \A r \in RowId : queue'[r] > 0 => r \in 1..Len(rows),
           UNCHANGED <<pr, posted>>, RowsChange,
           \/ /\ Len(rows') = Len(rows)
              /\ worker'[w].pc \in Early => worker[w].pc \in Early
           \/ /\ Len(rows') = Len(rows) + 1
              /\ w \in Reviewer /\ worker[w].pc \in Early
              /\ worker'[w].pc \notin Early,
           WorkerFits(w)'
    PROVE  Core'
<1>1. /\ pr' \in PullRequests /\ pr'.head = pr.head
      /\ posted' \in Seq(Posts) /\ Len(posted') = Len(posted)
  BY DEF Core, TypeOK
<1>2. Len(posted) \in Nat /\ Len(rows) \in Nat
  BY RowFields DEF Core
<1>3. PostsFit'
  BY <1>1 DEF Core, Shape, PostsFit
<1>4. \A r \in RowId : queue'[r] > 0 => r \in 1..Len(rows')
  BY <1>2
<1> QED
  BY <1>1, <1>2, <1>3, <1>4, WorkerKeepsCore

\* A run that starts.
LEMMA StartCore ==
    ASSUME Core, NEW w \in Reviewer, Start(w) \/ Trigger(w)
    PROVE  Core'
<1>1. /\ At(w, "idle") /\ RoomForReview
      /\ Becomes(w, "claim", pr.head, 0, FALSE, 0, FALSE)
      /\ UNCHANGED <<pr, posted, rows, inflight, queue, verdict, faults>>
  BY StartCases
<1>2. w \in Worker /\ w \notin Publisher
  BY WorkerAssumption DEF Worker, Reviewer
<1>3. TypeOK'
  BY <1>1 DEF Core, TypeOK, Becomes
<1>4. \A v \in Worker \ {w} : WorkerFits(v)'
  BY <1>1 DEF Core, Shape, WorkerFits, At, Becomes
<1>5. WorkerFits(w)'
  BY <1>1, <1>2, RowFields, RequestFields, BoundAssumption
     DEF WorkerFits, At, Becomes, Core, Publishing, Early, Commit
<1>6. RoomFits'
  <2> DEFINE busy == {v \in Reviewer : worker[v].pc # "idle"}
  <2>1. Coming' \in SUBSET (busy \cup {w})
    BY <1>1 DEF Coming, Early, Becomes, Worker
  <2>2. IsFiniteSet(busy)
    <3>1. busy \in SUBSET Reviewer
      OBVIOUS
    <3> QED
      BY <3>1, ComingRoom, FS_Subset
  <2>3. /\ IsFiniteSet(busy \cup {w}) /\ Cardinality(busy) \in Nat
        /\ Cardinality(busy \cup {w}) <= Cardinality(busy) + 1
    <3> HIDE DEF busy
    <3>1. Cardinality(busy) \in Nat
      BY <2>2, FS_CardinalityType
    <3>2. /\ IsFiniteSet(busy \cup {w})
          /\ Cardinality(busy \cup {w})
                = IF w \in busy THEN Cardinality(busy) ELSE Cardinality(busy) + 1
      BY <2>2, FS_AddElement
    <3> QED
      BY <3>1, <3>2
  <2>4. /\ Cardinality(Coming') \in Nat
        /\ Cardinality(Coming') <= Cardinality(busy \cup {w})
        /\ Cardinality(busy \cup {w}) \in Nat
    BY <2>1, <2>3, FS_Subset, FS_CardinalityType
  <2>5. Len(rows) + Cardinality(busy) < MaxRows
    BY <1>1 DEF RoomForReview
  <2> HIDE DEF busy
  <2> QED
    BY <1>1, <2>3, <2>4, <2>5, RowFields, BoundAssumption DEF RoomFits, Core
<1>7. QueueFits' /\ RowsFit' /\ PostsFit'
  BY <1>1 DEF Core, Shape, QueueFits, RowsFit, PostsFit
<1> QED
  BY <1>3, <1>4, <1>5, <1>6, <1>7 DEF Core, Shape

\* A publisher that takes a message.
LEMMA DeliverCore ==
    ASSUME Core, NEW w \in Publisher, NEW r \in RowId, Deliver(w, r)
    PROVE  Core'
<1>1. /\ At(w, "idle") /\ r \in 1..Len(rows)
      /\ queue' \in [RowId -> 0..MaxMessages]
      /\ queue'[r] = queue[r] - 1
      /\ \A q \in RowId \ {r} : queue'[q] = queue[q]
      /\ \/ Becomes(w, "claim", rows[r].sha, r, FALSE, 0, FALSE)
         \/ UNCHANGED worker
      /\ UNCHANGED <<pr, posted, rows, inflight, verdict, faults>>
  BY DeliverCases
<1>2. w \in Worker /\ w \notin Reviewer
  BY WorkerAssumption DEF Worker, Reviewer
<1>3. /\ worker' \in [Worker -> Workers]
      /\ \A v \in Worker \ {w} : worker'[v] = worker[v]
  BY <1>1 DEF Becomes, Core, TypeOK
<1>4. faults' \in faults..MaxFaults /\ inflight' \in SUBSET Commit
  BY <1>1 DEF Core, TypeOK
<1>5. \A q \in RowId : queue'[q] > 0 => q \in 1..Len(rows)
  BY <1>1 DEF Core, Shape, QueueFits
<1>6. RowsChange
  BY <1>1 DEF RowsChange
<1>7. WorkerFits(w)'
  <2>1. CASE UNCHANGED worker
    BY <1>1, <1>2, <2>1 DEF Core, Shape, WorkerFits, At
  <2>2. CASE Becomes(w, "claim", rows[r].sha, r, FALSE, 0, FALSE)
    <3>1. rows[r].sha \in 1..pr.head
      BY <1>1, RowFields, RequestFields, BoundAssumption
         DEF Core, Shape, RowsFit, Commit
    <3> QED
      BY <1>1, <1>2, <2>2, <3>1, RowFields
         DEF Core, WorkerFits, At, Becomes, Publishing, Early
  <2> QED
    BY <1>1, <2>1, <2>2
<1>8. RoomFits'
  BY <1>1, <1>2, <1>3 DEF Core, Shape, RoomFits, Coming, Worker
<1>9. TypeOK' /\ RowsFit' /\ PostsFit' /\ QueueFits'
  BY <1>1, <1>3, <1>5 DEF Core, Shape, TypeOK, RowsFit, PostsFit, QueueFits
<1>10. \A v \in Worker \ {w} : WorkerFits(v)'
  BY <1>1, <1>3 DEF Core, Shape, WorkerFits, At
<1> QED
  BY <1>7, <1>8, <1>9, <1>10 DEF Core, Shape

\* The claim.
LEMMA ClaimCore ==
    ASSUME Core, NEW w \in Worker, Claim(w)
    PROVE  Core'
<1>1. /\ At(w, "claim") /\ faults' \in faults..MaxFaults
      /\ UNCHANGED <<pr, posted, rows, queue, verdict>>
      /\ \/ /\ inflight' = inflight \cup {worker[w].sha}
            /\ Becomes(w, AfterClaim(w), worker[w].sha, worker[w].row, TRUE,
                       worker[w].gh, worker[w].enqueue)
         \/ UNCHANGED inflight /\ Stops(w)
         \/ /\ w \notin Publisher /\ UNCHANGED inflight
            /\ Moves(w, AfterClaim(w))
  BY ClaimCases
<1>2. /\ worker' \in [Worker -> Workers]
      /\ \A v \in Worker \ {w} : worker'[v] = worker[v]
  BY <1>1 DEF Becomes, Moves, Stops
<1>3. inflight' \in SUBSET Commit
  <2>1. worker[w].sha \in Commit /\ inflight \subseteq Commit
    BY <1>1, Busy DEF At, Core, TypeOK
  <2> QED
    BY <1>1, <2>1
<1>4. queue' \in [RowId -> 0..MaxMessages] /\ \A q \in RowId : queue'[q] > 0 => q \in 1..Len(rows)
  BY <1>1 DEF Core, Shape, QueueFits, TypeOK
<1>5. WorkerFits(w)'
  <2>1. WorkerFits(w) /\ Len(rows) \in Nat
    BY RowFields DEF Core, Shape
  <2>2. CASE Stops(w)
    BY <1>1, <2>1, <2>2 DEF WorkerFits, At, Stops, Becomes, Publishing, Early
  <2>3. CASE /\ worker'[w].pc = AfterClaim(w) /\ worker'[w].sha = worker[w].sha
             /\ worker'[w].row = worker[w].row
             /\ worker'[w].enqueue = worker[w].enqueue
    BY <1>1, <2>1, <2>3, WorkerAssumption
       DEF WorkerFits, At, Publishing, Early, AfterClaim, Worker, Reviewer
  <2> QED
    BY <1>1, <2>2, <2>3 DEF Moves, Becomes
<1>6. RowsChange /\ Len(rows') = Len(rows) /\ worker[w].pc \in Early
  BY <1>1 DEF RowsChange, At, Early
<1> QED
  BY <1>1, <1>2, <1>3, <1>4, <1>5, <1>6, StoreKeepsCore DEF VerdictKept

\* The gate.
LEMMA GateCore ==
    ASSUME Core, NEW w \in Reviewer, Gate(w)
    PROVE  Core'
<1>1. w \in Worker /\ w \notin Publisher
  BY WorkerAssumption DEF Worker, Reviewer
<1>2. /\ At(w, "gate") /\ faults' \in faults..MaxFaults
      /\ UNCHANGED <<pr, posted, inflight, queue>> /\ verdict' \in Verdicts
      /\ \/ Moves(w, "peer") /\ UNCHANGED rows
         \/ Moves(w, "release") /\ UNCHANGED rows
         \/ /\ Moves(w, "release") /\ Previous.gh > 0
            /\ RowBecomes(Len(rows), Previous.gh, worker[w].sha)
  BY <1>1, GateCases
<1>3. /\ worker' \in [Worker -> Workers]
      /\ \A v \in Worker \ {w} : worker'[v] = worker[v]
      /\ worker[w].pc \in Early
  BY <1>2 DEF Becomes, Moves, At, Early
<1>4. /\ queue' \in [RowId -> 0..MaxMessages] /\ inflight' \in SUBSET Commit
      /\ \A q \in RowId : queue'[q] > 0 => q \in 1..Len(rows)
  BY <1>2 DEF Core, Shape, QueueFits, TypeOK
<1>5. RowsChange /\ Len(rows') = Len(rows)
  <2>1. CASE UNCHANGED rows
    BY <2>1 DEF RowsChange
  <2>2. CASE Previous.gh > 0 /\ RowBecomes(Len(rows), Previous.gh, worker[w].sha)
    <3>1. Len(rows) \in 1..Len(rows) /\ Len(rows') = Len(rows)
      BY <2>2 DEF RowBecomes
    <3>2. Previous.gh \in (Superseded..Len(posted)) \ {Pending}
      BY <2>2, <3>1, RowFields DEF Core, Previous, Pending
    <3>3. worker[w].sha \in 1..pr.head
      BY <1>1, <1>2 DEF Core, Shape, WorkerFits, At
    <3> QED
      BY <2>2, <3>1, <3>2, <3>3 DEF RowsChange
  <2> QED
    BY <1>2, <2>1, <2>2
<1>6. WorkerFits(w)'
  <2>1. WorkerFits(w) /\ Len(rows) \in Nat
    BY <1>1, RowFields DEF Core, Shape
  <2> QED
    BY <1>1, <1>2, <1>5, <2>1 DEF WorkerFits, At, Moves, Becomes, Publishing, Early
<1> QED
  BY <1>1, <1>2, <1>3, <1>4, <1>5, <1>6, StoreKeepsCore DEF VerdictKept

\* The check before generation.
LEMMA PeerCore ==
    ASSUME Core, NEW w \in Reviewer, PeerCheck(w)
    PROVE  Core'
<1>1. w \in Worker /\ w \notin Publisher
  BY WorkerAssumption DEF Worker, Reviewer
<1>2. /\ At(w, "peer") /\ faults' \in faults..MaxFaults
      /\ UNCHANGED <<pr, posted, inflight, queue, verdict>>
      /\ \/ Moves(w, "generate") /\ UNCHANGED rows
         \/ Moves(w, "release") /\ UNCHANGED rows
         \/ /\ Moves(w, "release")
            /\ \E i \in PeersOn(worker[w].sha) :
                   Adds(i, worker[w].sha, pr.events, 0)
  BY PeerCases
<1>3. /\ worker' \in [Worker -> Workers]
      /\ \A v \in Worker \ {w} : worker'[v] = worker[v]
      /\ worker[w].pc \in Early
  BY <1>2 DEF Becomes, Moves, At, Early
<1>4. /\ queue' \in [RowId -> 0..MaxMessages] /\ inflight' \in SUBSET Commit
      /\ \A q \in RowId : queue'[q] > 0 => q \in 1..Len(rows)
  BY <1>2 DEF Core, Shape, QueueFits, TypeOK
<1>5. /\ RowsChange
      /\ \/ Len(rows') = Len(rows)
         \/ Len(rows') = Len(rows) + 1 /\ worker'[w].pc \notin Early
  <2>1. CASE UNCHANGED rows
    BY <2>1 DEF RowsChange
  <2>2. CASE /\ Moves(w, "release")
             /\ \E i \in PeersOn(worker[w].sha) :
                    Adds(i, worker[w].sha, pr.events, 0)
    <3>1. PICK i \in PeersOn(worker[w].sha) : Adds(i, worker[w].sha, pr.events, 0)
      BY <2>2
    <3>2. Len(rows) + 1 <= MaxRows
      BY <1>3, ComingRoom DEF Coming
    <3>3. i \in Superseded..Len(posted) /\ i # Pending
      BY RowFields, Resolutions DEF PeersOn, Core, Pending
    <3>4. worker[w].sha \in 1..pr.head
      BY <1>1, <1>2 DEF Core, Shape, WorkerFits, At
    <3>5. RowsChange
      BY <3>1, <3>2, <3>3, <3>4 DEF RowsChange
    <3> QED
      BY <2>2, <3>1, <3>5 DEF Adds, Moves, Becomes, Early
  <2> QED
    BY <1>2, <2>1, <2>2
<1>6. WorkerFits(w)'
  <2>1. WorkerFits(w) /\ Len(rows) \in Nat
    BY <1>1, RowFields DEF Core, Shape
  <2> QED
    BY <1>1, <1>2, <1>5, <2>1 DEF WorkerFits, At, Moves, Becomes, Publishing, Early
<1> QED
  BY <1>1, <1>2, <1>3, <1>4, <1>5, <1>6, StoreKeepsCore DEF VerdictKept

\* The agent's run.
LEMMA GenerateCore ==
    ASSUME Core, NEW w \in Reviewer, Generate(w)
    PROVE  Core'
<1>1. w \in Worker /\ w \notin Publisher
  BY WorkerAssumption DEF Worker, Reviewer
<1>2. /\ At(w, "generate") /\ faults' \in faults..MaxFaults
      /\ UNCHANGED <<pr, posted, inflight, queue, verdict>>
      /\ \/ /\ Adds(Pending, worker[w].sha, pr.events, worker[w].sha)
            /\ Becomes(w, "recheck", worker[w].sha, Len(rows) + 1,
                       worker[w].owns, worker[w].gh, worker[w].enqueue)
         \/ Moves(w, "release") /\ UNCHANGED rows
  BY GenerateCases
<1>3. /\ worker' \in [Worker -> Workers]
      /\ \A v \in Worker \ {w} : worker'[v] = worker[v]
      /\ worker[w].pc \in Early
  BY <1>2 DEF Becomes, Moves, At, Early
<1>4. /\ queue' \in [RowId -> 0..MaxMessages] /\ inflight' \in SUBSET Commit
      /\ \A q \in RowId : queue'[q] > 0 => q \in 1..Len(rows)
  BY <1>2 DEF Core, Shape, QueueFits, TypeOK
<1>5. WorkerFits(w) /\ Len(rows) \in Nat
  BY <1>1, RowFields DEF Core, Shape
<1>6. CASE Moves(w, "release") /\ UNCHANGED rows
  <2>1. WorkerFits(w)'
    BY <1>1, <1>2, <1>5, <1>6 DEF WorkerFits, At, Moves, Becomes, Publishing, Early
  <2> QED
    BY <1>1, <1>2, <1>3, <1>4, <1>6, <2>1, StoreKeepsCore DEF RowsChange, VerdictKept
<1>7. CASE /\ Adds(Pending, worker[w].sha, pr.events, worker[w].sha)
           /\ Becomes(w, "recheck", worker[w].sha, Len(rows) + 1,
                      worker[w].owns, worker[w].gh, worker[w].enqueue)
  <2>1. RowsChange
    <3>1. Len(rows) + 1 <= MaxRows
      BY <1>3, ComingRoom DEF Coming
    <3>2. Pending \in Superseded..Len(posted)
      BY RowFields DEF Core, Pending, Superseded
    <3>3. worker[w].sha \in 1..pr.head
      BY <1>1, <1>2 DEF Core, Shape, WorkerFits, At
    <3> QED
      BY <1>7, <3>1, <3>2, <3>3 DEF RowsChange
  <2>2. Len(rows') = Len(rows) + 1 /\ worker'[w].pc \notin Early
    BY <1>7 DEF Adds, Becomes, Early
  <2>3. WorkerFits(w)'
    BY <1>1, <1>2, <1>5, <1>7, <2>2 DEF WorkerFits, At, Becomes, Publishing, Early
  <2> QED
    BY <1>1, <1>2, <1>3, <1>4, <2>1, <2>2, <2>3, StoreKeepsCore DEF VerdictKept
<1> QED
  BY <1>2, <1>6, <1>7

\* The check that the pull request still stands.
LEMMA RecheckCore ==
    ASSUME Core, NEW w \in Worker, Recheck(w)
    PROVE  Core'
<1>1. /\ At(w, "recheck") /\ faults' \in faults..MaxFaults
      /\ UNCHANGED <<pr, posted, inflight, queue, verdict>>
      /\ \/ Moves(w, AfterRecheck(w)) /\ UNCHANGED rows
         \/ Moves(w, "release") /\ UNCHANGED rows
         \/ /\ Moves(w, "release")
            /\ \E gh \in {Orphaned, Superseded} : Resolves(worker[w].row, gh)
  BY RecheckCases
<1>2. /\ worker' \in [Worker -> Workers]
      /\ \A v \in Worker \ {w} : worker'[v] = worker[v]
  BY <1>1 DEF Becomes, Moves
<1>3. /\ queue' \in [RowId -> 0..MaxMessages] /\ inflight' \in SUBSET Commit
      /\ \A q \in RowId : queue'[q] > 0 => q \in 1..Len(rows)
  BY <1>1 DEF Core, Shape, QueueFits, TypeOK
<1>4. RowsChange /\ Len(rows') = Len(rows)
  <2>1. CASE UNCHANGED rows
    BY <2>1 DEF RowsChange
  <2>2. CASE \E gh \in {Orphaned, Superseded} : Resolves(worker[w].row, gh)
    <3>1. PICK gh \in {Orphaned, Superseded} : Resolves(worker[w].row, gh)
      BY <2>2
    <3>2. gh \in (Superseded..Len(posted)) \ {Pending}
      BY RowFields, Resolutions DEF Core, Pending
    <3>3. /\ worker[w].row \in 1..Len(rows)
          /\ rows[worker[w].row].sha \in 1..pr.head
      BY <1>1, Busy, RowFields, RequestFields, BoundAssumption
         DEF At, Publishing, Core, Shape, RowsFit, Commit
    <3> QED
      BY <3>1, <3>2, <3>3 DEF RowsChange, Resolves, RowBecomes
  <2> QED
    BY <1>1, <2>1, <2>2
<1>5. /\ worker'[w].pc \notin Early
      /\ WorkerFits(w)'
  <2>1. WorkerFits(w) /\ Len(rows) \in Nat
    BY RowFields DEF Core, Shape
  <2> QED
    BY <1>1, <1>4, <2>1
       DEF WorkerFits, At, Moves, Becomes, Publishing, Early, AfterRecheck
<1> QED
  BY <1>1, <1>2, <1>3, <1>4, <1>5, StoreKeepsCore DEF VerdictKept

\* The check for a peer's review before the submission.
LEMMA GuardCore ==
    ASSUME Core, NEW w \in Worker, Guard(w)
    PROVE  Core'
<1>1. /\ At(w, "guard") /\ faults' \in faults..MaxFaults
      /\ UNCHANGED <<pr, posted, inflight, queue, verdict>>
      /\ \/ Moves(w, "submit") /\ UNCHANGED rows
         \/ Moves(w, "release") /\ UNCHANGED rows
         \/ /\ Moves(w, "release")
            /\ \E i \in PeersOn(worker[w].sha) : Resolves(worker[w].row, i)
  BY GuardCases
<1>2. /\ worker' \in [Worker -> Workers]
      /\ \A v \in Worker \ {w} : worker'[v] = worker[v]
  BY <1>1 DEF Becomes, Moves
<1>3. /\ queue' \in [RowId -> 0..MaxMessages] /\ inflight' \in SUBSET Commit
      /\ \A q \in RowId : queue'[q] > 0 => q \in 1..Len(rows)
  BY <1>1 DEF Core, Shape, QueueFits, TypeOK
<1>4. RowsChange /\ Len(rows') = Len(rows)
  <2>1. CASE UNCHANGED rows
    BY <2>1 DEF RowsChange
  <2>2. CASE \E i \in PeersOn(worker[w].sha) : Resolves(worker[w].row, i)
    <3>1. PICK i \in PeersOn(worker[w].sha) : Resolves(worker[w].row, i)
      BY <2>2
    <3>2. i \in (Superseded..Len(posted)) \ {Pending}
      BY RowFields, Resolutions DEF Core, Pending, PeersOn
    <3>3. /\ worker[w].row \in 1..Len(rows)
          /\ rows[worker[w].row].sha \in 1..pr.head
      BY <1>1, Busy, RowFields, RequestFields, BoundAssumption
         DEF At, Publishing, Core, Shape, RowsFit, Commit
    <3> QED
      BY <3>1, <3>2, <3>3 DEF RowsChange, Resolves, RowBecomes
  <2> QED
    BY <1>1, <2>1, <2>2
<1>5. /\ worker'[w].pc \notin Early
      /\ WorkerFits(w)'
  <2>1. WorkerFits(w) /\ Len(rows) \in Nat
    BY RowFields DEF Core, Shape
  <2> QED
    BY <1>1, <1>4, <2>1
       DEF WorkerFits, At, Moves, Becomes, Publishing, Early
<1> QED
  BY <1>1, <1>2, <1>3, <1>4, <1>5, StoreKeepsCore DEF VerdictKept

\* The submission.
LEMMA SubmitCore ==
    ASSUME Core, NEW w \in Worker, Submit(w)
    PROVE  Core'
<1>1. /\ At(w, "submit") /\ faults' \in faults..MaxFaults
      /\ UNCHANGED <<inflight, queue, verdict>>
      /\ \/ /\ Posted(worker[w].sha, worker[w].row) /\ UNCHANGED rows
            /\ \/ Becomes(w, "mark", worker[w].sha, worker[w].row, worker[w].owns,
                          Len(posted) + 1, worker[w].enqueue)
               \/ Ends(w)
         \/ /\ UNCHANGED <<pr, posted>> /\ Ends(w)
            /\ UNCHANGED rows \/ Resolves(worker[w].row, Orphaned)
  BY SubmitCases
<1>2. /\ worker' \in [Worker -> Workers]
      /\ \A v \in Worker \ {w} : worker'[v] = worker[v]
      /\ worker'[w].pc \notin Early
  BY <1>1 DEF Becomes, Ends, Early
<1>3. queue' \in [RowId -> 0..MaxMessages] /\ inflight' \in SUBSET Commit
  BY <1>1 DEF Core, TypeOK
<1>4. RowsChange /\ Len(rows') = Len(rows)
  <2>1. CASE UNCHANGED rows
    BY <2>1 DEF RowsChange
  <2>2. CASE Resolves(worker[w].row, Orphaned)
    <3>1. Orphaned \in (Superseded..Len(posted)) \ {Pending}
      BY RowFields, Resolutions DEF Core, Pending
    <3>2. /\ worker[w].row \in 1..Len(rows)
          /\ rows[worker[w].row].sha \in 1..pr.head
      BY <1>1, Busy, RowFields, RequestFields, BoundAssumption
         DEF At, Publishing, Core, Shape, RowsFit, Commit
    <3> QED
      BY <2>2, <3>1, <3>2 DEF RowsChange, Resolves, RowBecomes
  <2> QED
    BY <1>1, <2>1, <2>2
<1>5. \A q \in RowId : queue'[q] > 0 => q \in 1..Len(rows')
  BY <1>1, <1>4 DEF Core, Shape, QueueFits
<1>6. /\ pr' \in PullRequests /\ pr'.head = pr.head
      /\ posted' \in Seq(Posts) /\ Len(posted) <= Len(posted')
      /\ PostsFit'
  <2>1. CASE UNCHANGED <<pr, posted>>
    BY <2>1, RowFields DEF Core, Shape, TypeOK, PostsFit
  <2>2. CASE Posted(worker[w].sha, worker[w].row)
    <3>1. worker[w].sha \in 1..pr.head /\ Len(posted) \in Nat
      BY <1>1, RowFields DEF Core, Shape, WorkerFits, At
    <3>2. \A i \in 1..(Len(posted) + 1) : i \in 1..Len(posted) \/ i = Len(posted) + 1
      BY <3>1
    <3>3. \A i \in 1..Len(posted) : posted[i].made <= pr.head
      BY DEF Core, Shape, PostsFit
    <3> QED
      BY <2>2, <3>1, <3>2, <3>3 DEF Posted, PostsFit
  <2> QED
    BY <1>1, <2>1, <2>2
<1>7. WorkerFits(w)'
  <2>1. WorkerFits(w) /\ Len(rows) \in Nat /\ Len(posted) \in Nat
    BY RowFields DEF Core, Shape
  <2>2. CASE Ends(w)
    BY <1>1, <1>4, <1>6, <2>1, <2>2, WorkerAssumption
       DEF WorkerFits, At, Ends, Becomes, Publishing, Early, Reviewer
  <2>3. CASE /\ Posted(worker[w].sha, worker[w].row)
             /\ Becomes(w, "mark", worker[w].sha, worker[w].row, worker[w].owns,
                        Len(posted) + 1, worker[w].enqueue)
    <3>1. Len(posted) + 1 \in 1..Len(posted')
      BY <2>1, <2>3 DEF Posted
    <3> QED
      BY <1>1, <1>4, <1>6, <2>1, <2>3, <3>1
         DEF WorkerFits, At, Becomes, Publishing, Early
  <2> QED
    BY <1>1, <2>2, <2>3
<1> QED
  BY <1>1, <1>2, <1>3, <1>4, <1>5, <1>6, <1>7, WorkerKeepsCore DEF VerdictKept

\* The record of a submission.
LEMMA MarkCore ==
    ASSUME Core, NEW w \in Worker, Mark(w)
    PROVE  Core'
<1>1. /\ At(w, "mark") /\ faults' \in faults..MaxFaults
      /\ UNCHANGED <<pr, posted, inflight, queue, verdict>>
      /\ \/ Moves(w, "release") /\ Resolves(worker[w].row, worker[w].gh)
         \/ Ends(w) /\ UNCHANGED rows
  BY MarkCases
<1>2. /\ worker' \in [Worker -> Workers]
      /\ \A v \in Worker \ {w} : worker'[v] = worker[v]
  BY <1>1 DEF Becomes, Moves, Ends
<1>3. /\ queue' \in [RowId -> 0..MaxMessages] /\ inflight' \in SUBSET Commit
      /\ \A q \in RowId : queue'[q] > 0 => q \in 1..Len(rows)
  BY <1>1 DEF Core, Shape, QueueFits, TypeOK
<1>4. RowsChange /\ Len(rows') = Len(rows)
  <2>1. CASE UNCHANGED rows
    BY <2>1 DEF RowsChange
  <2>2. CASE Resolves(worker[w].row, worker[w].gh)
    <3>1. worker[w].gh \in 1..Len(posted)
      BY <1>1 DEF Core, Shape, WorkerFits, At
    <3>2. worker[w].gh \in (Superseded..Len(posted)) \ {Pending}
      BY <3>1, RowFields, Resolutions DEF Core, Pending
    <3>3. worker[w].row \in 1..Len(rows)
      BY <1>1, Busy DEF At, Publishing
    <3>4. rows[worker[w].row].sha \in 1..pr.head
      <4>1. rows[worker[w].row].sha \in Commit /\ rows[worker[w].row].sha <= pr.head
        BY <3>3, RowFields DEF Core, Shape, RowsFit
      <4>2. pr.head \in 1..MaxHead /\ MaxHead \in Nat
        BY RequestFields, BoundAssumption DEF Core, Commit
      <4> QED
        BY <4>1, <4>2 DEF Commit
    <3> QED
      BY <2>2, <3>2, <3>3, <3>4 DEF RowsChange, Resolves, RowBecomes
  <2> QED
    BY <1>1, <2>1, <2>2
<1>5. /\ worker'[w].pc \notin Early
      /\ WorkerFits(w)'
  <2>1. WorkerFits(w) /\ Len(rows) \in Nat
    BY RowFields DEF Core, Shape
  <2> QED
    BY <1>1, <1>4, <2>1, WorkerAssumption
       DEF WorkerFits, At, Moves, Ends, Becomes, Publishing, Early, Reviewer
<1> QED
  BY <1>1, <1>2, <1>3, <1>4, <1>5, StoreKeepsCore DEF VerdictKept

\* The end of a run.
LEMMA ReleaseCore ==
    ASSUME Core, NEW w \in Worker, Release(w)
    PROVE  Core'
<1>1. /\ At(w, "release") /\ faults' \in faults..MaxFaults
      /\ UNCHANGED <<pr, posted, rows, verdict>> /\ Stops(w)
      /\ inflight' \subseteq inflight
      /\ queue' \in [RowId -> 0..MaxMessages]
      /\ \/ UNCHANGED queue
         \/ /\ worker[w].row \in 1..Len(rows)
            /\ \A r \in RowId : r # worker[w].row => queue'[r] = queue[r]
  BY ReleaseCases
<1>2. /\ worker' \in [Worker -> Workers]
      /\ \A v \in Worker \ {w} : worker'[v] = worker[v]
  BY <1>1 DEF Becomes, Stops
<1>3. /\ inflight' \in SUBSET Commit
      /\ \A q \in RowId : queue'[q] > 0 => q \in 1..Len(rows)
  BY <1>1 DEF Core, Shape, QueueFits, TypeOK
<1>4. RowsChange /\ Len(rows') = Len(rows)
  BY <1>1 DEF RowsChange
<1>5. worker'[w].pc \notin Early /\ WorkerFits(w)'
  <2>1. Len(rows) \in Nat
    BY RowFields DEF Core
  <2> QED
    BY <1>1, <2>1 DEF WorkerFits, At, Stops, Becomes, Publishing, Early
<1> QED
  BY <1>1, <1>2, <1>3, <1>4, <1>5, StoreKeepsCore DEF VerdictKept

\* What the poll, the bus and the sweep have to show.
LEMMA DaemonKeepsCore ==
    ASSUME Core, UNCHANGED <<pr, posted, rows, worker, verdict>>,
           faults' \in faults..MaxFaults, inflight' \in SUBSET Commit,
           queue' \in [RowId -> 0..MaxMessages],
           \A r \in RowId : queue'[r] > 0 => r \in 1..Len(rows)
    PROVE  Core'
BY DEF Core, TypeOK, Shape, WorkerFits, At, QueueFits, RowsFit, PostsFit,
       RoomFits, Coming

\* A row is enqueued.
LEMMA PollCore ==
    ASSUME Core, NEW r \in RowId, Poll(r)
    PROVE  Core'
<1>1. /\ r \in 1..Len(rows) /\ queue[r] < MaxMessages
      /\ queue' = [queue EXCEPT ![r] = @ + 1]
      /\ UNCHANGED <<pr, posted, rows, inflight, worker, verdict, faults>>
  BY RowFields DEF Poll, IsPending, Core
<1>2. queue' \in [RowId -> 0..MaxMessages]
  BY <1>1, BoundAssumption DEF Core, TypeOK
<1>3. \A q \in RowId : queue'[q] > 0 => q \in 1..Len(rows)
  BY <1>1 DEF Core, Shape, QueueFits, TypeOK
<1> QED
  BY <1>1, <1>2, <1>3, DaemonKeepsCore DEF Core, TypeOK

\* A message is lost.
LEMMA LoseMessageCore ==
    ASSUME Core, NEW r \in RowId, LoseMessage(r)
    PROVE  Core'
<1>1. /\ queue[r] > 0 /\ queue' = [queue EXCEPT ![r] = @ - 1]
      /\ UNCHANGED <<pr, posted, rows, inflight, worker, verdict>>
  BY DEF LoseMessage
<1>2. faults' \in faults..MaxFaults
  BY FaultCounted DEF Core, LoseMessage, Fails
<1>3. queue' \in [RowId -> 0..MaxMessages]
  BY <1>1, BoundAssumption DEF Core, TypeOK
<1>4. \A q \in RowId : queue'[q] > 0 => q \in 1..Len(rows)
  BY <1>1 DEF Core, Shape, QueueFits, TypeOK
<1> QED
  BY <1>1, <1>2, <1>3, <1>4, DaemonKeepsCore DEF Core, TypeOK

\* A claim is swept.
LEMMA SweepCore ==
    ASSUME Core, NEW sha \in Commit, Sweep(sha)
    PROVE  Core'
<1>1. /\ UNCHANGED <<pr, posted, rows, worker, queue, verdict>>
      /\ inflight' \in SUBSET Commit
  BY DEF Sweep, Core, TypeOK
<1>2. faults' \in faults..MaxFaults
  BY FaultCounted DEF Core, Sweep, Succeeds, Fails
<1> QED
  BY <1>1, <1>2, DaemonKeepsCore DEF Core, Shape, QueueFits, TypeOK

\* The process dies and starts again.
LEMMA CrashCore ==
    ASSUME Core, Crash
    PROVE  Core'
<1>1. /\ UNCHANGED <<pr, posted, rows>> /\ inflight' = {}
      /\ queue' = [r \in RowId |-> 0]
      /\ worker' = [w \in Worker |-> IdleWorker] /\ verdict' = NoVerdict
  BY DEF Crash
<1>2. faults' \in faults..MaxFaults
  BY FaultCounted DEF Core, Crash, Fails
<1>3. TypeOK'
  BY <1>1, <1>2, IdleFields, NothingRemembered, BoundAssumption DEF Core, TypeOK
<1>4. \A w \in Worker : WorkerFits(w)'
  <2>1. Len(rows) \in Nat
    BY RowFields DEF Core
  <2> QED
    BY <1>1, <2>1, IdleFields DEF WorkerFits, At, Publishing, Early
<1>5. RoomFits'
  <2>1. Coming' = {}
    BY <1>1, IdleFields DEF Coming, Early, Worker
  <2>2. Cardinality(Coming') = 0
    BY <2>1, FS_EmptySet
  <2> QED
    BY <1>1, <2>2, RowFields DEF RoomFits, Core, TypeOK
<1>6. QueueFits' /\ RowsFit' /\ PostsFit'
  BY <1>1 DEF Core, Shape, QueueFits, RowsFit, PostsFit
<1> QED
  BY <1>3, <1>4, <1>5, <1>6 DEF Core, Shape

\* What GitHub's steps have to show.
LEMMA GitHubKeepsCore ==
    ASSUME Core, GitHubOnly, faults' \in faults..MaxFaults,
           pr' \in PullRequests, pr.head <= pr'.head,
           posted' \in Seq(Posts), Len(posted) <= Len(posted'), PostsFit'
    PROVE  Core'
<1>1. /\ pr.head \in Nat /\ pr'.head \in Nat /\ Len(posted') \in Nat
  BY RequestFields, LenProperties, BoundAssumption DEF Core, Commit, PullRequests
<1>2. UNCHANGED <<rows, inflight, queue, worker, verdict>>
  BY DEF GitHubOnly
<1>3. TypeOK' /\ RowsFit' /\ Len(rows') \in Nat /\ Len(rows) <= Len(rows')
  BY <1>1, <1>2, RowsKept DEF Core, TypeOK, RowsChange
<1>4. \A v \in Worker : WorkerFits(v)'
  BY <1>1, <1>2, <1>3, OthersFit
<1>5. QueueFits' /\ RoomFits'
  BY <1>2 DEF Core, Shape, QueueFits, RoomFits, Coming
<1> QED
  BY <1>3, <1>4, <1>5 DEF Core, Shape

\* A push, a reopening or a request.
LEMMA RequestCore ==
    ASSUME Core, Push \/ CloseOrReopen \/ Request
    PROVE  Core'
<1>1. pr' \in PullRequests /\ pr.head <= pr'.head
  <2>1. /\ pr \in PullRequests /\ pr.head \in 1..MaxHead /\ MaxHead \in Nat
        /\ pr.events \in 0..MaxEvents /\ MaxEvents \in Nat
    BY RequestFields, BoundAssumption DEF Core, TypeOK, Commit
  <2>2. CASE Push
    <3>1. pr.head + 1 \in Commit
      BY <2>1, <2>2 DEF Push, Commit
    <3>2. pr' = [pr EXCEPT !.head = pr.head + 1, !.updated = Later, !.quiet = FALSE]
      BY <2>2 DEF Push
    <3>3. pr' \in PullRequests
      BY <2>1, <3>1, <3>2, LaterTyped DEF PullRequests
    <3>4. pr'.head = pr.head + 1
      BY <2>1, <3>2 DEF PullRequests
    <3> QED
      BY <2>1, <3>3, <3>4
  <2>3. CASE CloseOrReopen
    <3>1. (~pr.open) \in BOOLEAN
      BY RequestFields DEF Core
    <3>2. pr' = [pr EXCEPT !.open = ~pr.open, !.updated = Later, !.quiet = FALSE]
      BY <2>3, Zenon DEF CloseOrReopen
    <3>3. PICK b \in BOOLEAN :
            pr' = [pr EXCEPT !.open = b, !.updated = Later, !.quiet = FALSE]
      BY <3>1, <3>2, Zenon
    <3>4. pr' \in PullRequests
      BY <2>1, <3>3, LaterTyped DEF PullRequests
    <3>5. pr'.head = pr.head
      BY <2>1, <3>3 DEF PullRequests
    <3> QED
      BY <2>1, <3>4, <3>5
  <2>4. CASE Request
    <3>1. pr.events + 1 \in 0..MaxEvents
      BY <2>1, <2>4 DEF Request
    <3>2. PICK u \in Stamp, b \in BOOLEAN :
            pr' = [pr EXCEPT !.requested = TRUE, !.asked = TRUE, !.events = @ + 1,
                             !.updated = u, !.quiet = b]
      <4>1. PICK u \in {pr.updated, Later} :
              pr' = [pr EXCEPT !.requested = TRUE, !.asked = TRUE, !.events = @ + 1,
                               !.updated = u, !.quiet = u # Later]
        BY <2>4 DEF Request
      <4>2. (u # Later) \in BOOLEAN /\ u \in Stamp
        BY LaterTyped, RequestFields DEF Core
      <4>3. PICK b \in BOOLEAN : b = (u # Later)
        BY <4>2
      <4> QED
        BY <4>1, <4>2, <4>3
    <3>3. pr' \in PullRequests /\ pr'.head = pr.head
      BY <2>1, <3>1, <3>2 DEF PullRequests
    <3> QED
      BY <2>1, <3>3
  <2> QED
    BY <2>2, <2>3, <2>4
<1>2. GitHubOnly /\ UNCHANGED posted /\ faults' \in faults..MaxFaults
  BY FaultCounted DEF Core, Push, CloseOrReopen, Request, Succeeds, Fails
<1>3. /\ posted' \in Seq(Posts) /\ Len(posted) <= Len(posted')
  BY <1>2, RowFields DEF Core, TypeOK
<1>4. PostsFit'
  <2>1. pr.head \in Nat /\ pr'.head \in Nat
    BY <1>1, RequestFields, BoundAssumption DEF Core, PullRequests, Commit
  <2>2. \A i \in 1..Len(posted) : posted[i].made \in Nat /\ posted[i].made <= pr.head
    BY RowFields, BoundAssumption DEF Core, Shape, PostsFit, Commit
  <2> QED
    BY <1>1, <1>2, <2>1, <2>2 DEF PostsFit
<1> QED
  BY <1>1, <1>2, <1>3, <1>4, GitHubKeepsCore

\* The reviews that UpdateBranch moves.
LEMMA UpdateBranchPosts ==
    ASSUME Core, UpdateBranch
    PROVE  /\ pr' \in PullRequests /\ pr'.head = pr.head + 1
           /\ posted' \in Seq(Posts) /\ Len(posted') = Len(posted)
           /\ \A i \in 1..Len(posted) :
                /\ posted'[i].made = posted[i].made /\ posted'[i].row = posted[i].row
                /\ posted'[i].standing = posted[i].standing
                /\ posted[i].standing => posted'[i].sha = pr.head + 1
                /\ ~posted[i].standing => posted'[i].sha = posted[i].sha
<1> DEFINE new == [i \in 1..Len(posted) |->
                      IF posted[i].standing
                      THEN [posted[i] EXCEPT !.sha = pr.head + 1] ELSE posted[i]]
<1>1. /\ Len(posted) \in Nat /\ posted' = new
  BY RowFields DEF Core, UpdateBranch
<1>2. pr.head + 1 \in Commit
  BY RequestFields, BoundAssumption DEF Core, UpdateBranch, Commit
<1>3. pr' \in PullRequests /\ pr'.head = pr.head + 1
  BY <1>2, LaterTyped DEF Core, TypeOK, UpdateBranch, PullRequests
<1>4. \A i \in 1..Len(posted) :
        /\ new[i] \in Posts
        /\ new[i].made = posted[i].made /\ new[i].row = posted[i].row
        /\ new[i].standing = posted[i].standing
        /\ posted[i].standing => new[i].sha = pr.head + 1
        /\ ~posted[i].standing => new[i].sha = posted[i].sha
  <2> TAKE i \in 1..Len(posted)
  <2>1. posted[i] \in Posts
    BY RowFields DEF Core
  <2>2. CASE posted[i].standing
    <3>1. new[i] = [posted[i] EXCEPT !.sha = pr.head + 1]
      BY <2>2
    <3> HIDE DEF new
    <3> QED
      BY <1>2, <2>1, <2>2, <3>1 DEF Posts
  <2>3. CASE ~posted[i].standing
    <3>1. new[i] = posted[i]
      BY <2>3
    <3> HIDE DEF new
    <3> QED
      BY <2>1, <2>3, <3>1
  <2> QED
    BY <2>2, <2>3
<1>5. new \in [1..Len(posted) -> Posts]
  <2>1. \A i \in 1..Len(posted) : new[i] \in Posts
    BY <1>4
  <2>2. new = [i \in 1..Len(posted) |-> new[i]]
    OBVIOUS
  <2> HIDE DEF new
  <2> QED
    BY <2>1, <2>2
<1>6. posted' \in Seq(Posts) /\ Len(posted') = Len(posted)
  <2>1. posted' \in Seq(Posts)
    BY <1>1, <1>5, SeqDef
  <2>2. DOMAIN posted' = 1..Len(posted)
    BY <1>1
  <2>3. DOMAIN posted' = 1..Len(posted') /\ Len(posted') \in Nat
    BY <2>1, LenProperties
  <2> QED
    BY <1>1, <2>1, <2>2, <2>3
<1> HIDE DEF new
<1> QED
  BY <1>1, <1>3, <1>4, <1>6

\* "Update branch" moves the reviews and adds a commit.
LEMMA UpdateBranchCore ==
    ASSUME Core, UpdateBranch
    PROVE  Core'
<1>1. /\ pr' \in PullRequests /\ pr'.head = pr.head + 1
      /\ posted' \in Seq(Posts) /\ Len(posted') = Len(posted)
      /\ \A i \in 1..Len(posted) : posted'[i].made = posted[i].made
  BY UpdateBranchPosts
<1>2. pr.head \in Nat /\ Len(posted) \in Nat
  BY RequestFields, RowFields, BoundAssumption DEF Core, Commit
<1>3. \A i \in 1..Len(posted) : posted[i].made \in Nat /\ posted[i].made <= pr.head
  BY RowFields, BoundAssumption DEF Core, Shape, PostsFit, Commit
<1>4. PostsFit'
  BY <1>1, <1>2, <1>3 DEF PostsFit
<1>5. GitHubOnly /\ faults' \in faults..MaxFaults
  BY FaultCounted DEF Core, UpdateBranch, Succeeds
<1> QED
  BY <1>1, <1>2, <1>4, <1>5, GitHubKeepsCore

\* What a dismissal changes.
LEMMA DismissPosts ==
    ASSUME Core, NEW i \in DOMAIN posted, Dismiss(i)
    PROVE  /\ pr' \in PullRequests /\ pr'.head = pr.head
           /\ pr'.events = pr.events + 1
           /\ posted' \in Seq(Posts) /\ Len(posted') = Len(posted)
           /\ i \in 1..Len(posted) /\ posted[i].standing
           /\ posted'[i].made = posted[i].made /\ posted'[i].sha = posted[i].sha
           /\ posted'[i].row = posted[i].row /\ ~posted'[i].standing
           /\ \A k \in 1..Len(posted) : k # i => posted'[k] = posted[k]
<1> DEFINE x == [posted[i] EXCEPT !.standing = FALSE]
<1>1. i \in 1..Len(posted) /\ posted[i] \in Posts
  BY RowFields DEF Core
<1>2. pr' \in PullRequests /\ pr'.head = pr.head /\ pr'.events = pr.events + 1
  <2>1. pr.events + 1 \in 0..MaxEvents
    BY RequestFields, BoundAssumption DEF Core, Dismiss
  <2> QED
    BY <2>1, LaterTyped DEF Core, TypeOK, Dismiss, PullRequests
<1>3. /\ x \in Posts /\ x.made = posted[i].made /\ x.sha = posted[i].sha
      /\ x.row = posted[i].row /\ ~x.standing
  BY <1>1 DEF Posts
<1>4. posted \in Seq(Posts) /\ posted' = [posted EXCEPT ![i] = x] /\ posted[i].standing
  BY DEF Core, TypeOK, Dismiss
<1>5. /\ posted' \in Seq(Posts) /\ Len(posted') = Len(posted)
      /\ \A k \in 1..Len(posted) : posted'[k] = IF k = i THEN x ELSE posted[k]
  <2> HIDE DEF x
  <2> QED
    BY <1>1, <1>3, <1>4, ExceptSeq
<1> HIDE DEF x
<1> QED
  BY <1>1, <1>2, <1>3, <1>4, <1>5

\* A dismissal.
LEMMA DismissCore ==
    ASSUME Core, NEW i \in DOMAIN posted, Dismiss(i)
    PROVE  Core'
<1>1. /\ pr' \in PullRequests /\ pr'.head = pr.head
      /\ posted' \in Seq(Posts) /\ Len(posted') = Len(posted)
      /\ \A k \in 1..Len(posted) : posted'[k].made = posted[k].made
  BY DismissPosts
<1>2. pr.head \in Nat /\ Len(posted) \in Nat
  BY RequestFields, RowFields, BoundAssumption DEF Core, Commit
<1>3. PostsFit'
  BY <1>1 DEF Core, Shape, PostsFit
<1>5. GitHubOnly /\ faults' \in faults..MaxFaults
  BY FaultCounted DEF Core, Dismiss, Succeeds
<1> QED
  BY <1>1, <1>2, <1>3, <1>5, GitHubKeepsCore

\* Another instance publishes.
LEMMA PeerPostCore ==
    ASSUME Core, PeerPost
    PROVE  Posted(pr.head, 0) /\ Core'
<1>1. /\ pr.head \in Commit /\ 0 \in 0..MaxRows
      /\ pr.head \in Nat /\ Len(posted) \in Nat
  BY RequestFields, RowFields, BoundAssumption DEF Core, Commit
<1>2. Posted(pr.head, 0)
  BY <1>1, PostStep DEF PeerPost, Core
<1>3. PostsFit'
  <2>1. \A i \in 1..(Len(posted) + 1) : i \in 1..Len(posted) \/ i = Len(posted) + 1
    BY <1>1
  <2>2. \A i \in 1..Len(posted) : posted[i].made <= pr.head
    BY DEF Core, Shape, PostsFit
  <2> QED
    BY <1>1, <1>2, <2>1, <2>2 DEF Posted, PostsFit
<1>4. GitHubOnly /\ faults' \in faults..MaxFaults
  BY FaultCounted DEF Core, PeerPost, Succeeds
<1> QED
  BY <1>1, <1>2, <1>3, <1>4, GitHubKeepsCore DEF Posted

\* Only reviewers pass the gate, look for peers and generate.
LEMMA OnlyReviewers ==
    ASSUME Core, NEW w \in Worker, Gate(w) \/ PeerCheck(w) \/ Generate(w)
    PROVE  w \in Reviewer
BY DEF Core, Shape, WorkerFits, At, Gate, PeerCheck, Generate, Worker

\* Types and shape hold at the start,
LEMMA InitCore == Init => Core
<1> SUFFICES ASSUME Init PROVE Core
  OBVIOUS
<1>1. Len(rows) = 0 /\ Len(posted) = 0 /\ rows \in Seq(Rows) /\ posted \in Seq(Posts)
  BY EmptySeq DEF Init
<1>2. DOMAIN rows = {} /\ DOMAIN posted = {}
  BY <1>1, LenProperties
<1>3. pr \in PullRequests
  BY StampType, BoundAssumption DEF Init, PullRequests, Commit
<1>4. TypeOK
  BY <1>1, <1>2, <1>3, IdleFields, NothingRemembered, BoundAssumption DEF Init, TypeOK
<1>5. \A w \in Worker : WorkerFits(w)
  BY <1>1, IdleFields DEF Init, WorkerFits, At, Publishing, Early
<1>6. RoomFits
  <2>1. Coming = {}
    BY IdleFields DEF Init, Coming, Early, Worker
  <2> QED
    BY <1>1, <2>1, FS_EmptySet, BoundAssumption DEF RoomFits
<1>7. QueueFits /\ RowsFit /\ PostsFit
  BY <1>1 DEF Init, QueueFits, RowsFit, PostsFit
<1> QED
  BY <1>4, <1>5, <1>6, <1>7 DEF Core, Shape

\* and every step keeps them.
LEMMA NextCore ==
    ASSUME Core, [Next]_vars
    PROVE  Core'
<1>1. CASE \E w \in Automatic : Start(w)
  BY <1>1, StartCore DEF Reviewer
<1>2. CASE \E w \in Manual : Trigger(w)
  BY <1>2, StartCore DEF Reviewer
<1>3. CASE \E w \in Publisher, r \in RowId : Deliver(w, r)
  BY <1>3, DeliverCore
<1>4. ASSUME NEW w \in Worker, Proceed(w)
      PROVE  Core'
  BY <1>4, ClaimCore, GateCore, PeerCore, GenerateCore, RecheckCore, GuardCore,
     SubmitCore, MarkCore, ReleaseCore, OnlyReviewers DEF Proceed
<1>5. CASE \E r \in RowId : Poll(r) \/ LoseMessage(r)
  BY <1>5, PollCore, LoseMessageCore
<1>6. CASE \E sha \in Commit : Sweep(sha)
  BY <1>6, SweepCore
<1>7. CASE Crash
  BY <1>7, CrashCore
<1>8. CASE Environment
  BY <1>8, RequestCore, UpdateBranchCore, DismissCore, PeerPostCore DEF Environment
<1>9. CASE UNCHANGED vars
  BY <1>9 DEF vars, Core, TypeOK, Shape, WorkerFits, At, QueueFits, RowsFit,
     PostsFit, RoomFits, Coming
<1> QED
  BY <1>1, <1>2, <1>3, <1>4, <1>5, <1>6, <1>7, <1>8, <1>9 DEF Next

\* In every state, whatever fails, the variables are typed and every review
\* recorded as published is one GitHub has.
THEOREM TypeCorrect == Spec => []TypeOK
<1>1. Init => Core
  BY InitCore
<1>2. Core /\ [Next]_vars => Core'
  BY NextCore
<1>3. Core => TypeOK
  BY DEF Core
<1> QED
  BY <1>1, <1>2, <1>3, PTL DEF Spec

---------------------------------------------------------------------------
\* How often a review is submitted.

\* The runs on a commit that are past their claim, with or without it,
Active(sha) ==
    {w \in Worker : worker[w].pc \notin {"idle", "claim"} /\ worker[w].sha = sha}

\* whether one of them has a claim that nobody swept or released,
Covered(sha) == IF sha \in inflight /\ Owned(sha) THEN 1 ELSE 0

\* and how many run beside it.
Excess(sha) == Cardinality(Active(sha)) - Covered(sha)

\* Of a row: its submissions, the runs that are to record one, and those that
\* may submit it yet.
Times(r) == Cardinality({i \in DOMAIN posted : posted[i].row = r})

Recording(r) == {w \in Worker : worker[w].pc = "mark" /\ worker[w].row = r}

Holding(r) ==
    {w \in Worker : /\ worker[w].pc \in {"claim", "recheck", "guard", "submit"}
                    /\ worker[w].row = r}

\* The run that generated the review is alone with it, and no message names it.
Alone(r) ==
    \E g \in Reviewer : /\ Active(rows[r].sha) = {g}
                        /\ worker[g].row = r /\ worker[g].pc \in Publishing

Unshared(r) == queue[r] = 0 /\ \A w \in Publisher : worker[w].row # r

\* The run that generated the review has the claim, and others wait for it.
Contested(r) == Alone(r) /\ Covered(rows[r].sha) = 1 /\ ~Unshared(r)

\* While a row is pending every submission but the one being recorded, and
\* every run beside the claim, has cost a fault.
PendingBound(r) ==
    /\ Times(r) + Excess(rows[r].sha) <= faults + Cardinality(Recording(r))
    /\ Contested(r) => Times(r) + 1 <= faults + Cardinality(Recording(r))

\* Afterwards only those submit it that read it before.
ResolvedBound(r) ==
    Times(r) + Cardinality(Holding(r)) <= faults + Cardinality(Publisher)

RowBound(r) == IF rows[r].gh = Pending THEN PendingBound(r) ELSE ResolvedBound(r)

Bounded ==
    /\ \A sha \in Commit : Excess(sha) <= faults
    /\ \A r \in 1..Len(rows) : RowBound(r)

\* Who has a row works on its commit; only one run generated it.
Linked ==
    /\ \A w \in Worker : \A r \in 1..Len(rows) :
          worker[w].row = r /\ rows[r].gh = Pending => worker[w].sha = rows[r].sha
    /\ \A v, w \in Reviewer :
          worker[v].row # 0 /\ worker[v].row = worker[w].row => v = w
    /\ \A i \in 1..Len(posted) : posted[i].row \in 0..Len(rows)

Steady == Core /\ Linked /\ Bounded

One(b) == IF b THEN 1 ELSE 0

\* A set that one worker enters or leaves.
Shifts(S, T, w) == Cardinality(T) + One(w \in S) = Cardinality(S) + One(w \in T)

---------------------------------------------------------------------------
\* Counting.

\* Sets of workers are counted one by one.
LEMMA OneWorker ==
    ASSUME NEW w \in Worker, NEW S \in SUBSET Worker, NEW T \in SUBSET Worker,
           \A v \in Worker \ {w} : v \in S <=> v \in T
    PROVE  /\ IsFiniteSet(S) /\ IsFiniteSet(T)
           /\ Cardinality(S) \in Nat /\ Cardinality(T) \in Nat /\ Shifts(S, T, w)
<1>1. /\ IsFiniteSet(S) /\ IsFiniteSet(T)
      /\ Cardinality(S) \in Nat /\ Cardinality(T) \in Nat
  BY WorkerAssumption, FewerElements
<1>2. CASE w \in S <=> w \in T
  <2>1. S = T
    BY <1>2
  <2> QED
    BY <1>1, <2>1 DEF Shifts, One
<1>3. CASE w \in T /\ w \notin S
  <2>1. T = S \cup {w}
    BY <1>3
  <2>2. Cardinality(T) = Cardinality(S) + 1
    BY <1>1, <1>3, <2>1, FS_AddElement
  <2> QED
    BY <1>1, <1>3, <2>2 DEF Shifts, One
<1>4. CASE w \in S /\ w \notin T
  <2>1. S = T \cup {w}
    BY <1>4
  <2>2. Cardinality(S) = Cardinality(T) + 1
    BY <1>1, <1>4, <2>1, FS_AddElement
  <2> QED
    BY <1>1, <1>4, <2>2 DEF Shifts, One
<1> QED
  BY <1>2, <1>3, <1>4

\* All the counts are numbers.
Countable ==
    /\ faults \in Nat
    /\ Cardinality(Publisher) \in Nat /\ 1 <= Cardinality(Publisher)
    /\ IsFiniteSet(Publisher)
    /\ \A sha : /\ IsFiniteSet(Active(sha)) /\ Cardinality(Active(sha)) \in Nat
                /\ Covered(sha) \in {0, 1} /\ Excess(sha) \in Int
    /\ \A r : /\ Times(r) \in Nat
              /\ IsFiniteSet(Recording(r)) /\ Cardinality(Recording(r)) \in Nat
              /\ IsFiniteSet(Holding(r)) /\ Cardinality(Holding(r)) \in Nat

\* They are in every state,
LEMMA Counts == Core => Countable
<1> SUFFICES ASSUME Core
             PROVE  Countable
  OBVIOUS
<1>1. faults \in Nat
  BY BoundAssumption DEF Core, TypeOK
<1>2. /\ IsFiniteSet(Publisher) /\ Cardinality(Publisher) \in Nat
      /\ 1 <= Cardinality(Publisher)
  <2>1. Publisher \in SUBSET Worker
    BY DEF Worker
  <2>2. IsFiniteSet(Publisher)
    BY <2>1, WorkerAssumption, FewerElements
  <2>3. PICK p \in Publisher : TRUE
    BY WorkerAssumption
  <2> QED
    BY <2>2, <2>3, SomeElement
<1>3. \A sha : /\ IsFiniteSet(Active(sha)) /\ Cardinality(Active(sha)) \in Nat
               /\ Covered(sha) \in {0, 1} /\ Excess(sha) \in Int
  <2> TAKE sha
  <2>1. Active(sha) \in SUBSET Worker
    BY DEF Active
  <2>2. IsFiniteSet(Active(sha)) /\ Cardinality(Active(sha)) \in Nat
    BY <2>1, WorkerAssumption, FewerElements
  <2>3. Covered(sha) \in {0, 1}
    BY DEF Covered
  <2> QED
    BY <2>2, <2>3 DEF Excess
<1>4. \A r : /\ Times(r) \in Nat
             /\ IsFiniteSet(Recording(r)) /\ Cardinality(Recording(r)) \in Nat
             /\ IsFiniteSet(Holding(r)) /\ Cardinality(Holding(r)) \in Nat
  <2> TAKE r
  <2>1. {i \in DOMAIN posted : posted[i].row = r} \in SUBSET (1..Len(posted))
    BY RowFields DEF Core
  <2>2. Times(r) \in Nat
    BY <2>1, RowFields, FiniteInterval DEF Times, Core
  <2>3. Recording(r) \in SUBSET Worker /\ Holding(r) \in SUBSET Worker
    BY DEF Recording, Holding
  <2>4. IsFiniteSet(Recording(r)) /\ Cardinality(Recording(r)) \in Nat
    BY <2>3, WorkerAssumption, FewerElements
  <2>5. IsFiniteSet(Holding(r)) /\ Cardinality(Holding(r)) \in Nat
    BY <2>3, WorkerAssumption, FewerElements
  <2> QED
    BY <2>2, <2>4, <2>5
<1> QED
  BY <1>1, <1>2, <1>3, <1>4 DEF Countable

\* also after a step.
LEMMA CountsAfter == Core' => Countable'
BY Counts, PTL

\* What the step of a worker does to them.
LEMMA WorkerCounts ==
    ASSUME NEW w \in Worker, \A v \in Worker \ {w} : worker'[v] = worker[v]
    PROVE  /\ \A sha : Shifts(Active(sha), Active(sha)', w)
           /\ \A r : /\ Shifts(Recording(r), Recording(r)', w)
                     /\ Shifts(Holding(r), Holding(r)', w)
<1>1. ASSUME NEW sha
      PROVE  Shifts(Active(sha), Active(sha)', w)
  <2>1. /\ Active(sha) \in SUBSET Worker /\ Active(sha)' \in SUBSET Worker
        /\ \A v \in Worker \ {w} : v \in Active(sha) <=> v \in Active(sha)'
    BY DEF Active
  <2> QED
    BY <2>1, OneWorker
<1>2. ASSUME NEW r
      PROVE  Shifts(Recording(r), Recording(r)', w)
  <2>1. /\ Recording(r) \in SUBSET Worker /\ Recording(r)' \in SUBSET Worker
        /\ \A v \in Worker \ {w} : v \in Recording(r) <=> v \in Recording(r)'
    BY DEF Recording
  <2> QED
    BY <2>1, OneWorker
<1>3. ASSUME NEW r
      PROVE  Shifts(Holding(r), Holding(r)', w)
  <2>1. /\ Holding(r) \in SUBSET Worker /\ Holding(r)' \in SUBSET Worker
        /\ \A v \in Worker \ {w} : v \in Holding(r) <=> v \in Holding(r)'
    BY DEF Holding
  <2> QED
    BY <2>1, OneWorker
<1> QED
  BY <1>1, <1>2, <1>3

\* Reviews that stay, whatever else happens to them, keep their counts,
LEMMA SamePosts ==
    ASSUME Core, Core', Len(posted') = Len(posted),
           \A i \in 1..Len(posted) : posted'[i].row = posted[i].row, NEW r
    PROVE  Times(r)' = Times(r)
<1>1. DOMAIN posted = 1..Len(posted)
  BY RowFields DEF Core
<1>2. DOMAIN posted' = 1..Len(posted)
  BY LenProperties DEF Core, TypeOK
<1>3. {i \in DOMAIN posted' : posted'[i].row = r} = {i \in DOMAIN posted : posted[i].row = r}
  BY <1>1, <1>2
<1> QED
  BY <1>3 DEF Times

\* and a new one is counted for its row.
LEMMA NewPost ==
    ASSUME Core, Core', NEW sha, NEW row, Posted(sha, row), NEW r
    PROVE  Times(r)' = Times(r) + One(r = row)
<1> DEFINE S == {i \in DOMAIN posted : posted[i].row = r}
           T == {i \in DOMAIN posted' : posted'[i].row = r}
           n == Len(posted) + 1
<1>1. /\ Len(posted) \in Nat /\ DOMAIN posted = 1..Len(posted)
  BY RowFields DEF Core
<1>2. DOMAIN posted' = 1..n
  BY LenProperties DEF Core, TypeOK, Posted
<1>3. \A i : i \in 1..n <=> i \in 1..Len(posted) \/ i = n
  BY <1>1
<1>4. S \in SUBSET (1..Len(posted)) /\ n \notin S
  BY <1>1
<1>5. IsFiniteSet(S) /\ Cardinality(S) \in Nat
  BY <1>1, <1>4, FiniteInterval
<1>6. CASE r = row
  <2>1. T = S \cup {n}
    BY <1>1, <1>2, <1>3, <1>6 DEF Posted
  <2> HIDE DEF S, T, n
  <2>2. Cardinality(T) = Cardinality(S) + 1
    BY <1>4, <1>5, <2>1, FS_AddElement
  <2> QED
    BY <1>6, <2>2 DEF Times, One, S, T
<1>7. CASE r # row
  <2>1. T = S
    BY <1>1, <1>2, <1>3, <1>7 DEF Posted
  <2>2. Times(r) = Cardinality(S) /\ Times(r)' = Cardinality(T)
    BY DEF Times
  <2> HIDE DEF S, T, n
  <2> QED
    BY <1>5, <1>7, <2>1, <2>2 DEF One
<1> QED
  BY <1>6, <1>7

---------------------------------------------------------------------------
\* Runs that stay on their commit.

Works(w) == worker[w].pc \notin {"idle", "claim"}

\* Nobody starts, stops, takes a claim or loses one.
Unmoved(w) ==
    /\ \A v \in Worker \ {w} : worker'[v] = worker[v]
    /\ Works(w) /\ worker'[w].pc \notin {"idle", "claim"}
    /\ worker'[w].sha = worker[w].sha /\ worker'[w].owns = worker[w].owns
    /\ UNCHANGED <<inflight, queue>> /\ faults <= faults'

\* Then as many runs are on every commit, with as many claims.
LEMMA UnmovedCounts ==
    ASSUME NEW w \in Worker, Unmoved(w), NEW sha
    PROVE  /\ Active(sha)' = Active(sha) /\ Covered(sha)' = Covered(sha)
           /\ Excess(sha)' = Excess(sha)
<1>1. Active(sha)' = Active(sha)
  BY DEF Unmoved, Works, Active
<1>2. Owned(sha)' <=> Owned(sha)
  BY DEF Unmoved, Owned
<1>3. Covered(sha)' = Covered(sha)
  BY <1>2 DEF Unmoved, Covered
<1> QED
  BY <1>1, <1>3 DEF Excess

\* Neither the state of a row nor the worker's hold on it changes.
Untouched(r, w) ==
    /\ rows'[r].gh = Pending <=> rows[r].gh = Pending
    /\ rows[r].gh = Pending => rows'[r].sha = rows[r].sha
    /\ worker'[w].row = r <=> worker[w].row = r
    /\ worker[w].row = r /\ worker'[w].pc \in Publishing => worker[w].pc \in Publishing

\* What a row that is not resolved by such a step has to show.
LEMMA StayRow ==
    ASSUME Core, Core', NEW r \in 1..Len(rows), RowBound(r),
           NEW w \in Worker, Unmoved(w), Untouched(r, w),
           rows[r].gh = Pending =>
                Times(r)' + One(w \in Recording(r)) + faults
                    <= Times(r) + One(w \in Recording(r)') + faults',
           Times(r)' + One(w \in Holding(r)') + faults
                <= Times(r) + One(w \in Holding(r)) + faults'
    PROVE  RowBound(r)'
<1>1. PICK f \in Nat, g \in Nat, p \in Nat, s \in Nat, t \in Nat :
        /\ f = faults /\ g = faults' /\ p = Cardinality(Publisher)
        /\ s = Times(r) /\ t = Times(r)'
  BY Counts, CountsAfter DEF Countable
<1>2. PICK m \in Nat, n \in Nat, h \in Nat, k \in Nat :
        /\ m = Cardinality(Recording(r)) /\ n = Cardinality(Recording(r)')
        /\ h = Cardinality(Holding(r)) /\ k = Cardinality(Holding(r)')
  BY Counts, CountsAfter DEF Countable
<1>3. PICK x \in Nat, y \in Nat, u \in Nat, v \in Nat :
        /\ x = One(w \in Recording(r)) /\ y = One(w \in Recording(r)')
        /\ u = One(w \in Holding(r)) /\ v = One(w \in Holding(r)')
  <2>1. /\ One(w \in Recording(r)) \in Nat /\ One(w \in Recording(r)') \in Nat
        /\ One(w \in Holding(r)) \in Nat /\ One(w \in Holding(r)') \in Nat
    BY DEF One
  <2> QED
    BY <2>1
<1>4. n + x = m + y /\ k + u = h + v
  <2>1. Shifts(Recording(r), Recording(r)', w) /\ Shifts(Holding(r), Holding(r)', w)
    BY WorkerCounts DEF Unmoved
  <2> QED
    BY <1>2, <1>3, <2>1 DEF Shifts
<1>5. (rows[r].gh = Pending => t + x + f <= s + y + g) /\ t + v + f <= s + u + g
  BY <1>1, <1>3
<1>6. CASE rows[r].gh = Pending
  <2>0. PICK sha : sha = rows[r].sha
    OBVIOUS
  <2>1. /\ Active(sha)' = Active(sha) /\ Covered(sha)' = Covered(sha)
        /\ Excess(sha)' = Excess(sha) /\ Excess(sha) \in Int
    BY UnmovedCounts, Counts DEF Countable
  <2>2. rows'[r].sha = sha /\ PendingBound(r)
    BY <1>6, <2>0 DEF Untouched, RowBound
  <2>3. /\ Active(rows[r].sha)' = Active(sha) /\ Covered(rows[r].sha)' = Covered(sha)
        /\ Excess(rows[r].sha)' = Excess(sha)
    BY <2>1, <2>2 DEF Active, Covered, Excess, Owned
  <2>4. Alone(r)' => Alone(r)
    <3>1. SUFFICES ASSUME NEW g1 \in Reviewer, Active(sha) = {g1}, worker'[g1].row = r,
                          worker'[g1].pc \in Publishing
                   PROVE  worker[g1].row = r /\ worker[g1].pc \in Publishing
      BY <2>0, <2>3 DEF Alone
    <3> QED
      BY <3>1 DEF Unmoved, Untouched, Worker
  <2>5. Unshared(r) => Unshared(r)'
    BY DEF Unshared, Unmoved, Untouched, Worker
  <2>6. Contested(r)' => Contested(r)
    BY <2>0, <2>3, <2>4, <2>5 DEF Contested
  <2>7. PICK e \in Int : e = Excess(sha)
    BY <2>1
  <2>8. s + e <= f + m /\ (Contested(r) => s + 1 <= f + m)
    BY <1>1, <1>2, <2>0, <2>2, <2>7 DEF PendingBound
  <2>9. t + e <= g + n /\ (Contested(r)' => t + 1 <= g + n)
    BY <1>4, <1>5, <1>6, <2>6, <2>8
  <2>10. PendingBound(r)'
    BY <1>1, <1>2, <2>3, <2>7, <2>9 DEF PendingBound
  <2> QED
    BY <1>6, <2>10 DEF RowBound, Untouched
<1>7. CASE rows[r].gh # Pending
  <2>1. s + h <= f + p
    BY <1>1, <1>2, <1>7 DEF RowBound, ResolvedBound
  <2>2. t + k <= g + p
    BY <1>4, <1>5, <2>1
  <2>3. ResolvedBound(r)'
    BY <1>1, <1>2, <2>2 DEF ResolvedBound
  <2> QED
    BY <1>7, <2>3 DEF RowBound, Untouched
<1> QED
  BY <1>6, <1>7

\* The runs that may submit a row, and the one that records a submission, are
\* on its commit or publish workers about to claim it.
LEMMA Holders ==
    ASSUME Steady, NEW r \in 1..Len(rows), rows[r].gh = Pending
    PROVE  /\ Recording(r) \subseteq Active(rows[r].sha)
           /\ \A v \in Holding(r) : v \in Active(rows[r].sha) \/ v \in Publisher
           /\ Recording(r) \cap Holding(r) = {}
<1>1. \A v \in Worker : worker[v].row = r => worker[v].sha = rows[r].sha
  BY DEF Steady, Linked
<1>2. \A v \in Reviewer : worker[v].pc = "claim" => worker[v].row = 0
  BY DEF Steady, Core, Shape, WorkerFits, Early, Worker
<1>3. r # 0
  OBVIOUS
<1> QED
  BY <1>1, <1>2, <1>3 DEF Recording, Holding, Active, Worker

\* A pending row that is resolved by a run on it.
LEMMA ResolvedRow ==
    ASSUME Steady, Core', NEW r \in 1..Len(rows), rows[r].gh = Pending,
           NEW w \in Worker, worker[w].row = r, worker[w].pc \in Publishing,
           Unmoved(w), worker'[w].pc = "release", Times(r)' = Times(r)
    PROVE  ResolvedBound(r)'
<1> DEFINE sha == rows[r].sha
           K == Recording(r) \cup (Holding(r) \cap Active(sha))
           C == Holding(r) \ Active(sha)
<1>1. /\ faults \in Nat /\ faults' \in Nat /\ faults <= faults'
      /\ Cardinality(Publisher) \in Nat /\ 1 <= Cardinality(Publisher)
      /\ IsFiniteSet(Publisher)
      /\ Times(r) \in Nat /\ Times(r)' \in Nat
      /\ IsFiniteSet(Active(sha)) /\ Cardinality(Active(sha)) \in Nat
      /\ Covered(sha) \in {0, 1}
      /\ IsFiniteSet(Recording(r)) /\ Cardinality(Recording(r)) \in Nat
      /\ IsFiniteSet(Holding(r)) /\ Cardinality(Holding(r)) \in Nat
      /\ Cardinality(Holding(r)') \in Nat
  BY Counts, CountsAfter DEF Countable, Steady, Unmoved
<1>2. /\ Recording(r) \subseteq Active(sha)
      /\ \A v \in Holding(r) : v \in Active(sha) \/ v \in Publisher
      /\ Recording(r) \cap Holding(r) = {}
  BY Holders
<1>3. PendingBound(r)
  BY DEF Steady, Bounded, RowBound
<1>4. w \in K /\ w \in Active(sha) /\ w \notin Holding(r)'
  <2>1. w \in Recording(r) \/ w \in Holding(r)
    BY DEF Recording, Holding, Publishing
  <2>2. w \in Active(sha)
    BY DEF Active, Publishing, Steady, Linked
  <2>3. w \notin Holding(r)'
    BY DEF Holding
  <2> QED
    BY <2>1, <2>2, <2>3
<1>5. Holding(r)' \subseteq Holding(r) \ {w}
  BY <1>4 DEF Holding, Unmoved
<1>6. /\ IsFiniteSet(K) /\ IsFiniteSet(C) /\ K \subseteq Active(sha)
      /\ Cardinality(K) \in Nat /\ Cardinality(C) \in Nat
      /\ Cardinality(K) <= Cardinality(Active(sha))
      /\ C \subseteq Publisher /\ Cardinality(C) <= Cardinality(Publisher)
  <2>1. K \in SUBSET Active(sha) /\ C \in SUBSET Publisher
    BY <1>2
  <2> QED
    BY <1>1, <2>1, FewerElements
<1>7. Cardinality(K) = Cardinality(Recording(r)) + Cardinality(Holding(r) \cap Active(sha))
  <2> DEFINE H == Holding(r) \cap Active(sha)
  <2>1. IsFiniteSet(H) /\ Cardinality(H) \in Nat
    <3>1. H \in SUBSET Active(sha)
      OBVIOUS
    <3> QED
      BY <1>1, <3>1, FewerElements
  <2>2. Recording(r) \cap H = {}
    BY <1>2
  <2>3. Cardinality(Recording(r) \cup H)
            = Cardinality(Recording(r)) + Cardinality(H) - Cardinality(Recording(r) \cap H)
    BY <1>1, <2>1, FS_Union
  <2>4. Cardinality(Recording(r) \cap H) = 0
    BY <2>2, FS_EmptySet
  <2> HIDE DEF H
  <2> QED
    BY <1>1, <2>1, <2>3, <2>4 DEF H

<1>8. Cardinality(Holding(r)) = Cardinality(Holding(r) \cap Active(sha)) + Cardinality(C)
  <2> DEFINE H == Holding(r) \cap Active(sha)
  <2>1. IsFiniteSet(H) /\ Cardinality(H) \in Nat
    <3>1. H \in SUBSET Active(sha)
      OBVIOUS
    <3> QED
      BY <1>1, <3>1, FewerElements
  <2>2. H \cap C = {} /\ H \cup C = Holding(r)
    OBVIOUS
  <2>3. Cardinality(H \cup C) = Cardinality(H) + Cardinality(C) - Cardinality(H \cap C)
    BY <1>6, <2>1, FS_Union
  <2>4. Cardinality(H \cap C) = 0
    BY <2>2, FS_EmptySet
  <2> HIDE DEF H, C
  <2>5. Cardinality(Holding(r)) = Cardinality(H) + Cardinality(C)
    <3>1. PICK x \in Nat, y \in Nat : x = Cardinality(H) /\ y = Cardinality(C)
      BY <1>6, <2>1
    <3>2. Cardinality(H \cup C) = x + y
      BY <2>3, <2>4, <3>1
    <3> QED
      BY <2>2, <3>1, <3>2
  <2> QED
    BY <2>5 DEF H
<1>9. PICK t \in Nat, f \in Nat, m \in Nat, h \in Nat : 
        /\ t = Times(r) /\ f = faults /\ m = Cardinality(Recording(r))
        /\ h = Cardinality(Holding(r) \cap Active(sha))
  <2>1. Holding(r) \cap Active(sha) \in SUBSET Active(sha)
    OBVIOUS
  <2> QED
    BY <1>1, <2>1, FewerElements
<1>10. PICK c \in Nat, p \in Nat, a \in Nat, k \in {0, 1} :
        /\ c = Cardinality(C) /\ p = Cardinality(Publisher)
        /\ a = Cardinality(Active(sha)) /\ k = Covered(sha)
  BY <1>1, <1>6
<1>11. t + (a - k) <= f + m /\ m + h <= a /\ 1 <= p /\ c <= p
  BY <1>1, <1>3, <1>6, <1>7, <1>9, <1>10 DEF PendingBound, Excess
<1>12. PICK n \in Nat, g \in Nat :
        n = Cardinality(Holding(r)') /\ g = faults' /\ f <= g
  BY <1>1, <1>9
<1>13. SUFFICES t + n <= g + p
  BY <1>9, <1>10, <1>12 DEF ResolvedBound
<1>14. t + h <= f + 1
  <2> HIDE DEF K, C, sha
  <2>1. k \in Nat /\ k <= 1
    OBVIOUS
  <2>2. t + (a - k) <= f + m /\ m + h <= a
    BY <1>11
  <2>3. t + a <= f + m + k
    BY <2>1, <2>2
  <2> QED
    BY <2>1, <2>2, <2>3
<1>15. CASE w \in Holding(r)
  <2>1. n + 1 <= h + c
    <3>1. Holding(r)' \in SUBSET (Holding(r) \ {w})
      BY <1>5
    <3>2. Cardinality(Holding(r)') + 1 <= Cardinality(Holding(r))
      BY <1>1, <1>15, <3>1, OneElementLess
    <3> QED
      BY <1>8, <1>9, <1>10, <1>12, <3>2
  <2> HIDE DEF K, C, sha
  <2>2. t + h + c <= f + 1 + p
    BY <1>11, <1>14
  <2>3. t + n + 1 <= f + 1 + p
    BY <1>12, <2>1, <2>2
  <2> QED
    BY <1>12, <2>3
<1>16. CASE w \notin Holding(r)
  <2>1. w \in Recording(r) /\ n <= h + c
    <3>1. Holding(r)' \in SUBSET Holding(r) /\ w \in Recording(r)
      BY <1>4, <1>5, <1>16
    <3>2. Cardinality(Holding(r)') <= Cardinality(Holding(r))
      BY <1>1, <3>1, FewerElements
    <3> QED
      BY <1>8, <1>9, <1>10, <1>12, <3>1, <3>2
  <2>2. SUFFICES t + h + c <= f + p
    BY <1>12, <2>1
  <2>3. CASE k = 0
    BY <1>11, <2>3
  <2>4. CASE K # Active(sha)
    <3>1. PICK v \in Active(sha) : v \notin K
      BY <1>6, <2>4
    <3>2. K \in SUBSET (Active(sha) \ {v})
      BY <1>6, <3>1
    <3>3. Cardinality(K) + 1 <= Cardinality(Active(sha))
      BY <1>1, <3>1, <3>2, OneElementLess
    <3>4. m + h + 1 <= a
      BY <1>7, <1>9, <1>10, <3>3
    <3> QED
      BY <1>11, <3>4
  <2>5. ASSUME NEW v \in Active(sha), v \in Publisher
        PROVE  t + h + c <= f + p
    <3>1. C \in SUBSET (Publisher \ {v})
      BY <1>6, <2>5
    <3>2. Cardinality(C) + 1 <= Cardinality(Publisher)
      BY <1>1, <2>5, <3>1, OneElementLess
    <3>3. c + 1 <= p
      BY <1>10, <3>2
    <3> HIDE DEF K, C, sha
    <3> QED
      BY <1>14, <3>3
  <2>6. CASE k = 1 /\ K = Active(sha) /\ Active(sha) \cap Publisher = {}
    <3>1. w \in Reviewer /\ Active(sha) = {w}
      <4>1. w \in Reviewer
        BY <1>4, <2>6 DEF Worker
      <4>2. ASSUME NEW v \in Active(sha) PROVE v = w
        <5>1. v \in K /\ v \in Reviewer
          BY <2>6, <4>2 DEF Active, Worker
        <5>2. worker[v].row = r /\ r # 0
          BY <5>1 DEF Recording, Holding
        <5> QED
          BY <4>1, <5>1, <5>2 DEF Steady, Linked
      <4> QED
        BY <1>4, <4>1, <4>2
    <3>2. a = 1 /\ h = 0
      <4>1. Holding(r) \cap Active(sha) = {}
        BY <3>1, <1>16
      <4>2. Cardinality({w}) = 1 /\ Cardinality({}) = 0
        BY FS_Singleton, FS_EmptySet
      <4> QED
        BY <1>9, <1>10, <3>1, <4>1, <4>2
    <3>3. m = 1
      <4>1. m + h = a
        BY <1>7, <1>9, <1>10, <2>6
      <4> QED
        BY <3>2, <4>1
    <3>4. Alone(r)
      BY <3>1 DEF Alone
    <3>5. CASE Unshared(r)
      <4>1. C = {}
        BY <1>6, <3>5 DEF Unshared, Holding
      <4>2. c = 0
        BY <1>10, <4>1, FS_EmptySet
      <4> QED
        BY <1>11, <3>2, <3>3, <4>2
    <3>6. CASE ~Unshared(r)
      <4>1. t + 1 <= f + m
        BY <1>3, <1>9, <1>10, <2>6, <3>4, <3>6 DEF PendingBound, Contested
      <4> QED
        BY <1>11, <3>2, <3>3, <4>1
    <3> QED
      BY <3>5, <3>6
  <2> QED
    BY <1>10, <2>3, <2>4, <2>5, <2>6
<1> QED
  BY <1>15, <1>16

---------------------------------------------------------------------------
\* Who has which row.

\* No row becomes pending, and none that stays pending moves.
RowsSettle ==
    /\ Len(rows) <= Len(rows')
    /\ \A r \in 1..Len(rows) :
          rows'[r].gh = Pending => rows[r].gh = Pending /\ rows'[r].sha = rows[r].sha

\* A worker that keeps its row, drops it or reads one anew leaves every row
\* with workers on its commit.
LEMMA LinkedKept ==
    ASSUME Steady, Core', RowsSettle,
           NEW w \in Worker, \A v \in Worker \ {w} : worker'[v] = worker[v],
           \/ worker'[w].row = worker[w].row /\ worker'[w].sha = worker[w].sha
           \/ worker'[w].row = 0
           \/ /\ w \in Publisher /\ worker'[w].row \in 1..Len(rows)
              /\ worker'[w].sha = rows[worker'[w].row].sha,
           \A i \in 1..Len(posted') : posted'[i].row \in 0..Len(rows)
    PROVE  Linked'
<1>1. Len(rows) \in Nat /\ Len(rows') \in Nat /\ Len(rows) <= Len(rows')
  BY RowFields, LenProperties DEF Steady, Core, TypeOK, RowsSettle
<1>2. \A v \in Worker : worker[v].row \in 0..Len(rows)
  BY DEF Steady, Core, Shape, WorkerFits
<1>3. w \in Publisher => w \notin Reviewer
  BY WorkerAssumption
<1>4. ASSUME NEW v \in Worker, NEW r \in 1..Len(rows'), worker'[v].row = r,
             rows'[r].gh = Pending
      PROVE  worker'[v].sha = rows'[r].sha
  <2>1. r \in 1..Len(rows)
    BY <1>1, <1>2, <1>4
  <2>2. rows[r].gh = Pending /\ rows'[r].sha = rows[r].sha
    BY <1>4, <2>1 DEF RowsSettle
  <2>3. worker[v].row = r => worker[v].sha = rows[r].sha
    BY <2>1, <2>2 DEF Steady, Linked
  <2> QED
    BY <1>4, <2>1, <2>2, <2>3
<1>5. ASSUME NEW u \in Reviewer, NEW v \in Reviewer,
             worker'[u].row # 0, worker'[u].row = worker'[v].row
      PROVE  u = v
  <2>1. u \in Worker /\ v \in Worker
    BY DEF Worker
  <2>2. worker'[u].row = worker[u].row /\ worker'[v].row = worker[v].row
    BY <1>3, <1>5, <2>1
  <2> QED
    BY <1>5, <2>2 DEF Steady, Linked
<1>6. \A i \in 1..Len(posted') : posted'[i].row \in 0..Len(rows')
  BY <1>1
<1> QED
  BY <1>4, <1>5, <1>6 DEF Linked

---------------------------------------------------------------------------
\* Steps that leave the rows alone.

\* Submissions stay as many, recorded by the same runs; resolved rows have no
\* new holders.
KeepsCounts ==
    /\ UNCHANGED rows
    /\ \A r \in 1..Len(rows) : Times(r)' = Times(r) /\ Recording(r)' = Recording(r)
    /\ \A r \in 1..Len(rows) : rows[r].gh # Pending => Holding(r)' \subseteq Holding(r)

\* A run that comes to be beside the claim costs a fault.
CountsFaults ==
    /\ faults <= faults'
    /\ \A sha \in Commit : Excess(sha)' + faults <= Excess(sha) + faults'

\* A contested row was contested, or had a run beside the claim.
KeepsContests ==
    \A r \in 1..Len(rows) :
        rows[r].gh = Pending /\ Contested(r)'
            => Contested(r) \/ 1 <= Excess(rows[r].sha)

\* Such a step keeps the bounds.
LEMMA KeepsBounds ==
    ASSUME Steady, Core', KeepsCounts, CountsFaults, KeepsContests
    PROVE  Bounded'
<1>1. PICK f \in Nat, g \in Nat, p \in Nat :
        f = faults /\ g = faults' /\ p = Cardinality(Publisher) /\ f <= g
  BY Counts, CountsAfter DEF Countable, Steady, CountsFaults
<1>10. f <= g
  BY <1>1
<1>2. ASSUME NEW sha \in Commit
      PROVE  Excess(sha)' <= faults'
  <2>1. PICK x \in Int, y \in Int : x = Excess(sha) /\ y = Excess(sha)'
    BY Counts, CountsAfter DEF Countable, Steady
  <2>2. x <= f /\ y + f <= x + g
    BY <1>1, <1>2, <2>1 DEF Steady, Bounded, CountsFaults
  <2> QED
    BY <1>1, <2>1, <2>2
<1>3. ASSUME NEW r \in 1..Len(rows), rows[r].gh = Pending
      PROVE  PendingBound(r)'
  <2>1. PICK sha \in Commit : sha = rows[r].sha
    BY RowFields DEF Steady, Core
  <2>2. PICK x \in Int, y \in Int, t \in Nat, m \in Nat :
          /\ x = Excess(sha) /\ y = Excess(sha)' /\ t = Times(r)
          /\ m = Cardinality(Recording(r))
    BY Counts, CountsAfter DEF Countable, Steady
  <2>3. y + f <= x + g
    BY <1>1, <2>2 DEF CountsFaults
  <2>4. t + x <= f + m /\ (Contested(r) => t + 1 <= f + m)
    BY <1>1, <1>3, <2>1, <2>2 DEF Steady, Bounded, RowBound, PendingBound
  <2>5. Contested(r)' => Contested(r) \/ 1 <= x
    BY <1>3, <2>1, <2>2 DEF KeepsContests
  <2>6. t + y <= g + m /\ (Contested(r)' => t + 1 <= g + m)
    <3>1. t + x <= f + m
      BY <2>4
    <3>2. t + y <= g + m
      BY <2>3, <3>1
    <3>3. ASSUME Contested(r)'
          PROVE  t + 1 <= f + m
      <4>1. CASE Contested(r)
        BY <2>4, <4>1
      <4>2. CASE 1 <= x
        BY <3>1, <4>2
      <4> QED
        BY <2>5, <3>3, <4>1, <4>2
    <3>4. t + 1 <= f + m => t + 1 <= g + m
      BY <1>10
    <3> QED
      BY <3>2, <3>3, <3>4
  <2>7. t = Times(r)' /\ m = Cardinality(Recording(r)')
    BY <2>2 DEF KeepsCounts
  <2>8. rows'[r].sha = sha
    BY <2>1 DEF KeepsCounts
  <2>9. Excess(rows[r].sha)' = y
    BY <2>2, <2>8 DEF Excess, Active, Covered, Owned
  <2> QED
    BY <1>1, <2>6, <2>7, <2>9 DEF PendingBound
<1>4. ASSUME NEW r \in 1..Len(rows), rows[r].gh # Pending
      PROVE  ResolvedBound(r)'
  <2>1. PICK h \in Nat, k \in Nat, t \in Nat :
          h = Cardinality(Holding(r)) /\ k = Cardinality(Holding(r)') /\ t = Times(r)
    BY Counts, CountsAfter DEF Countable, Steady
  <2>2. k <= h
    <3>1. Holding(r)' \in SUBSET Holding(r) /\ IsFiniteSet(Holding(r))
      BY <1>4, Counts DEF Countable, Steady, KeepsCounts
    <3> QED
      BY <2>1, <3>1, FewerElements
  <2>3. t + h <= f + p
    BY <1>1, <1>4, <2>1 DEF Steady, Bounded, RowBound, ResolvedBound
  <2>4. t = Times(r)'
    BY <2>1 DEF KeepsCounts
  <2>5. t + k <= g + p
    BY <1>1, <2>2, <2>3
  <2> QED
    BY <1>1, <2>1, <2>4, <2>5 DEF ResolvedBound
<1> QED
  BY <1>2, <1>3, <1>4 DEF Bounded, RowBound, KeepsCounts

\* The counts depend on the runs, the claims and the rows.
LEMMA SameRuns ==
    ASSUME UNCHANGED <<rows, worker, inflight>>
    PROVE  /\ \A sha : Excess(sha)' = Excess(sha)
           /\ \A r : /\ Recording(r)' = Recording(r) /\ Holding(r)' = Holding(r)
                     /\ Alone(r)' <=> Alone(r)
                     /\ Covered(rows[r].sha)' = Covered(rows[r].sha)
<1>1. \A sha : Active(sha)' = Active(sha) /\ Covered(sha)' = Covered(sha)
  BY DEF Active, Covered, Owned
<1>2. \A r : Alone(r)' <=> Alone(r)
  BY DEF Alone, Active
<1>3. \A r : Covered(rows[r].sha)' = Covered(rows[r].sha)
  BY DEF Covered, Owned
<1>4. \A sha : Excess(sha)' = Excess(sha)
  BY <1>1 DEF Excess
<1> QED
  BY <1>2, <1>3, <1>4 DEF Recording, Holding

\* Messages and reviews that come and go around the runs.
LEMMA QuietSteady ==
    ASSUME Steady, Core', UNCHANGED <<rows, worker, inflight>>, faults <= faults',
           \A r \in 1..Len(rows) : Times(r)' = Times(r),
           \A r \in 1..Len(rows) : Contested(r)' => Contested(r),
           \A i \in 1..Len(posted') : posted'[i].row \in 0..Len(rows)
    PROVE  Steady'
<1>1. /\ \A sha : Excess(sha)' = Excess(sha)
      /\ \A r : Recording(r)' = Recording(r) /\ Holding(r)' = Holding(r)
  BY SameRuns
<1>2. \A sha \in Commit : Excess(sha)' + faults <= Excess(sha) + faults'
  <2> TAKE sha \in Commit
  <2>1. PICK x \in Int, f \in Nat, g \in Nat :
          x = Excess(sha) /\ f = faults /\ g = faults' /\ f <= g
    BY Counts, CountsAfter DEF Countable, Steady
  <2> QED
    BY <1>1, <2>1
<1>3. Bounded'
  BY <1>1, <1>2, KeepsBounds DEF KeepsCounts, CountsFaults, KeepsContests
<1>4. RowsSettle
  BY RowFields DEF RowsSettle, Steady, Core
<1>5. PICK w \in Worker : TRUE
  BY WorkerAssumption DEF Worker
<1>6. Linked'
  BY <1>4, <1>5, LinkedKept
<1> QED
  BY <1>3, <1>6 DEF Steady

\* A row nobody waits for stays so.
KeepsUnshared == \A r \in 1..Len(rows) : Unshared(r) => Unshared(r)'

\* A worker starts before its claim, or stops there.
LEMMA IdleSteady ==
    ASSUME Steady, Core', NEW w \in Worker,
           \A v \in Worker \ {w} : worker'[v] = worker[v],
           ~Works(w), worker'[w].pc \in {"idle", "claim"},
           ~worker[w].owns, ~worker'[w].owns,
           \/ worker'[w].row = worker[w].row /\ worker'[w].sha = worker[w].sha
              /\ worker'[w].pc = worker[w].pc
           \/ worker'[w].row = 0
           \/ /\ w \in Publisher /\ worker'[w].row \in 1..Len(rows)
              /\ worker'[w].sha = rows[worker'[w].row].sha
              /\ rows[worker'[w].row].gh = Pending,
           UNCHANGED <<posted, rows, inflight>>, faults <= faults', KeepsUnshared
    PROVE  Steady'
<1>1. \A sha : Active(sha)' = Active(sha) /\ Covered(sha)' = Covered(sha)
  <2> TAKE sha
  <2>1. Active(sha)' = Active(sha)
    BY DEF Active, Works
  <2>2. Owned(sha)' <=> Owned(sha)
    BY DEF Owned
  <2> QED
    BY <2>1, <2>2 DEF Covered
<1>2. \A sha : Excess(sha)' = Excess(sha)
  BY <1>1 DEF Excess
<1>3. CountsFaults
  <2> SUFFICES ASSUME NEW sha \in Commit
               PROVE  Excess(sha)' + faults <= Excess(sha) + faults'
    BY DEF CountsFaults
  <2>1. PICK x \in Int, f \in Nat, g \in Nat :
          x = Excess(sha) /\ f = faults /\ g = faults' /\ f <= g
    BY Counts, CountsAfter DEF Countable, Steady
  <2> QED
    BY <1>2, <2>1
<1>4. KeepsCounts
  <2>1. ASSUME NEW r \in 1..Len(rows)
        PROVE  Times(r)' = Times(r) /\ Recording(r)' = Recording(r)
    BY DEF Times, Recording, Works
  <2>2. ASSUME NEW r \in 1..Len(rows), rows[r].gh # Pending
        PROVE  Holding(r)' \subseteq Holding(r)
    BY <2>2 DEF Holding, Works
  <2> QED
    BY <2>1, <2>2 DEF KeepsCounts
<1>5. KeepsContests
  <2> SUFFICES ASSUME NEW r \in 1..Len(rows), Contested(r)'
               PROVE  Contested(r)
    BY DEF KeepsContests
  <2>1. PICK sha : sha = rows[r].sha
    OBVIOUS
  <2>2. PICK g \in Reviewer : /\ Active(sha)' = {g} /\ worker'[g].row = r
                              /\ worker'[g].pc \in Publishing
    BY <2>1 DEF Contested, Alone, Active
  <2>3. g # w /\ g \in Worker
    BY <2>2 DEF Publishing, Worker
  <2>4. Alone(r)
    BY <1>1, <2>1, <2>2, <2>3 DEF Alone
  <2>5. Covered(sha)' = 1
    BY <2>1 DEF Contested, Covered, Owned
  <2>6. ~Unshared(r)
    BY DEF Contested, KeepsUnshared
  <2> QED
    BY <1>1, <2>1, <2>4, <2>5, <2>6 DEF Contested
<1>6. Bounded'
  BY <1>3, <1>4, <1>5, KeepsBounds
<1>7. RowsSettle /\ \A i \in 1..Len(posted') : posted'[i].row \in 0..Len(rows)
  BY RowFields DEF RowsSettle, Steady, Core, Linked
<1>8. Linked'
  BY <1>7, LinkedKept
<1> QED
  BY <1>6, <1>8 DEF Steady

\* A review message or the button starts a run.
LEMMA StartSteady ==
    ASSUME Steady, Core', NEW w \in Reviewer, Start(w) \/ Trigger(w)
    PROVE  Steady'
<1>1. /\ At(w, "idle") /\ Becomes(w, "claim", pr.head, 0, FALSE, 0, FALSE)
      /\ UNCHANGED <<pr, posted, rows, inflight, queue, verdict, faults>>
  BY StartCases DEF Steady
<1>2. w \in Worker /\ w \notin Publisher
  BY WorkerAssumption DEF Worker
<1>3. ~worker[w].owns
  BY <1>1, <1>2, IdleFields DEF Steady, Core, Shape, WorkerFits
<1>4. faults <= faults'
  BY <1>1, Counts DEF Countable, Steady
<1>5. KeepsUnshared
  BY <1>1, <1>2 DEF KeepsUnshared, Unshared, Becomes, Worker
<1> QED
  BY <1>1, <1>2, <1>3, <1>4, <1>5, IdleSteady DEF At, Works, Becomes

\* A publisher takes a message.
LEMMA DeliverSteady ==
    ASSUME Steady, Core', NEW w \in Publisher, NEW r \in RowId, Deliver(w, r)
    PROVE  Steady'
<1>1. /\ At(w, "idle") /\ queue[r] > 0 /\ r \in 1..Len(rows)
      /\ queue' \in [RowId -> 0..MaxMessages]
      /\ queue'[r] = queue[r] - 1
      /\ \A q \in RowId \ {r} : queue'[q] = queue[q]
      /\ \/ /\ rows[r].gh = Pending
            /\ Becomes(w, "claim", rows[r].sha, r, FALSE, 0, FALSE)
         \/ UNCHANGED worker
      /\ UNCHANGED <<pr, posted, rows, inflight, verdict, faults>>
  BY DeliverCases DEF Steady
<1>2. w \in Worker
  BY DEF Worker
<1>3. ~worker[w].owns
  BY <1>1, <1>2, IdleFields DEF Steady, Core, Shape, WorkerFits
<1>4. faults <= faults'
  BY <1>1, Counts DEF Countable, Steady
<1>5. \A q \in 1..Len(rows) : q \in RowId
  BY RowFields, BoundAssumption DEF Steady, Core, TypeOK, RowId
<1>6. queue[r] # 0
  BY <1>1
<1>7. KeepsUnshared
  BY <1>1, <1>2, <1>5, <1>6 DEF KeepsUnshared, Unshared, Becomes, Worker
<1>8. CASE UNCHANGED worker
  BY <1>1, <1>2, <1>3, <1>4, <1>7, <1>8, IdleSteady DEF At, Works
<1>9. CASE /\ rows[r].gh = Pending
           /\ Becomes(w, "claim", rows[r].sha, r, FALSE, 0, FALSE)
  <2>1. /\ worker'[w].row = r /\ worker'[w].sha = rows[r].sha
        /\ worker'[w].pc = "claim" /\ ~worker'[w].owns
        /\ \A v \in Worker \ {w} : worker'[v] = worker[v]
    BY <1>9 DEF Becomes
  <2> QED
    BY <1>1, <1>2, <1>3, <1>4, <1>7, <1>9, <2>1, IdleSteady DEF At, Works
<1> QED
  BY <1>1, <1>8, <1>9

\* A worker goes past its claim, with it or, at the price of a fault, without.
LEMMA EntersSteady ==
    ASSUME Steady, Core', NEW w \in Worker, At(w, "claim"),
           \A v \in Worker \ {w} : worker'[v] = worker[v],
           worker'[w].pc = AfterClaim(w), worker'[w].sha = worker[w].sha,
           worker'[w].row = worker[w].row,
           UNCHANGED <<posted, rows, queue>>, faults <= faults',
           \/ /\ worker[w].sha \notin inflight /\ worker'[w].owns
              /\ inflight' = inflight \cup {worker[w].sha}
           \/ /\ UNCHANGED inflight /\ faults' = faults + 1 /\ ~worker'[w].owns
    PROVE  Steady'
<1>1. PICK here : here = worker[w].sha
  OBVIOUS
<1>2. /\ w \notin Active(here) /\ w \in Active(here)'
      /\ Cardinality(Active(here)') = Cardinality(Active(here)) + 1
  <2>1. w \notin Active(here) /\ w \in Active(here)'
    BY <1>1 DEF At, Active, AfterClaim
  <2>2. Shifts(Active(here), Active(here)', w)
    BY WorkerCounts
  <2>3. Cardinality(Active(here)) \in Nat /\ Cardinality(Active(here)') \in Nat
    BY Counts, CountsAfter DEF Countable, Steady
  <2> QED
    BY <2>1, <2>2, <2>3 DEF Shifts, One
<1>3. ~worker[w].owns
  BY DEF Steady, Core, Shape, WorkerFits
<1>4. \A sha : sha # here => Active(sha)' = Active(sha) /\ Covered(sha)' = Covered(sha)
  <2> TAKE sha
  <2> SUFFICES ASSUME sha # here
               PROVE  Active(sha)' = Active(sha) /\ Covered(sha)' = Covered(sha)
    OBVIOUS
  <2>1. Active(sha)' = Active(sha)
    BY <1>1 DEF Active
  <2>2. Owned(sha)' <=> Owned(sha)
    BY <1>1 DEF Owned
  <2>3. sha \in inflight' <=> sha \in inflight
    BY <1>1
  <2> QED
    BY <2>1, <2>2, <2>3 DEF Covered
<1>5. \/ Covered(here) = 0 /\ Covered(here)' = 1
      \/ Covered(here)' = Covered(here) /\ faults' = faults + 1
  <2>1. CASE /\ worker[w].sha \notin inflight /\ worker'[w].owns
             /\ inflight' = inflight \cup {worker[w].sha}
    BY <1>1, <2>1 DEF Covered, Owned
  <2>2. CASE UNCHANGED inflight /\ faults' = faults + 1 /\ ~worker'[w].owns
    <3>1. Owned(here)' <=> Owned(here)
      BY <1>3, <2>2 DEF Owned
    <3> QED
      BY <2>2, <3>1 DEF Covered
  <2> QED
    BY <2>1, <2>2
<1>6. CountsFaults
  <2> SUFFICES ASSUME NEW sha \in Commit
               PROVE  Excess(sha)' + faults <= Excess(sha) + faults'
    BY DEF CountsFaults
  <2>1. PICK a \in Nat, b \in Nat, c \in {0, 1}, d \in {0, 1}, f \in Nat, g \in Nat :
          /\ a = Cardinality(Active(sha)) /\ b = Cardinality(Active(sha)')
          /\ c = Covered(sha) /\ d = Covered(sha)' /\ f = faults /\ g = faults'
    BY Counts, CountsAfter DEF Countable, Steady
  <2>2. f <= g
    BY <2>1
  <2>3. CASE sha = here
    <3>1. b = a + 1 /\ ((c = 0 /\ d = 1) \/ (d = c /\ g = f + 1))
      BY <1>2, <1>5, <2>1, <2>3
    <3>2. (b - d) + f <= (a - c) + g
      BY <2>2, <3>1
    <3> QED
      BY <2>1, <3>2 DEF Excess
  <2>4. CASE sha # here
    <3>1. b = a /\ d = c
      BY <1>4, <2>1, <2>4
    <3>2. (b - d) + f <= (a - c) + g
      BY <2>2, <3>1
    <3> QED
      BY <2>1, <3>2 DEF Excess
  <2> QED
    BY <2>3, <2>4
<1>7. KeepsCounts
  <2>1. ASSUME NEW r \in 1..Len(rows)
        PROVE  /\ Times(r)' = Times(r) /\ Recording(r)' = Recording(r)
               /\ Holding(r)' \subseteq Holding(r)
    BY DEF Times, Recording, Holding, At, AfterClaim
  <2> QED
    BY <2>1 DEF KeepsCounts
<1>8. KeepsContests
  <2> SUFFICES ASSUME NEW r \in 1..Len(rows), Contested(r)'
               PROVE  Contested(r)
    BY DEF KeepsContests
  <2>1. PICK sha : sha = rows[r].sha
    OBVIOUS
  <2>2. PICK g \in Reviewer : /\ Active(sha)' = {g} /\ worker'[g].row = r
                              /\ worker'[g].pc \in Publishing
    BY <2>1 DEF Contested, Alone, Active
  <2>3. g # w
    <3>1. w \in Reviewer => worker'[w].pc \notin Publishing
      BY WorkerAssumption DEF AfterClaim, Publishing, Reviewer
    <3> QED
      BY <2>2, <3>1
  <2>4. sha # here
    BY <1>2, <2>2, <2>3
  <2>5. Alone(r)
    BY <1>4, <2>1, <2>2, <2>3, <2>4 DEF Alone, Worker
  <2>6. Covered(sha)' = 1
    BY <2>1 DEF Contested, Covered, Owned
  <2>7. ~Unshared(r)
    BY DEF Contested, Unshared, Worker
  <2> QED
    BY <1>4, <2>1, <2>4, <2>5, <2>6, <2>7 DEF Contested
<1>9. Bounded'
  BY <1>6, <1>7, <1>8, KeepsBounds
<1>10. RowsSettle /\ \A i \in 1..Len(posted') : posted'[i].row \in 0..Len(rows)
  BY RowFields DEF RowsSettle, Steady, Core, Linked
<1>11. Linked'
  BY <1>10, LinkedKept
<1> QED
  BY <1>9, <1>11 DEF Steady

\* The claim is taken, refused, or not answered.
LEMMA ClaimSteady ==
    ASSUME Steady, Core', NEW w \in Worker, Claim(w)
    PROVE  Steady'
<1>1. /\ At(w, "claim") /\ faults' \in faults..MaxFaults
      /\ UNCHANGED <<pr, posted, rows, queue, verdict>>
      /\ \/ /\ worker[w].sha \notin inflight
            /\ inflight' = inflight \cup {worker[w].sha}
            /\ Becomes(w, AfterClaim(w), worker[w].sha, worker[w].row, TRUE,
                       worker[w].gh, worker[w].enqueue)
         \/ UNCHANGED inflight /\ Stops(w)
         \/ /\ w \notin Publisher /\ UNCHANGED inflight
            /\ Moves(w, AfterClaim(w)) /\ faults' = faults + 1
  BY ClaimCases DEF Steady
<1>2. faults <= faults' /\ ~worker[w].owns
  BY <1>1, Counts, BoundAssumption DEF Countable, Steady, Core, Shape, WorkerFits
<1>3. CASE /\ worker[w].sha \notin inflight
           /\ inflight' = inflight \cup {worker[w].sha}
           /\ Becomes(w, AfterClaim(w), worker[w].sha, worker[w].row, TRUE,
                      worker[w].gh, worker[w].enqueue)
  BY <1>1, <1>2, <1>3, EntersSteady DEF Becomes
<1>4. CASE UNCHANGED inflight /\ Moves(w, AfterClaim(w)) /\ faults' = faults + 1
  BY <1>1, <1>2, <1>4, EntersSteady DEF Moves, Becomes
<1>5. CASE UNCHANGED inflight /\ Stops(w)
  <2>1. /\ worker'[w].pc = "idle" /\ worker'[w].row = 0 /\ ~worker'[w].owns
        /\ \A v \in Worker \ {w} : worker'[v] = worker[v]
    BY <1>5 DEF Stops, Becomes
  <2>2. KeepsUnshared
    BY <1>1, <2>1 DEF KeepsUnshared, Unshared, Worker
  <2> QED
    BY <1>1, <1>2, <1>5, <2>1, <2>2, IdleSteady DEF At, Works
<1> QED
  BY <1>1, <1>3, <1>4, <1>5

\* A run ends, gives its claim back or leaves it, and enqueues its row.
LEMMA ReleaseSteady ==
    ASSUME Steady, Core', NEW w \in Worker, Release(w)
    PROVE  Steady'
<1>1. /\ At(w, "release") /\ faults' \in faults..MaxFaults
      /\ UNCHANGED <<pr, posted, rows, verdict>> /\ Stops(w)
      /\ \/ worker[w].owns /\ inflight' = inflight \ {worker[w].sha}
         \/ UNCHANGED inflight
      /\ \/ UNCHANGED queue
         \/ /\ worker[w].enqueue /\ worker[w].row \in 1..Len(rows)
            /\ \A r \in RowId : r # worker[w].row => queue'[r] = queue[r]
  BY ReleaseCases DEF Steady
<1>2. /\ faults <= faults'
      /\ worker'[w].pc = "idle" /\ worker'[w].row = 0 /\ ~worker'[w].owns
      /\ \A v \in Worker \ {w} : worker'[v] = worker[v]
  BY <1>1, Counts, BoundAssumption DEF Countable, Steady, Core, Stops, Becomes
<1>3. PICK here : here = worker[w].sha
  OBVIOUS
<1>4. /\ w \in Active(here) /\ w \notin Active(here)'
      /\ Cardinality(Active(here)) = Cardinality(Active(here)') + 1
  <2>1. w \in Active(here) /\ w \notin Active(here)'
    BY <1>1, <1>2, <1>3 DEF At, Active
  <2>2. Shifts(Active(here), Active(here)', w)
    BY <1>2, WorkerCounts
  <2>3. Cardinality(Active(here)) \in Nat /\ Cardinality(Active(here)') \in Nat
    BY Counts, CountsAfter DEF Countable, Steady
  <2> QED
    BY <2>1, <2>2, <2>3 DEF Shifts, One
<1>5. \A sha : sha # here => Active(sha)' = Active(sha) /\ Covered(sha)' = Covered(sha)
  <2> TAKE sha
  <2> SUFFICES ASSUME sha # here
               PROVE  Active(sha)' = Active(sha) /\ Covered(sha)' = Covered(sha)
    OBVIOUS
  <2>1. Active(sha)' = Active(sha)
    BY <1>1, <1>2, <1>3 DEF Active
  <2>2. Owned(sha)' <=> Owned(sha)
    BY <1>2, <1>3 DEF Owned
  <2>3. sha \in inflight' <=> sha \in inflight
    BY <1>1, <1>3
  <2> QED
    BY <2>1, <2>2, <2>3 DEF Covered
<1>6. CountsFaults
  <2> SUFFICES ASSUME NEW sha \in Commit
               PROVE  Excess(sha)' + faults <= Excess(sha) + faults'
    BY <1>2 DEF CountsFaults
  <2>1. PICK a \in Nat, b \in Nat, c \in {0, 1}, d \in {0, 1}, f \in Nat, g \in Nat :
          /\ a = Cardinality(Active(sha)) /\ b = Cardinality(Active(sha)')
          /\ c = Covered(sha) /\ d = Covered(sha)' /\ f = faults /\ g = faults'
    BY Counts, CountsAfter DEF Countable, Steady
  <2>2. f <= g
    BY <1>2, <2>1
  <2>3. CASE sha = here
    <3>1. a = b + 1
      BY <1>4, <2>1, <2>3
    <3>2. (b - d) + f <= (a - c) + g
      BY <2>2, <3>1
    <3> QED
      BY <2>1, <3>2 DEF Excess
  <2>4. CASE sha # here
    <3>1. b = a /\ d = c
      BY <1>5, <2>1, <2>4
    <3>2. (b - d) + f <= (a - c) + g
      BY <2>2, <3>1
    <3> QED
      BY <2>1, <3>2 DEF Excess
  <2> QED
    BY <2>3, <2>4
<1>7. KeepsCounts
  <2>1. ASSUME NEW r \in 1..Len(rows)
        PROVE  /\ Times(r)' = Times(r) /\ Recording(r)' = Recording(r)
               /\ Holding(r)' \subseteq Holding(r)
    BY <1>1, <1>2 DEF Times, Recording, Holding, At
  <2> QED
    BY <1>1, <2>1 DEF KeepsCounts
<1>8. KeepsContests
  <2> SUFFICES ASSUME NEW r \in 1..Len(rows), Contested(r)'
               PROVE  Contested(r) \/ 1 <= Excess(rows[r].sha)
    BY DEF KeepsContests
  <2>1. PICK sha : sha = rows[r].sha
    OBVIOUS
  <2>2. PICK g \in Reviewer : /\ Active(sha)' = {g} /\ worker'[g].row = r
                              /\ worker'[g].pc \in Publishing
    BY <1>1, <2>1 DEF Contested, Alone, Active
  <2>3. g # w /\ g \in Worker
    BY <1>2, <2>2 DEF Publishing, Worker
  <2>4. CASE sha = here
    <3>1. PICK a \in Nat, c \in {0, 1} :
            /\ a = Cardinality(Active(sha)) /\ c = Covered(sha)
            /\ a = Cardinality(Active(sha)') + 1
      BY <1>4, <2>4, Counts DEF Countable, Steady
    <3>2. Cardinality(Active(sha)') = 1
      BY <2>2, FS_Singleton
    <3>3. 1 <= a - c
      BY <3>1, <3>2
    <3> QED
      BY <2>1, <3>1, <3>3 DEF Excess
  <2>5. CASE sha # here
    <3>1. Alone(r)
      BY <1>2, <1>5, <2>1, <2>2, <2>3, <2>5 DEF Alone
    <3>2. Covered(sha)' = 1
      BY <1>1, <2>1 DEF Contested, Covered, Owned
    <3>3. ASSUME Unshared(r)
          PROVE  Unshared(r)'
      <4>1. r \in RowId
        BY RowFields, BoundAssumption DEF Steady, Core, TypeOK, RowId
      <4>2. ASSUME worker[w].enqueue
            PROVE  worker[w].row # r
        <5>1. w \in Reviewer
          BY <4>2 DEF Steady, Core, Shape, WorkerFits, Reviewer
        <5>2. worker[g].row = r /\ r # 0
          BY <1>2, <2>2, <2>3
        <5> QED
          BY <2>3, <5>1, <5>2 DEF Steady, Linked
      <4>3. queue'[r] = queue[r]
        BY <1>1, <4>1, <4>2
      <4>4. \A v \in Publisher : worker'[v].row # r
        BY <1>2, <3>3 DEF Unshared, Worker
      <4> QED
        BY <3>3, <4>3, <4>4 DEF Unshared
    <3>4. ~Unshared(r)
      BY <3>3 DEF Contested
    <3> QED
      BY <1>5, <2>1, <2>5, <3>1, <3>2, <3>4 DEF Contested
  <2> QED
    BY <2>4, <2>5
<1>9. Bounded'
  BY <1>6, <1>7, <1>8, KeepsBounds
<1>10. RowsSettle /\ \A i \in 1..Len(posted') : posted'[i].row \in 0..Len(rows)
  BY <1>1, RowFields DEF RowsSettle, Steady, Core, Linked
<1>11. Linked'
  BY <1>2, <1>10, LinkedKept
<1> QED
  BY <1>9, <1>11 DEF Steady

\* The sweep takes a claim, a live one at the price of a fault.
LEMMA SweepSteady ==
    ASSUME Steady, Core', NEW here \in Commit, Sweep(here)
    PROVE  Steady'
<1>1. /\ UNCHANGED <<pr, posted, rows, queue, worker, verdict>>
      /\ inflight' = inflight \ {here}
      /\ IF Owned(here) THEN faults' = faults + 1 ELSE faults' = faults
  BY DEF Sweep, Fails, Succeeds
<1>2. \A sha : Active(sha)' = Active(sha) /\ (Owned(sha)' <=> Owned(sha))
  BY <1>1 DEF Active, Owned
<1>3. \A sha : sha # here => Covered(sha)' = Covered(sha)
  BY <1>1, <1>2 DEF Covered
<1>4. Covered(here)' = 0 /\ (~Owned(here) => Covered(here) = 0)
  BY <1>1 DEF Covered
<1>5. CountsFaults
  <2>1. faults <= faults'
    BY <1>1, Counts DEF Countable, Steady
  <2> SUFFICES ASSUME NEW sha \in Commit
               PROVE  Excess(sha)' + faults <= Excess(sha) + faults'
    BY <2>1 DEF CountsFaults
  <2>2. PICK a \in Nat, c \in {0, 1}, d \in {0, 1}, f \in Nat, g \in Nat :
          /\ a = Cardinality(Active(sha)) /\ f = faults /\ g = faults'
          /\ c = Covered(sha) /\ d = Covered(sha)'
    BY Counts, CountsAfter DEF Countable, Steady
  <2>3. f <= g
    BY <2>1, <2>2
  <2>4. d = c \/ (d = 0 /\ (c = 0 \/ g = f + 1))
    BY <1>1, <1>3, <1>4, <2>2
  <2>5. (a - d) + f <= (a - c) + g
    BY <2>3, <2>4
  <2> QED
    BY <1>2, <2>2, <2>5 DEF Excess
<1>6. KeepsCounts
  BY <1>1 DEF KeepsCounts, Times, Recording, Holding
<1>7. KeepsContests
  <2> SUFFICES ASSUME NEW r \in 1..Len(rows), Contested(r)'
               PROVE  Contested(r)
    BY DEF KeepsContests
  <2>1. PICK sha : sha = rows[r].sha
    OBVIOUS
  <2>2. Alone(r)
    BY <1>1, <1>2 DEF Contested, Alone
  <2>3. Covered(sha)' = 1
    BY <1>1, <2>1 DEF Contested, Covered, Owned
  <2>4. Covered(sha) = 1
    BY <1>3, <1>4, <2>3
  <2>5. ~Unshared(r)
    BY <1>1 DEF Contested, Unshared
  <2> QED
    BY <2>1, <2>2, <2>4, <2>5 DEF Contested
<1>8. Bounded'
  BY <1>5, <1>6, <1>7, KeepsBounds
<1>9. Linked'
  BY <1>1 DEF Steady, Linked
<1> QED
  BY <1>8, <1>9 DEF Steady

\* The poll enqueues only rows whose commit nobody has claimed.
LEMMA MessageSteady ==
    ASSUME Steady, Core', NEW r \in RowId, Poll(r) \/ LoseMessage(r)
    PROVE  Steady'
<1>1. UNCHANGED <<pr, posted, rows, inflight, worker, verdict>>
  BY DEF Poll, LoseMessage
<1>2. faults <= faults'
  BY Counts DEF Poll, LoseMessage, Fails, Countable, Steady
<1>3. ASSUME NEW q \in 1..Len(rows), Contested(q)'
      PROVE  Contested(q)
  <2>1. PICK sha : sha = rows[q].sha
    OBVIOUS
  <2>2. Alone(q)' /\ Covered(sha)' = 1 /\ ~Unshared(q)'
    BY <1>1, <1>3, <2>1 DEF Contested, Covered, Owned
  <2>3. Alone(q) /\ Covered(sha) = 1
    BY <1>1, <2>2 DEF Alone, Active, Covered, Owned
  <2>4. sha \in inflight
    BY <2>3 DEF Covered
  <2>5. q \in RowId /\ queue[q] \in Nat
    <3>1. q \in RowId /\ queue \in [RowId -> 0..MaxMessages]
      BY RowFields, BoundAssumption DEF Steady, Core, TypeOK, RowId
    <3> QED
      BY <3>1
  <2>6. ASSUME Unshared(q)
        PROVE  FALSE
    <3>1. queue'[q] # 0
      BY <1>1, <2>2, <2>6 DEF Unshared
    <3>2. CASE Poll(r)
      <4>1. queue' = [queue EXCEPT ![r] = @ + 1] /\ rows[r].sha \notin inflight
        BY <3>2 DEF Poll
      <4>2. q # r
        BY <2>1, <2>4, <4>1
      <4> QED
        BY <2>6, <3>1, <4>1, <4>2 DEF Unshared
    <3>3. CASE LoseMessage(r)
      <4>1. queue' = [queue EXCEPT ![r] = @ - 1] /\ queue[r] > 0
        BY <3>3 DEF LoseMessage
      <4> QED
        BY <2>6, <3>1, <4>1 DEF Unshared
    <3> QED
      BY <3>2, <3>3
  <2> QED
    BY <2>1, <2>3, <2>6 DEF Contested
<1>4. /\ \A q \in 1..Len(rows) : Times(q)' = Times(q)
      /\ \A i \in 1..Len(posted') : posted'[i].row \in 0..Len(rows)
  BY <1>1 DEF Times, Steady, Linked
<1> QED
  BY <1>1, <1>2, <1>3, <1>4, QuietSteady

\* What happens on GitHub submits no stored review.
LEMMA GitHubSteady ==
    ASSUME Steady, Core', Environment
    PROVE  Steady'
<1>1. /\ UNCHANGED <<rows, inflight, queue, worker, verdict>>
  BY DEF Environment, Push, UpdateBranch, CloseOrReopen, Request, PeerPost, Dismiss,
     GitHubOnly
<1>2. faults <= faults'
  BY Counts DEF Environment, Push, UpdateBranch, CloseOrReopen, Request, PeerPost,
     Dismiss, Succeeds, Fails, Countable, Steady
<1>3. \A r \in 1..Len(rows) : Contested(r)' => Contested(r)
  BY <1>1 DEF Contested, Alone, Active, Covered, Owned, Unshared
<1>4. Core /\ \A i \in 1..Len(posted) : posted[i].row \in 0..Len(rows)
  BY DEF Steady, Linked
<1>5. /\ \A r \in 1..Len(rows) : Times(r)' = Times(r)
      /\ \A i \in 1..Len(posted') : posted'[i].row \in 0..Len(rows)
  <2>1. CASE Push \/ CloseOrReopen \/ Request
    <3>1. UNCHANGED posted
      BY <2>1 DEF Push, CloseOrReopen, Request
    <3> QED
      BY <1>4, <3>1 DEF Times
  <2>2. CASE UpdateBranch
    <3>1. /\ Len(posted') = Len(posted)
          /\ \A i \in 1..Len(posted) : posted'[i].row = posted[i].row
      BY <1>4, <2>2, UpdateBranchPosts
    <3> QED
      BY <1>4, <3>1, SamePosts
  <2>3. ASSUME NEW i \in DOMAIN posted, Dismiss(i)
        PROVE  /\ Len(posted') = Len(posted)
               /\ \A k \in 1..Len(posted) : posted'[k].row = posted[k].row
    BY <1>4, <2>3, DismissPosts
  <2>4. CASE \E i \in DOMAIN posted : Dismiss(i)
    <3>1. /\ Len(posted') = Len(posted)
          /\ \A k \in 1..Len(posted) : posted'[k].row = posted[k].row
      BY <2>3, <2>4
    <3> QED
      BY <1>4, <3>1, SamePosts
  <2>5. CASE PeerPost
    <3>1. Posted(pr.head, 0)
      BY <1>4, <2>5, PeerPostCore
    <3>2. ASSUME NEW r \in 1..Len(rows)
          PROVE  Times(r)' = Times(r)
      <4>1. Times(r)' = Times(r) + One(r = 0) /\ r # 0 /\ Times(r) \in Nat
        BY <1>4, <3>1, NewPost, Counts DEF Countable
      <4> QED
        BY <4>1 DEF One
    <3>3. \A i \in 1..Len(posted') : posted'[i].row \in 0..Len(rows)
      <4>1. /\ Len(posted') = Len(posted) + 1 /\ Len(posted) \in Nat /\ Len(rows) \in Nat
            /\ posted'[Len(posted) + 1].row = 0
            /\ \A i \in 1..Len(posted) : posted'[i] = posted[i]
        BY <1>4, <3>1, RowFields DEF Posted, Core
      <4>2. \A i \in 1..(Len(posted) + 1) : i \in 1..Len(posted) \/ i = Len(posted) + 1
        BY <4>1
      <4> QED
        BY <1>4, <4>1, <4>2
    <3> QED
      BY <3>2, <3>3
  <2> QED
    BY <2>1, <2>2, <2>4, <2>5 DEF Environment
<1> QED
  BY <1>1, <1>2, <1>3, <1>5, QuietSteady

\* At a crash at most the run with the claim goes unpaid, and the crash is a
\* fault itself.
LEMMA CrashSteady ==
    ASSUME Steady, Core', Crash
    PROVE  Steady'
<1>1. /\ UNCHANGED <<pr, posted, rows>> /\ inflight' = {}
      /\ faults' = faults + 1
      /\ \A w \in Worker : /\ worker'[w].pc = "idle" /\ worker'[w].row = 0
                           /\ worker'[w].owns = FALSE
  BY IdleFields DEF Crash, Fails
<1>2. /\ \A sha : Active(sha)' = {} /\ Covered(sha)' = 0
      /\ \A r : Recording(r)' = {} /\ Holding(r)' = {}
  BY <1>1 DEF Active, Covered, Recording, Holding
<1>3. Cardinality({}) = 0
  BY FS_EmptySet
<1>4. \A sha : Excess(sha)' = 0
  BY <1>2, <1>3 DEF Excess
<1>5. PICK f \in Nat, p \in Nat : f = faults /\ p = Cardinality(Publisher)
  BY Counts DEF Countable, Steady
<1>6. \A sha \in Commit : Excess(sha)' <= faults'
  BY <1>1, <1>4, <1>5
<1>7. ASSUME NEW r \in 1..Len(rows), rows[r].gh = Pending
      PROVE  PendingBound(r)'
  <2>1. PICK sha : sha = rows[r].sha
    OBVIOUS
  <2>2. PICK t \in Nat, m \in Nat, a \in Nat, k \in {0, 1} :
          /\ t = Times(r) /\ m = Cardinality(Recording(r))
          /\ a = Cardinality(Active(sha)) /\ k = Covered(sha)
    BY Counts DEF Countable, Steady
  <2>3. m <= a
    <3>1. Recording(r) \in SUBSET Active(sha) /\ IsFiniteSet(Active(sha))
      BY <1>7, <2>1, Holders, Counts DEF Countable, Steady
    <3> QED
      BY <2>2, <3>1, FewerElements
  <2>4. t + (a - k) <= f + m
    BY <1>5, <1>7, <2>1, <2>2 DEF Steady, Bounded, RowBound, PendingBound, Excess
  <2>5. t <= f + 1
    BY <2>3, <2>4
  <2>6. Times(r)' = t
    BY <1>1, <2>2 DEF Times
  <2>7. Cardinality(Recording(r)') = 0 /\ rows'[r].sha = sha
    BY <1>1, <1>2, <1>3, <2>1
  <2>8. Excess(rows[r].sha)' = 0
    BY <1>4, <2>7 DEF Excess, Active, Covered, Owned
  <2>9. t + 0 <= (f + 1) + 0
    BY <2>5
  <2>10. ~Contested(r)'
    BY <1>2, <2>1 DEF Contested, Alone, Active
  <2> QED
    BY <1>1, <1>5, <2>6, <2>7, <2>8, <2>9, <2>10 DEF PendingBound
<1>8. ASSUME NEW r \in 1..Len(rows), rows[r].gh # Pending
      PROVE  ResolvedBound(r)'
  <2>1. PICK t \in Nat, h \in Nat : t = Times(r) /\ h = Cardinality(Holding(r))
    BY Counts DEF Countable, Steady
  <2>2. t + h <= f + p
    BY <1>5, <1>8, <2>1 DEF Steady, Bounded, RowBound, ResolvedBound
  <2>3. t + 0 <= (f + 1) + p
    BY <2>2
  <2>4. Times(r)' = t /\ Cardinality(Holding(r)') = 0
    BY <1>1, <1>2, <1>3, <2>1 DEF Times
  <2> QED
    BY <1>1, <1>5, <2>3, <2>4 DEF ResolvedBound
<1>9. Bounded'
  BY <1>1, <1>6, <1>7, <1>8 DEF Bounded, RowBound
<1>10. Linked'
  BY <1>1 DEF Steady, Linked, Worker
<1> QED
  BY <1>9, <1>10 DEF Steady

---------------------------------------------------------------------------
\* Steps of a run on its commit.

\* A row the run has nothing to do with.
LEMMA OutsideRow ==
    ASSUME Steady, Core', NEW w \in Worker, Unmoved(w), NEW r \in 1..Len(rows),
           worker[w].row # r, worker'[w].row # r, Times(r)' = Times(r),
           rows'[r].gh = Pending <=> rows[r].gh = Pending,
           rows[r].gh = Pending => rows'[r].sha = rows[r].sha
    PROVE  RowBound(r)'
<1>1. RowBound(r) /\ Core
  BY DEF Steady, Bounded
<1>2. /\ One(w \in Recording(r)) = 0 /\ One(w \in Recording(r)') = 0
      /\ One(w \in Holding(r)) = 0 /\ One(w \in Holding(r)') = 0
  BY DEF One, Recording, Holding
<1>3. PICK f \in Nat, g \in Nat, t \in Nat :
        f = faults /\ g = faults' /\ t = Times(r) /\ f <= g
  BY Counts, CountsAfter DEF Countable, Steady, Unmoved
<1>4. t + 0 + f <= t + 0 + g
  BY <1>3
<1>5. /\ Times(r)' + One(w \in Recording(r)) + faults
            <= Times(r) + One(w \in Recording(r)') + faults'
      /\ Times(r)' + One(w \in Holding(r)') + faults
            <= Times(r) + One(w \in Holding(r)) + faults'
  BY <1>2, <1>3, <1>4
<1>6. Untouched(r, w)
  BY DEF Untouched
<1> QED
  BY <1>1, <1>5, <1>6, StayRow

\* The runs on every commit still cost as many faults.
LEMMA UnmovedSteady ==
    ASSUME Steady, Core', NEW w \in Worker, Unmoved(w), Linked',
           \A r \in 1..Len(rows') : RowBound(r)'
    PROVE  Steady'
<1>1. ASSUME NEW sha \in Commit
      PROVE  Excess(sha)' <= faults'
  <2>1. PICK x \in Int, f \in Nat, g \in Nat :
          x = Excess(sha) /\ f = faults /\ g = faults' /\ f <= g
    BY Counts, CountsAfter DEF Countable, Steady, Unmoved
  <2>2. Excess(sha)' = x /\ x <= f
    BY <1>1, <2>1, UnmovedCounts DEF Steady, Bounded
  <2>3. x <= g
    BY <2>1, <2>2
  <2> QED
    BY <2>1, <2>2, <2>3
<1> QED
  BY <1>1 DEF Steady, Bounded

\* What a step of a run that publishes its row has to show.
PublishPays(w, r) ==
    /\ rows'[r].gh = Pending =>
          Times(r)' + One(w \in Recording(r)) + faults
              <= Times(r) + One(w \in Recording(r)') + faults'
    /\ Times(r)' + One(w \in Holding(r)') + faults
          <= Times(r) + One(w \in Holding(r)) + faults'

PublishWrites(w, r) ==
    \/ UNCHANGED rows
    \/ /\ \E gh \in Int \ {Pending} : Resolves(r, gh)
       /\ worker'[w].pc = "release" /\ Times(r)' = Times(r)

\* It submits the row, records it or gives up.
LEMMA PublishSteady ==
    ASSUME Steady, Core', NEW w \in Worker, worker[w].pc \in Publishing,
           Unmoved(w), worker'[w].row = worker[w].row,
           NEW r \in 1..Len(rows), worker[w].row = r,
           PublishPays(w, r), PublishWrites(w, r),
           \A q \in 1..Len(rows) : q # r => Times(q)' = Times(q),
           \A i \in 1..Len(posted') : posted'[i].row \in 0..Len(rows)
    PROVE  Steady'
<1>1. /\ Len(rows') = Len(rows)
      /\ \A q \in 1..Len(rows) : q # r => rows'[q] = rows[q]
      /\ rows'[r].gh = Pending => UNCHANGED rows
  BY DEF PublishWrites, Resolves, RowBecomes
<1>2. ASSUME NEW q \in 1..Len(rows), q # r
      PROVE  RowBound(q)'
  <2>1. rows'[q] = rows[q] /\ Times(q)' = Times(q)
    BY <1>1, <1>2
  <2> QED
    BY <1>2, <2>1, OutsideRow
<1>3. RowBound(r) /\ Core
  BY DEF Steady, Bounded
<1>4. RowBound(r)'
  <2>1. CASE UNCHANGED rows
    <3>1. Untouched(r, w)
      BY <2>1 DEF Untouched
    <3> QED
      BY <1>3, <2>1, <3>1, StayRow DEF PublishPays
  <2>2. CASE rows'[r].gh # Pending /\ rows[r].gh # Pending
    <3>1. Untouched(r, w)
      BY <2>2 DEF Untouched
    <3> QED
      BY <1>3, <2>2, <3>1, StayRow DEF PublishPays
  <2>3. CASE rows'[r].gh # Pending /\ rows[r].gh = Pending
    <3>1. worker'[w].pc = "release" /\ Times(r)' = Times(r)
      BY <2>3 DEF PublishWrites
    <3>2. ResolvedBound(r)'
      BY <2>3, <3>1, ResolvedRow
    <3> QED
      BY <2>3, <3>2 DEF RowBound
  <2> QED
    BY <1>1, <2>1, <2>2, <2>3
<1>5. RowsSettle
  <2>1. Len(rows) \in Nat
    BY RowFields DEF Steady, Core
  <2> QED
    BY <1>1, <2>1 DEF RowsSettle
<1>6. Linked'
  BY <1>5, LinkedKept DEF Unmoved
<1>7. \A q \in 1..Len(rows') : RowBound(q)'
  BY <1>1, <1>2, <1>4
<1> QED
  BY <1>6, <1>7, UnmovedSteady

\* The counts of a run's own row are its state.
LEMMA OwnPlace ==
    ASSUME NEW w \in Worker, NEW r, worker[w].row = r, worker'[w].row = r
    PROVE  /\ One(w \in Recording(r)) = One(worker[w].pc = "mark")
           /\ One(w \in Recording(r)') = One(worker'[w].pc = "mark")
           /\ One(w \in Holding(r))
                = One(worker[w].pc \in {"claim", "recheck", "guard", "submit"})
           /\ One(w \in Holding(r)')
                = One(worker'[w].pc \in {"claim", "recheck", "guard", "submit"})
BY DEF One, Recording, Holding

\* What a run that publishes has in hand.
LEMMA PublisherAt ==
    ASSUME Steady, NEW w \in Worker, worker[w].pc \in Publishing
    PROVE  Works(w) /\ worker[w].row \in 1..Len(rows)
BY Busy DEF Steady, Publishing, Works

\* A submission is recorded, or costs a fault; nothing else submits.
LEMMA PaysForSteps ==
    ASSUME Steady, Core', faults <= faults', NEW w \in Worker, NEW r,
           worker[w].row = r, worker'[w].row = r,
           \/ /\ worker[w].pc \in {"recheck", "guard", "submit"}
              /\ worker'[w].pc \in {"guard", "submit", "release"}
              /\ Times(r)' = Times(r)
           \/ /\ worker[w].pc = "submit" /\ worker'[w].pc = "mark"
              /\ Times(r)' = Times(r) + 1
           \/ /\ worker[w].pc = "submit" /\ worker'[w].pc = "release"
              /\ Times(r)' = Times(r) + 1 /\ faults' = faults + 1
           \/ /\ worker[w].pc = "mark" /\ worker'[w].pc = "release"
              /\ Times(r)' = Times(r)
              /\ faults' = faults + 1 \/ rows'[r].gh # Pending
    PROVE  PublishPays(w, r)
<1>1. PICK f \in Nat, g \in Nat, t \in Nat, u \in Nat :
        f = faults /\ g = faults' /\ t = Times(r) /\ u = Times(r)' /\ f <= g
  BY Counts, CountsAfter DEF Countable, Steady
<1>2. PICK m \in {0, 1}, n \in {0, 1}, h \in {0, 1}, k \in {0, 1} :
        /\ m = One(worker[w].pc = "mark") /\ n = One(worker'[w].pc = "mark")
        /\ h = One(worker[w].pc \in {"claim", "recheck", "guard", "submit"})
        /\ k = One(worker'[w].pc \in {"claim", "recheck", "guard", "submit"})
  BY DEF One
<1>3. \/ u = t /\ m = 0 /\ n = 0 /\ h = 1
      \/ u = t + 1 /\ m = 0 /\ n = 1 /\ h = 1 /\ k = 0
      \/ u = t + 1 /\ m = 0 /\ n = 0 /\ h = 1 /\ k = 0 /\ g = f + 1
      \/ u = t /\ m = 1 /\ n = 0 /\ h = 0 /\ k = 0 /\ (g = f + 1 \/ rows'[r].gh # Pending)
  BY <1>1, <1>2 DEF One
<1>4. f <= g
  BY <1>1
<1>5. rows'[r].gh = Pending => u + m + f <= t + n + g
  <2>1. SUFFICES ASSUME rows'[r].gh = Pending
                 PROVE  u + m + f <= t + n + g
    OBVIOUS
  <2>2. \/ u = t /\ m = 0 /\ n = 0
        \/ u = t + 1 /\ m = 0 /\ n = 1
        \/ u = t + 1 /\ m = 0 /\ n = 0 /\ g = f + 1
        \/ u = t /\ m = 1 /\ n = 0 /\ g = f + 1
    BY <1>3, <2>1
  <2> QED
    BY <1>4, <2>2
<1>6. u + k + f <= t + h + g
  BY <1>3, <1>4
<1> QED
  BY <1>1, <1>2, <1>5, <1>6, OwnPlace DEF PublishPays

\* Nothing is submitted,
LEMMA NoPost ==
    ASSUME Steady, UNCHANGED posted
    PROVE  /\ \A q : Times(q)' = Times(q)
           /\ \A i \in 1..Len(posted') : posted'[i].row \in 0..Len(rows)
BY DEF Times, Steady, Linked

\* or a stored review once more.
LEMMA OnePost ==
    ASSUME Steady, Core', NEW sha, NEW r \in 1..Len(rows), Posted(sha, r)
    PROVE  /\ Times(r)' = Times(r) + 1
           /\ \A q : q # r => Times(q)' = Times(q)
           /\ \A i \in 1..Len(posted') : posted'[i].row \in 0..Len(rows)
<1>1. \A q : Times(q)' = Times(q) + One(q = r)
  BY NewPost DEF Steady
<1>2. \A q : Times(q) \in Nat
  BY Counts DEF Countable, Steady
<1>3. \A q : q # r => Times(q)' = Times(q)
  BY <1>1, <1>2 DEF One
<1>4. /\ Len(posted') = Len(posted) + 1 /\ Len(posted) \in Nat
      /\ posted'[Len(posted) + 1].row = r
      /\ \A i \in 1..Len(posted) : posted'[i] = posted[i]
  BY RowFields DEF Posted, Steady, Core
<1>5. \A i \in 1..(Len(posted) + 1) : i \in 1..Len(posted) \/ i = Len(posted) + 1
  BY <1>4
<1>6. \A i \in 1..Len(posted') : posted'[i].row \in 0..Len(rows)
  BY <1>4, <1>5, RowFields DEF Steady, Linked, Core
<1> QED
  BY <1>1, <1>3, <1>6 DEF One

\* A row found stale or published is resolved.
LEMMA LookSteady ==
    ASSUME Steady, Core', NEW w \in Worker, Recheck(w) \/ Guard(w)
    PROVE  Steady'
<1>1. /\ worker[w].pc \in {"recheck", "guard"} /\ faults' \in faults..MaxFaults
      /\ UNCHANGED <<pr, posted, inflight, queue, verdict>>
      /\ \E pc \in {"submit", "guard", "release"} :
            /\ Moves(w, pc)
            /\ \/ UNCHANGED rows
               \/ /\ pc = "release"
                  /\ \E gh \in Int \ {Pending} : Resolves(worker[w].row, gh)
  <2>1. CASE Recheck(w)
    BY <2>1, RecheckCases, Resolutions DEF Steady, At, AfterRecheck
  <2>2. CASE Guard(w)
    <3>1. /\ At(w, "guard") /\ faults' \in faults..MaxFaults
          /\ UNCHANGED <<pr, posted, inflight, queue, verdict>>
          /\ \/ Moves(w, "submit") /\ UNCHANGED rows
             \/ Moves(w, "release") /\ UNCHANGED rows
             \/ /\ Moves(w, "release")
                /\ \E i \in PeersOn(worker[w].sha) : Resolves(worker[w].row, i)
      BY <2>2, GuardCases DEF Steady
    <3>2. PeersOn(worker[w].sha) \subseteq Int \ {Pending}
      BY RowFields DEF PeersOn, Pending, Steady, Core
    <3> QED
      BY <3>1, <3>2 DEF At
  <2> QED
    BY <2>1, <2>2
<1>2. PICK r \in 1..Len(rows) : worker[w].row = r
  BY <1>1, PublisherAt DEF Publishing
<1>3. PICK pc \in {"submit", "guard", "release"} :
        /\ Moves(w, pc)
        /\ \/ UNCHANGED rows
           \/ pc = "release" /\ \E gh \in Int \ {Pending} : Resolves(worker[w].row, gh)
  BY <1>1
<1>4. /\ worker'[w].pc = pc /\ worker'[w].row = r
      /\ worker'[w].sha = worker[w].sha /\ worker'[w].owns = worker[w].owns
      /\ \A v \in Worker \ {w} : worker'[v] = worker[v]
  BY <1>2, <1>3 DEF Moves, Becomes
<1>5. faults <= faults'
  BY <1>1, Counts, BoundAssumption DEF Countable, Steady, Core
<1>6. Unmoved(w)
  BY <1>1, <1>4, <1>5 DEF Unmoved, Works
<1>7. /\ \A q : Times(q)' = Times(q)
      /\ \A i \in 1..Len(posted') : posted'[i].row \in 0..Len(rows)
  BY <1>1, NoPost
<1>8. PublishPays(w, r)
  BY <1>1, <1>2, <1>4, <1>5, <1>7, PaysForSteps
<1>9. PublishWrites(w, r)
  BY <1>2, <1>3, <1>4, <1>7 DEF PublishWrites
<1>10. worker[w].pc \in Publishing
  BY <1>1 DEF Publishing
<1> QED
  BY <1>2, <1>4, <1>6, <1>7, <1>8, <1>9, <1>10, PublishSteady

\* The row is submitted, whatever becomes of the answer, or refused.
LEMMA SubmitSteady ==
    ASSUME Steady, Core', NEW w \in Worker, Submit(w)
    PROVE  Steady'
<1>1. /\ At(w, "submit") /\ faults' \in faults..MaxFaults
      /\ UNCHANGED <<inflight, queue, verdict>>
      /\ \/ /\ Posted(worker[w].sha, worker[w].row) /\ UNCHANGED rows
            /\ \/ Becomes(w, "mark", worker[w].sha, worker[w].row, worker[w].owns,
                          Len(posted) + 1, worker[w].enqueue)
               \/ Ends(w) /\ faults' = faults + 1
         \/ /\ UNCHANGED <<pr, posted>> /\ Ends(w)
            /\ UNCHANGED rows \/ Resolves(worker[w].row, Orphaned)
  BY SubmitCases DEF Steady
<1>2. PICK r \in 1..Len(rows) : worker[w].row = r
  BY <1>1, PublisherAt DEF Publishing, At
<1>3. faults <= faults'
  BY <1>1, Counts, BoundAssumption DEF Countable, Steady, Core
<1>4. /\ worker'[w].pc \in {"mark", "release"} /\ worker'[w].row = r
      /\ worker'[w].sha = worker[w].sha /\ worker'[w].owns = worker[w].owns
      /\ \A v \in Worker \ {w} : worker'[v] = worker[v]
  BY <1>1, <1>2 DEF Ends, Becomes
<1>5. Unmoved(w) /\ worker[w].pc \in Publishing /\ worker[w].pc = "submit"
  BY <1>1, <1>3, <1>4 DEF Unmoved, Works, At, Publishing
<1>6. CASE /\ Posted(worker[w].sha, r) /\ UNCHANGED rows
           /\ worker'[w].pc = "mark" \/ faults' = faults + 1
  <2>1. /\ Times(r)' = Times(r) + 1
        /\ \A q : q # r => Times(q)' = Times(q)
        /\ \A i \in 1..Len(posted') : posted'[i].row \in 0..Len(rows)
    BY <1>6, OnePost
  <2>2. PublishPays(w, r)
    BY <1>2, <1>3, <1>4, <1>5, <1>6, <2>1, PaysForSteps
  <2>3. PublishWrites(w, r)
    BY <1>6 DEF PublishWrites
  <2> QED
    BY <1>2, <1>4, <1>5, <2>1, <2>2, <2>3, PublishSteady
<1>7. CASE /\ UNCHANGED posted /\ worker'[w].pc = "release"
           /\ UNCHANGED rows \/ Resolves(r, Orphaned)
  <2>1. /\ \A q : Times(q)' = Times(q)
        /\ \A i \in 1..Len(posted') : posted'[i].row \in 0..Len(rows)
    BY <1>7, NoPost
  <2>2. PublishPays(w, r)
    BY <1>2, <1>3, <1>4, <1>5, <1>7, <2>1, PaysForSteps
  <2>3. PublishWrites(w, r)
    BY <1>7, <2>1, Resolutions DEF PublishWrites
  <2> QED
    BY <1>2, <1>4, <1>5, <2>1, <2>2, <2>3, PublishSteady
<1> QED
  BY <1>1, <1>2, <1>6, <1>7 DEF Ends, Becomes

\* The submission is recorded, or the record is lost.
LEMMA MarkSteady ==
    ASSUME Steady, Core', NEW w \in Worker, Mark(w)
    PROVE  Steady'
<1>1. /\ At(w, "mark") /\ faults' \in faults..MaxFaults
      /\ UNCHANGED <<pr, posted, inflight, queue, verdict>>
      /\ \/ Moves(w, "release") /\ Resolves(worker[w].row, worker[w].gh)
         \/ Ends(w) /\ UNCHANGED rows /\ faults' = faults + 1
  BY MarkCases DEF Steady
<1>2. PICK r \in 1..Len(rows) : worker[w].row = r
  BY <1>1, PublisherAt DEF Publishing, At
<1>3. faults <= faults'
  BY <1>1, Counts, BoundAssumption DEF Countable, Steady, Core
<1>4. /\ worker'[w].pc = "release" /\ worker'[w].row = r
      /\ worker'[w].sha = worker[w].sha /\ worker'[w].owns = worker[w].owns
      /\ \A v \in Worker \ {w} : worker'[v] = worker[v]
  BY <1>1, <1>2 DEF Ends, Moves, Becomes
<1>5. Unmoved(w) /\ worker[w].pc \in Publishing /\ worker[w].pc = "mark"
  BY <1>1, <1>3, <1>4 DEF Unmoved, Works, At, Publishing
<1>6. worker[w].gh \in Int \ {Pending}
  <2>1. worker[w].gh \in 1..Len(posted) /\ Len(posted) \in Nat
    BY <1>1, RowFields DEF Steady, Core, Shape, WorkerFits
  <2> QED
    BY <2>1 DEF Pending
<1>7. /\ \A q : Times(q)' = Times(q)
      /\ \A i \in 1..Len(posted') : posted'[i].row \in 0..Len(rows)
  BY <1>1, NoPost
<1>8. faults' = faults + 1 \/ rows'[r].gh # Pending
  BY <1>1, <1>2, <1>6 DEF Resolves, RowBecomes
<1>9. PublishPays(w, r)
  BY <1>2, <1>3, <1>4, <1>5, <1>7, <1>8, PaysForSteps
<1>10. PublishWrites(w, r)
  BY <1>1, <1>2, <1>4, <1>6, <1>7 DEF PublishWrites
<1> QED
  BY <1>2, <1>4, <1>5, <1>7, <1>9, <1>10, PublishSteady

\* A run without a row leaves the pending rows alone.
LEMMA RowlessBounds ==
    ASSUME Steady, Core', NEW w \in Worker, Unmoved(w), UNCHANGED posted,
           worker[w].row = 0, worker'[w].row \notin 1..Len(rows),
           \A r \in 1..Len(rows) :
                \/ rows'[r] = rows[r]
                \/ rows[r].gh # Pending /\ rows'[r].gh # Pending
    PROVE  \A r \in 1..Len(rows) : RowBound(r)'
<1> TAKE r \in 1..Len(rows)
<1>1. /\ worker[w].row # r /\ worker'[w].row # r /\ Times(r)' = Times(r)
      /\ rows'[r].gh = Pending <=> rows[r].gh = Pending
      /\ rows[r].gh = Pending => rows'[r].sha = rows[r].sha
  BY NoPost
<1> QED
  BY <1>1, OutsideRow

\* The row that a run stores has not been submitted, and nobody has it.
LEMMA FreshRow ==
    ASSUME Steady, Core', NEW w \in Worker, Unmoved(w), UNCHANGED posted,
           NEW n, n = Len(rows) + 1
    PROVE  /\ Times(n)' = 0
           /\ \A v \in Worker \ {w} : worker'[v].row # n
<1>1. Len(rows) \in Nat /\ DOMAIN posted = 1..Len(posted)
  BY RowFields DEF Steady, Core
<1>2. \A i \in DOMAIN posted : posted[i].row # n
  BY <1>1 DEF Steady, Linked
<1>3. {i \in DOMAIN posted' : posted'[i].row = n} = {}
  BY <1>2
<1>4. \A v \in Worker : worker[v].row # n
  BY <1>1 DEF Steady, Core, Shape, WorkerFits
<1> QED
  BY <1>3, <1>4, FS_EmptySet DEF Times, Unmoved

\* The gate and the check before generation.
LEMMA AskSteady ==
    ASSUME Steady, Core', NEW w \in Reviewer, Gate(w) \/ PeerCheck(w)
    PROVE  Steady'
<1>1. /\ worker[w].pc \in {"gate", "peer"} /\ faults' \in faults..MaxFaults
      /\ UNCHANGED <<pr, posted, inflight, queue>>
      /\ \E pc \in {"peer", "generate", "release"} : Moves(w, pc)
      /\ \/ UNCHANGED rows
         \/ Previous.gh > 0 /\ RowBecomes(Len(rows), Previous.gh, worker[w].sha)
         \/ \E i \in PeersOn(worker[w].sha) : Adds(i, worker[w].sha, pr.events, 0)
  <2>1. w \in Worker
    BY DEF Worker
  <2>2. CASE Gate(w)
    BY <2>1, <2>2, GateCases DEF Steady, At
  <2>3. CASE PeerCheck(w)
    BY <2>3, PeerCases DEF Steady, At
  <2> QED
    BY <2>2, <2>3
<1>2. w \in Worker /\ worker[w].row = 0 /\ faults <= faults' /\ Len(rows) \in Nat
  BY <1>1, Counts, RowFields, BoundAssumption
     DEF Worker, Countable, Steady, Core, Shape, WorkerFits, Early
<1>3. /\ worker'[w].pc \in {"peer", "generate", "release"} /\ worker'[w].row = 0
      /\ worker'[w].sha = worker[w].sha /\ worker'[w].owns = worker[w].owns
      /\ \A v \in Worker \ {w} : worker'[v] = worker[v]
  BY <1>1, <1>2 DEF Moves, Becomes
<1>4. Unmoved(w)
  BY <1>1, <1>2, <1>3 DEF Unmoved, Works
<1>5. \A i \in 1..Len(posted') : posted'[i].row \in 0..Len(rows)
  BY <1>1, NoPost
<1>6. CASE Len(rows') = Len(rows) /\ \A r \in 1..Len(rows) :
                \/ rows'[r] = rows[r]
                \/ rows[r].gh # Pending /\ rows'[r].gh # Pending
  <2>1. \A r \in 1..Len(rows') : RowBound(r)'
    BY <1>1, <1>2, <1>3, <1>4, <1>6, RowlessBounds
  <2>2. RowsSettle
    BY <1>2, <1>6 DEF RowsSettle
  <2>3. Linked'
    BY <1>2, <1>3, <1>5, <2>2, LinkedKept
  <2> QED
    BY <1>2, <1>4, <2>1, <2>3, UnmovedSteady
<1>7. ASSUME NEW i \in PeersOn(worker[w].sha), Adds(i, worker[w].sha, pr.events, 0)
      PROVE  Steady'
  <2>1. PICK n : n = Len(rows) + 1
    OBVIOUS
  <2>2. i # Pending
    BY RowFields DEF PeersOn, Pending, Steady, Core
  <2>3. /\ Len(rows') = n /\ rows'[n].gh # Pending
        /\ \A r \in 1..Len(rows) : rows'[r] = rows[r]
    BY <1>7, <2>1, <2>2 DEF Adds
  <2>4. \A r \in 1..Len(rows) : RowBound(r)'
    BY <1>1, <1>2, <1>3, <1>4, <2>3, RowlessBounds
  <2>5. RowBound(n)'
    <3>1. Times(n)' = 0 /\ \A v \in Worker \ {w} : worker'[v].row # n
      BY <1>1, <1>2, <1>4, <2>1, FreshRow
    <3>2. worker'[w].row # n
      BY <1>2, <1>3, <2>1
    <3>3. Holding(n)' = {}
      BY <3>1, <3>2 DEF Holding
    <3>4. Cardinality(Holding(n)') = 0
      BY <3>3, FS_EmptySet
    <3>5. faults' \in Nat /\ Cardinality(Publisher) \in Nat
      BY CountsAfter DEF Countable
    <3>6. 0 + 0 <= faults' + Cardinality(Publisher)
      BY <3>5
    <3>7. ResolvedBound(n)'
      BY <3>1, <3>4, <3>6 DEF ResolvedBound
    <3> QED
      BY <2>3, <3>7 DEF RowBound
  <2>6. \A r \in 1..Len(rows') : RowBound(r)'
    <3>1. \A r \in 1..n : r \in 1..Len(rows) \/ r = n
      BY <1>2, <2>1
    <3> QED
      BY <2>3, <2>4, <2>5, <3>1
  <2>7. RowsSettle
    BY <1>2, <2>1, <2>3 DEF RowsSettle
  <2>8. Linked'
    BY <1>2, <1>3, <1>5, <2>7, LinkedKept
  <2> QED
    BY <1>2, <1>4, <2>6, <2>8, UnmovedSteady
<1>8. CASE Previous.gh > 0 /\ RowBecomes(Len(rows), Previous.gh, worker[w].sha)
  <2>1. /\ Len(rows') = Len(rows) /\ rows'[Len(rows)].gh = rows[Len(rows)].gh
        /\ \A q \in 1..Len(rows) : q # Len(rows) => rows'[q] = rows[q]
    BY <1>8 DEF RowBecomes, Previous
  <2>2. rows[Len(rows)].gh # Pending
    BY <1>8 DEF Previous, Pending
  <2> QED
    BY <1>6, <2>1, <2>2
<1> QED
  BY <1>1, <1>6, <1>7, <1>8

\* The review is stored: nobody submitted it, and nobody waits for it.
LEMMA GenerateSteady ==
    ASSUME Steady, Core', NEW w \in Reviewer, Generate(w)
    PROVE  Steady'
<1>1. /\ At(w, "generate") /\ faults' \in faults..MaxFaults
      /\ UNCHANGED <<pr, posted, inflight, queue, verdict>>
      /\ \/ /\ Adds(Pending, worker[w].sha, pr.events, worker[w].sha)
            /\ Becomes(w, "recheck", worker[w].sha, Len(rows) + 1,
                       worker[w].owns, worker[w].gh, worker[w].enqueue)
         \/ Moves(w, "release") /\ UNCHANGED rows
  BY GenerateCases DEF Steady
<1>2. /\ w \in Worker /\ w \notin Publisher /\ worker[w].row = 0
      /\ faults <= faults' /\ Len(rows) \in Nat
  BY <1>1, Counts, RowFields, WorkerAssumption, BoundAssumption
     DEF Worker, Countable, Steady, Core, Shape, WorkerFits, Early, At
<1>3. /\ worker'[w].pc \in {"recheck", "release"}
      /\ worker'[w].sha = worker[w].sha /\ worker'[w].owns = worker[w].owns
      /\ \A v \in Worker \ {w} : worker'[v] = worker[v]
  BY <1>1 DEF Moves, Becomes
<1>4. Unmoved(w)
  BY <1>1, <1>2, <1>3 DEF Unmoved, Works, At
<1>5. \A i \in 1..Len(posted') : posted'[i].row \in 0..Len(rows)
  BY <1>1, NoPost
<1>6. CASE Moves(w, "release") /\ UNCHANGED rows
  <2>1. worker'[w].row = 0
    BY <1>2, <1>6 DEF Moves, Becomes
  <2>2. \A r \in 1..Len(rows') : RowBound(r)'
    BY <1>1, <1>2, <1>4, <1>6, <2>1, RowlessBounds
  <2>3. RowsSettle
    BY <1>2, <1>6 DEF RowsSettle
  <2>4. Linked'
    BY <1>2, <1>3, <1>5, <2>1, <2>3, LinkedKept
  <2> QED
    BY <1>2, <1>4, <2>2, <2>4, UnmovedSteady
<1>7. CASE /\ Adds(Pending, worker[w].sha, pr.events, worker[w].sha)
           /\ Becomes(w, "recheck", worker[w].sha, Len(rows) + 1,
                      worker[w].owns, worker[w].gh, worker[w].enqueue)
  <2>1. PICK n, sha : n = Len(rows) + 1 /\ sha = worker[w].sha
    OBVIOUS
  <2>2. /\ Len(rows') = n /\ rows'[n].gh = Pending /\ rows'[n].sha = sha
        /\ \A r \in 1..Len(rows) : rows'[r] = rows[r]
        /\ worker'[w].row = n /\ n \notin 1..Len(rows)
    BY <1>2, <1>7, <2>1 DEF Adds, Becomes
  <2>3. \A r \in 1..Len(rows) : RowBound(r)'
    BY <1>1, <1>2, <1>4, <2>2, RowlessBounds
  <2>4. Times(n)' = 0 /\ \A v \in Worker \ {w} : worker'[v].row # n
    BY <1>1, <1>2, <1>4, <2>1, FreshRow
  <2>5. Unshared(n)'
    <3>1. n \in RowId
      BY <1>2, <2>1, <2>2, BoundAssumption DEF Core, TypeOK, RowId
    <3>2. queue[n] = 0
      BY <2>2, <3>1, BoundAssumption DEF Steady, Core, Shape, QueueFits, TypeOK
    <3>3. \A v \in Publisher : worker'[v].row # n
      BY <1>2, <2>4 DEF Worker
    <3> QED
      BY <1>1, <3>2, <3>3 DEF Unshared
  <2>6. RowBound(n)'
    <3>1. PICK x \in Int, f \in Nat, g \in Nat, m \in Nat :
            /\ x = Excess(sha) /\ f = faults /\ g = faults' /\ f <= g
            /\ m = Cardinality(Recording(n)')
      BY <1>2, Counts, CountsAfter DEF Countable, Steady
    <3>2. x <= f
      <4>1. sha \in Commit
        BY <1>1, <1>2, <2>1, Busy DEF Steady, At
      <4> QED
        BY <3>1, <4>1 DEF Steady, Bounded
    <3>3. 0 + x <= g + m
      BY <3>1, <3>2
    <3>4. Excess(sha)' = x
      BY <1>2, <1>4, <3>1, UnmovedCounts
    <3>5. Excess(rows[n].sha)' = x
      BY <2>2, <3>4 DEF Excess, Active, Covered, Owned
    <3>6. ~Contested(n)'
      BY <2>5 DEF Contested
    <3>7. PendingBound(n)'
      BY <2>4, <3>1, <3>3, <3>5, <3>6 DEF PendingBound
    <3> QED
      BY <2>2, <3>7 DEF RowBound
  <2>7. \A r \in 1..Len(rows') : RowBound(r)'
    <3>1. \A r \in 1..n : r \in 1..Len(rows) \/ r = n
      BY <1>2, <2>1
    <3> QED
      BY <2>2, <2>3, <2>6, <3>1
  <2>8. Linked'
    <3>1. \A v \in Worker : worker[v].row \in 0..Len(rows)
      BY DEF Steady, Core, Shape, WorkerFits
    <3>2. ASSUME NEW v \in Worker, NEW r \in 1..Len(rows'), worker'[v].row = r,
                 rows'[r].gh = Pending
          PROVE  worker'[v].sha = rows'[r].sha
      <4>1. CASE v = w
        BY <1>3, <2>1, <2>2, <3>2, <4>1
      <4>2. CASE v # w
        <5>1. r \in 1..Len(rows) /\ worker'[v] = worker[v] /\ rows'[r] = rows[r]
          BY <1>2, <1>3, <2>1, <2>2, <3>1, <3>2, <4>2
        <5> QED
          BY <3>2, <5>1 DEF Steady, Linked
      <4> QED
        BY <4>1, <4>2
    <3>3. ASSUME NEW u \in Reviewer, NEW v \in Reviewer,
                 worker'[u].row # 0, worker'[u].row = worker'[v].row
          PROVE  u = v
      <4>1. u \in Worker /\ v \in Worker
        BY DEF Worker
      <4>2. CASE u = w \/ v = w
        BY <2>2, <2>4, <3>3, <4>1, <4>2
      <4>3. CASE u # w /\ v # w
        BY <1>3, <3>3, <4>1, <4>3 DEF Steady, Linked
      <4> QED
        BY <4>2, <4>3
    <3>4. \A i \in 1..Len(posted') : posted'[i].row \in 0..Len(rows')
      BY <1>2, <1>5, <2>1, <2>2
    <3> QED
      BY <3>2, <3>3, <3>4 DEF Linked
  <2> QED
    BY <1>2, <1>4, <2>7, <2>8, UnmovedSteady
<1> QED
  BY <1>1, <1>6, <1>7

---------------------------------------------------------------------------
\* The invariant holds at the start,
LEMMA InitSteady == Init => Steady
<1> SUFFICES ASSUME Init PROVE Steady
  OBVIOUS
<1>1. Core
  BY InitCore
<1>2. Len(rows) = 0 /\ Len(posted) = 0 /\ faults = 0
  BY EmptySeq DEF Init
<1>3. \A w \in Worker : worker[w].pc = "idle" /\ worker[w].row = 0
  BY IdleFields DEF Init
<1>4. Linked
  BY <1>2, <1>3 DEF Linked, Worker
<1>5. \A sha : Active(sha) = {} /\ Covered(sha) = 0
  BY <1>3 DEF Init, Active, Covered
<1>6. \A sha : Excess(sha) = 0
  BY <1>5, FS_EmptySet DEF Excess
<1> QED
  BY <1>1, <1>2, <1>4, <1>6 DEF Steady, Bounded

\* is kept by every step,
LEMMA NextSteady ==
    ASSUME Steady, [Next]_vars
    PROVE  Steady'
<1>1. Core'
  BY NextCore DEF Steady
<1>2. CASE \E w \in Automatic : Start(w)
  BY <1>1, <1>2, StartSteady DEF Reviewer
<1>3. CASE \E w \in Manual : Trigger(w)
  BY <1>1, <1>3, StartSteady DEF Reviewer
<1>4. CASE \E w \in Publisher, r \in RowId : Deliver(w, r)
  BY <1>1, <1>4, DeliverSteady
<1>5. ASSUME NEW w \in Worker, Proceed(w)
      PROVE  Steady'
  <2>1. Gate(w) \/ PeerCheck(w) \/ Generate(w) => w \in Reviewer
    BY OnlyReviewers DEF Steady
  <2> QED
    BY <1>1, <1>5, <2>1, ClaimSteady, AskSteady, GenerateSteady, LookSteady,
       SubmitSteady, MarkSteady, ReleaseSteady DEF Proceed
<1>6. CASE \E r \in RowId : Poll(r) \/ LoseMessage(r)
  BY <1>1, <1>6, MessageSteady
<1>7. CASE \E sha \in Commit : Sweep(sha)
  BY <1>1, <1>7, SweepSteady
<1>8. CASE Crash
  BY <1>1, <1>8, CrashSteady
<1>9. CASE Environment
  BY <1>1, <1>9, GitHubSteady
<1>10. CASE UNCHANGED vars
  <2>1. /\ UNCHANGED <<posted, rows, inflight, queue, worker>>
        /\ faults <= faults'
    BY <1>10, Counts DEF vars, Countable, Steady
  <2>2. \A r \in 1..Len(rows) : Contested(r)' => Contested(r)
    BY <2>1 DEF Contested, Alone, Active, Covered, Owned, Unshared
  <2> QED
    BY <1>1, <2>1, <2>2, NoPost, QuietSteady
<1> QED
  BY <1>2, <1>3, <1>4, <1>5, <1>6, <1>7, <1>8, <1>9, <1>10 DEF Next

\* and bounds the submissions: of the runs that are to record one, all but the
\* one with the claim have been paid for.
LEMMA SteadyBounds == Steady => SubmissionsBounded
<1> SUFFICES ASSUME Steady, NEW r \in 1..Len(rows)
             PROVE  Times(r) <= Cardinality(Publisher) + faults
  BY RowFields DEF SubmissionsBounded, Times, Steady, Core
<1>1. PICK sha : sha = rows[r].sha
  OBVIOUS
<1>2. PICK t \in Nat, f \in Nat, p \in Nat, m \in Nat, h \in Nat :
        /\ t = Times(r) /\ f = faults /\ p = Cardinality(Publisher) /\ 1 <= p
        /\ m = Cardinality(Recording(r)) /\ h = Cardinality(Holding(r))
  BY Counts DEF Countable, Steady
<1>3. PICK a \in Nat, k \in {0, 1} : a = Cardinality(Active(sha)) /\ k = Covered(sha)
  BY Counts DEF Countable, Steady
<1>4. CASE rows[r].gh = Pending
  <2>1. m <= a
    <3>1. Recording(r) \in SUBSET Active(sha) /\ IsFiniteSet(Active(sha))
      BY <1>1, <1>4, Holders, Counts DEF Countable, Steady
    <3> QED
      BY <1>2, <1>3, <3>1, FewerElements
  <2>2. t + (a - k) <= f + m
    BY <1>1, <1>2, <1>3, <1>4 DEF Steady, Bounded, RowBound, PendingBound, Excess
  <2>3. t <= f + 1
    BY <2>1, <2>2
  <2>4. 1 <= p
    BY <1>2
  <2>5. t <= p + f
    BY <2>3, <2>4
  <2> QED
    BY <1>2, <2>5
<1>5. CASE rows[r].gh # Pending
  <2>1. t + h <= f + p
    BY <1>2, <1>5 DEF Steady, Bounded, RowBound, ResolvedBound
  <2>2. t <= p + f
    BY <2>1
  <2> QED
    BY <1>2, <2>2
<1> QED
  BY <1>4, <1>5

\* Whatever fails, and however many workers there are, a stored review is
\* submitted at most once for every publish worker and once for every fault.
THEOREM SubmissionsCounted == Spec => []SubmissionsBounded
<1>1. Init => Steady
  BY InitSteady
<1>2. Steady /\ [Next]_vars => Steady'
  BY NextSteady
<1>3. Steady => SubmissionsBounded
  BY SteadyBounds
<1> QED
  BY <1>1, <1>2, <1>3, PTL DEF Spec
=============================================================================
