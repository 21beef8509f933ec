---------------------------- MODULE WatchSchedule ----------------------------
(***************************************************************************)
(* The watch list of open pull requests: table watch_state (bus/watch.go), *)
(* the poller that dispatches the due entries and the handler of a state   *)
(* check (cmd/heimdallm/main.go), the worker that reschedules the entry    *)
(* after it (worker/state.go), and the review paths that enrol what they   *)
(* have looked at.  Checks travel on Core NATS, which may drop them.  The  *)
(* unit of time is InitialBackoff.                                         *)
(***************************************************************************)
EXTENDS Integers, Sequences, FiniteSets, FiniteSetsExt

CONSTANTS
    PRs,            \* pull requests of one repository
    Slots,          \* capacity of the state worker's semaphore
    MaxBackoff,     \* cap of the doubling, in units of InitialBackoff
    EvictAfter,     \* age at which an entry with no open record is dropped
    SnapshotAge,    \* tier3SnapshotMaxAge, in whole units
    MaxQueue,       \* messages waiting for a worker
    MaxEvents,      \* what happens on GitHub, to the configuration, reviews
    MaxFaults       \* lost messages, failed requests, late reviews

ASSUME WatchAssumption ==
    /\ PRs # {} /\ Slots \in Nat \ {0}
    /\ MaxBackoff \in Nat \ {0} /\ EvictAfter \in Nat /\ EvictAfter > MaxBackoff
    /\ SnapshotAge \in Nat /\ MaxQueue \in Nat \ {0}
    /\ MaxEvents \in Nat /\ MaxFaults \in Nat

VARIABLES
    github,         \* GitHub's state of each pull request
    record,         \* column state of table prs, "none" without a row
    reviewed,       \* a review of it is stored
    monitored,      \* the operator monitors the repository
    watch,          \* table watch_state; backoff 0: no entry
    snapshot,       \* the client's cache of batched reads
    ready,          \* the poller's entries still to dispatch
    deferring,      \* the entries published and not yet deferred
    queue,          \* StateCheckMsg not yet taken by the worker
    worker,         \* the running checks
    events, faults

vars == <<github, record, reviewed, monitored, watch, snapshot, ready, deferring,
          queue, worker, events, faults>>

rows == <<record, reviewed>>
store == <<rows, watch>>
poller == <<ready, deferring>>
outside == <<github, monitored, events>>

Workers == 1 .. Slots

NoEntry == [due |-> 0, backoff |-> 0, seen |-> 0, age |-> 0]
NoSnapshot == [state |-> "none", version |-> 0, requested |-> FALSE, left |-> 0]
Idle == [pc |-> "idle", pr |-> CHOOSE p \in PRs : TRUE, backoff |-> 0,
         answered |-> FALSE]

Versions == 0 .. MaxEvents + 1
Watched(p) == watch[p].backoff > 0

TypeOK ==
    /\ github \in [PRs -> [state : {"open", "closed", "gone"},
                           version : Versions, requested : BOOLEAN]]
    /\ record \in [PRs -> {"none", "open", "closed"}]
    /\ reviewed \in [PRs -> BOOLEAN] /\ monitored \in BOOLEAN
    /\ watch \in [PRs -> [due : 0 .. MaxBackoff, backoff : 0 .. MaxBackoff,
                          seen : Versions, age : 0 .. EvictAfter]]
    /\ snapshot \in [PRs -> [state : {"none", "open", "closed", "gone"},
                             version : Versions, requested : BOOLEAN,
                             left : 0 .. SnapshotAge]]
    /\ ready \cup deferring \subseteq [pr : PRs, backoff : 1 .. MaxBackoff]
    /\ queue \in Seq(PRs) /\ Len(queue) <= MaxQueue
    /\ worker \in [Workers -> [pc : {"idle", "check", "handle", "increase",
                                     "write"},
                               pr : PRs, backoff : 0 .. MaxBackoff, answered : BOOLEAN]]
    /\ events \in 0 .. MaxEvents /\ faults \in 0 .. MaxFaults

(* The daemon starts with pull requests it is asked to review, or has       *)
(* reviewed before.                                                        *)
Init ==
    /\ github \in [PRs -> [state : {"open"}, version : {1}, requested : BOOLEAN]]
    /\ record \in [PRs -> {"none", "open"}]
    /\ reviewed \in [PRs -> BOOLEAN]
    /\ \A p \in PRs : IF reviewed[p] THEN record[p] = "open"
                       ELSE record[p] = "none" /\ github[p].requested
    /\ monitored = TRUE
    /\ watch = [p \in PRs |-> NoEntry]
    /\ snapshot = [p \in PRs |-> NoSnapshot]
    /\ ready = {} /\ deferring = {}
    /\ queue = <<>>
    /\ worker = [w \in Workers |-> Idle]
    /\ events = 0 /\ faults = 0

Fault == faults < MaxFaults /\ faults' = faults + 1
Event == events < MaxEvents /\ events' = events + 1

-----------------------------------------------------------------------------
(* Table watch_state.  last_seen is the daemon's clock: it covers every    *)
(* update up to the write.                                                 *)

Fresh(p) == [due |-> 1, backoff |-> 1, seen |-> github[p].version, age |-> 0]

Enroll(p) == watch' = [watch EXCEPT ![p] = Fresh(p)]
EnrollIfAbsent(p) == IF Watched(p) THEN UNCHANGED watch ELSE Enroll(p)
Delete(p) == watch' = [watch EXCEPT ![p] = NoEntry]

(* An UPDATE of a missing row changes nothing: ErrWatchNotFound. *)
ResetBackoff(p) == IF Watched(p) THEN Enroll(p) ELSE UNCHANGED watch

\* Mutant: no cap.
DoubledOnly(backoff) == 2 * backoff

Doubled(backoff) == Min({2 * backoff, MaxBackoff})

Reschedule(p, backoff) ==
    watch' = IF Watched(p) THEN [watch EXCEPT ![p].due = backoff,
                                              ![p].backoff = backoff]
                           ELSE watch

\* Mutant: not due again before its check has rescheduled it.
DeferUntilChecked(p, backoff) ==
    watch' = IF Watched(p) /\ backoff > 0 THEN [watch EXCEPT ![p].due = -1]
                                          ELSE watch

Defer(p, backoff) ==
    watch' = IF Watched(p) THEN [watch EXCEPT ![p].due = backoff] ELSE watch

(* EvictStale: recorded as no longer open, or old and not recorded open. *)
Stale(p, entry) ==
    /\ entry.backoff > 0
    /\ record[p] = "closed" \/ (entry.age >= EvictAfter /\ record[p] # "open")

-----------------------------------------------------------------------------
(* The poller *)

(* enrollOpenItems: what is recorded open, monitored and not watched. *)
Backfilled(p) == monitored /\ record[p] = "open" /\ ~ Watched(p)

(* One tick: backfill, EvictStale, ScanReady and PrefetchPRs of the due     *)
(* entries.  A pull request that is not cached is read by its check.       *)
Scan ==
    LET filled == [p \in PRs |-> IF Backfilled(p) THEN Fresh(p) ELSE watch[p]]
        kept == [p \in PRs |-> IF Stale(p, filled[p]) THEN NoEntry ELSE filled[p]]
        due == {p \in PRs : kept[p].backoff > 0 /\ kept[p].due = 0}
        read(p) == [state |-> github[p].state, version |-> github[p].version,
                    requested |-> github[p].requested, left |-> SnapshotAge]
    IN  /\ ready = {} /\ deferring = {}
        /\ watch' = kept
        /\ ready' = {[pr |-> p, backoff |-> kept[p].backoff] : p \in due}
        /\ \/ /\ snapshot' = [p \in PRs |-> IF monitored /\ p \in due
                                            THEN read(p) ELSE snapshot[p]]
              /\ UNCHANGED faults
           \/ due # {} /\ Fault /\ UNCHANGED snapshot
        /\ watch' # watch \/ due # {}
        /\ UNCHANGED <<outside, rows, deferring, queue, worker>>

(* PublishStateCheck; a message nobody has room for is lost. *)
Publish ==
    \E e \in ready :
        /\ deferring = {}
        /\ ready' = ready \ {e}
        /\ deferring' = {e}
        /\ \/ Len(queue) < MaxQueue /\ queue' = Append(queue, e.pr) /\ UNCHANGED faults
           \/ Fault /\ UNCHANGED queue
        /\ UNCHANGED <<outside, store, snapshot, worker>>

(* Defer, by the backoff the scan has read. *)
DeferDispatched ==
    \E e \in deferring :
        /\ deferring' = {}
        /\ Defer(e.pr, e.backoff)
        /\ UNCHANGED <<outside, rows, snapshot, ready, queue, worker, faults>>

PollerStep == Scan \/ Publish \/ DeferDispatched

-----------------------------------------------------------------------------
(* A state check *)

Goto(w, pc) == worker' = [worker EXCEPT ![w].pc = pc]

(* A message takes a slot, whichever is free; the handler's first look: a   *)
(* repository no longer monitored is dropped.                              *)
(* An updater that drains the daemon makes the worker drop the message.    *)
Take(w) ==
    LET p == Head(queue)
    IN  /\ worker[w].pc = "idle"
        /\ \A v \in Workers : worker[v].pc = "idle" => w <= v
        /\ queue # <<>>
        /\ queue' = Tail(queue)
        /\ \/ Fault /\ UNCHANGED <<worker, watch>>
           \/ /\ monitored
              /\ worker' = [worker EXCEPT ![w] = [Idle EXCEPT !.pc = "check", !.pr = p]]
              /\ UNCHANGED <<watch, faults>>
           \/ /\ ~ monitored
              /\ worker' = [worker EXCEPT ![w] = [Idle EXCEPT !.pc = "increase", !.pr = p]]
              /\ Delete(p)
              /\ UNCHANGED faults
        /\ UNCHANGED <<outside, rows, snapshot, poller>>

(* GetPRSnapshotFresh: the batched read while it is recent. *)
Snapshots(p) ==
    IF snapshot[p].state # "none"
    THEN {[state |-> snapshot[p].state, version |-> snapshot[p].version,
           requested |-> snapshot[p].requested]}
    ELSE {github[p]}

(* awaitingReReviewRequest: reviewed before and not asked again. *)
\* Mutant: what was reviewed once is never looked at again.
AwaitingAlways(p, snap) == reviewed[p] /\ snap.version > 0

AwaitingReReviewRequest(p, snap) == reviewed[p] /\ ~ snap.requested

\* Mutant: a closed pull request keeps its record.
CloseNothing(p) == p \in PRs /\ UNCHANGED record

MarkClosed(p) ==
    record' = IF record[p] = "none" THEN record ELSE [record EXCEPT ![p] = "closed"]

Changed(p, snap, seen) ==
    snap.version > seen /\ ~ AwaitingReReviewRequest(p, snap)

(* After the wait for the rate limiter: last_seen, no entry reads as never  *)
(* seen, and the snapshot.  A write of last_seen between the two reads     *)
(* could as well come after both.                                          *)
CheckItem(w) ==
    LET p == worker[w].pr
        done(pc) == worker' = [worker EXCEPT ![w].pc = pc, ![w].answered = TRUE]
    IN  /\ worker[w].pc = "check"
        /\ \/ Fault /\ Goto(w, "increase") /\ UNCHANGED <<record, watch>>
           \/ \E snap \in Snapshots(p) :
                 /\ UNCHANGED faults
                 /\ \/ /\ snap.state = "gone"
                       /\ Delete(p) /\ done("increase")
                       /\ UNCHANGED record
                    \/ /\ snap.state = "closed"
                       /\ MarkClosed(p) /\ done("increase")
                       /\ UNCHANGED watch
                    \/ /\ snap.state = "open"
                       /\ done(IF Changed(p, snap, watch[p].seen)
                               THEN "handle" ELSE "increase")
                       /\ UNCHANGED <<record, watch>>
        /\ UNCHANGED <<outside, reviewed, snapshot, poller, queue>>

(* The pipeline stores the pull request it was given as open. *)
Record(p) == record' = [record EXCEPT ![p] = "open"]
Store(p, made) == reviewed' = [reviewed EXCEPT ![p] = @ \/ made]

(* HandleChange: no longer monitored, guarded or reviewed already, or a     *)
(* review, which may take long, and a new enrolment.  Then the worker's     *)
(* ResetBackoff at once; a panic loses it.                                 *)
HandleChange(w) ==
    LET p == worker[w].pr
    IN  /\ worker[w].pc = "handle"
        /\ \/ /\ ResetBackoff(p)
              /\ worker' = [worker EXCEPT ![w] = Idle]
              /\ UNCHANGED <<rows, faults>>
           \/ /\ monitored
              /\ Record(p) /\ Enroll(p)
              /\ \E made \in BOOLEAN : Store(p, made)
              /\ worker' = [worker EXCEPT ![w] = Idle]
              /\ UNCHANGED faults
           \/ Fault /\ Goto(w, "increase") /\ UNCHANGED <<store>>
        /\ UNCHANGED <<outside, snapshot, poller, queue>>

(* IncreaseBackoff reads the entry in one statement and writes in another. *)
IncreaseRead(w) ==
    LET p == worker[w].pr
    IN  /\ worker[w].pc = "increase"
        /\ worker' = [worker EXCEPT ![w] =
               IF Watched(p) THEN [@ EXCEPT !.pc = "write", !.answered = FALSE,
                                            !.backoff = Doubled(watch[p].backoff)]
                             ELSE Idle]
        /\ UNCHANGED <<outside, store, snapshot, poller, queue, faults>>

IncreaseWrite(w) ==
    /\ worker[w].pc = "write"
    /\ Reschedule(worker[w].pr, worker[w].backoff)
    /\ worker' = [worker EXCEPT ![w] = Idle]
    /\ UNCHANGED <<outside, rows, snapshot, poller, queue, faults>>

WorkerStep(w) ==
    \/ Take(w) \/ CheckItem(w) \/ HandleChange(w)
    \/ IncreaseRead(w) \/ IncreaseWrite(w)

CheckStep == \E w \in Workers : WorkerStep(w)

-----------------------------------------------------------------------------
(* The other paths *)

\* Mutant: a skipped run restarts the watch as well.
EnrollAlways(p, made) == made \in BOOLEAN /\ Enroll(p)

EnrollAfterReview(p, made) ==
    IF made THEN Enroll(p) ELSE EnrollIfAbsent(p)

(* A review worker or the poll ends with p.  A run that stopped before the  *)
(* pull request was stored leaves no record; one that read it before it    *)
(* closed records it as open.                                              *)
ReviewDone(p, made) ==
    /\ monitored
    /\ IF github[p].state = "open" THEN UNCHANGED faults ELSE Fault
    /\ IF made THEN Event ELSE UNCHANGED events
    /\ EnrollAfterReview(p, made)
    /\ Store(p, made)
    /\ \/ Record(p)
       \/ ~ made /\ UNCHANGED record
    /\ UNCHANGED <<github, monitored, snapshot, poller, queue, worker>>

(* GitHub: any update moves updated_at; a request or its withdrawal is one. *)
GitHubUpdate(p) ==
    /\ Event
    /\ \/ \E state \in {"open", "closed", "gone"} \ {github[p].state} :
             github' = [github EXCEPT ![p].state = state, ![p].version = @ + 1]
       \/ /\ github[p].state = "open"
          /\ \E requested \in BOOLEAN :
                github' = [github EXCEPT ![p].requested = requested,
                                         ![p].version = @ + 1]
    /\ UNCHANGED <<store, monitored, snapshot, poller, queue, worker, faults>>

ToggleMonitored ==
    /\ Event
    /\ monitored' = ~ monitored
    /\ UNCHANGED <<github, store, snapshot, poller, queue, worker, faults>>

(* Time: due entries stay due, a cached read expires; the age matters only  *)
(* without an open record.  Only an agent's run and a wait for the limiter  *)
(* or for a worker's slot take a unit.                                     *)
Tick ==
    /\ deferring = {}
    /\ \A w \in Workers : worker[w].pc \in {"idle", "check", "handle"}
    /\ watch' = [p \in PRs |->
           IF Watched(p) THEN [watch[p] EXCEPT !.due = IF @ > 0 THEN @ - 1 ELSE @,
                                               !.age = IF record[p] = "open" THEN 0
                                                       ELSE Min({@ + 1, EvictAfter})]
                         ELSE NoEntry]
    /\ snapshot' = [p \in PRs |->
           IF snapshot[p].left = 0 THEN NoSnapshot
                                   ELSE [snapshot[p] EXCEPT !.left = @ - 1]]
    /\ UNCHANGED <<outside, rows, poller, queue, worker, faults>>

Next ==
    \/ PollerStep
    \/ CheckStep
    \/ \E p \in PRs, made \in BOOLEAN : ReviewDone(p, made)
    \/ \E p \in PRs : GitHubUpdate(p)
    \/ ToggleMonitored \/ Tick

(* The ticker fires for ever and the callbacks of the subscription run. *)
Fairness ==
    /\ WF_vars(PollerStep)
    /\ WF_vars(CheckStep)
    /\ WF_vars(Tick)

Spec == Init /\ [][Next]_vars /\ Fairness

-----------------------------------------------------------------------------
(* Properties *)

Standing(p) == github[p].state = "open" /\ record[p] = "open" /\ monitored
Answered(p) == \E w \in Workers : worker[w].pr = p /\ worker[w].answered

\* A pull request that is open, recorded open and monitored is checked again
\* and again: a lost message, a check that failed, an entry that was dropped or
\* rescheduled by a late write delays the next check and never ends the watch.
OpenChecked == \A p \in PRs : <>[]Standing(p) => []<>Answered(p)

\* watch.go, EvictAfter: an unchanged pull request "settles at MaxBackoff";
\* evicting it had it "polled ~7 times an hour forever".  Reviews that are
\* skipped, checks that overlap and lost messages do not keep it awake.
QuietSettles ==
    \A p \in PRs : <>[]Standing(p) => <>[](watch[p].backoff = MaxBackoff)

\* A pull request that was closed is in the end neither watched nor checked,
\* even if a late review recorded it as open once more.
ClosedForgotten ==
    \A p \in PRs : <>[](monitored /\ github[p].state = "closed")
                   => <>[](~ Watched(p))

Unseen(p) ==
    /\ Standing(p) /\ github[p].requested
    /\ Watched(p) /\ github[p].version > watch[p].seen

\* A re-request whose update is newer than last_seen is noticed: it does not
\* stay unseen behind a cached read, a growing backoff or a lost check.
RequestNoticed == \A p \in PRs : Unseen(p) ~> ~ Unseen(p)

\* main.go, stateHandler, of a pull request that is gone: "Remove from watch to
\* stop retrying".
GoneForgotten ==
    \A p \in PRs : <>[](github[p].state = "gone") => <>[](~ Watched(p))
=============================================================================
