------------------------ MODULE WatchScheduleProofs ------------------------
(***************************************************************************)
(* Proofs about the watch list, for any pull requests, number of checks at *)
(* a time, backoff cap and ages: its type invariant, which bounds how far  *)
(* off a next check can be, and that no update is taken for seen before it *)
(* happened, whatever is cached, late or lost.                             *)
(***************************************************************************)
EXTENDS WatchSchedule, ProofLemmas

States == {"open", "closed", "gone"}
Githubs == [state : States, version : Versions, requested : BOOLEAN]
Entries == [due : 0 .. MaxBackoff, backoff : 0 .. MaxBackoff, seen : Versions,
            age : 0 .. EvictAfter]
Reads == [state : {"none"} \cup States, version : Versions, requested : BOOLEAN,
          left : 0 .. SnapshotAge]
Dispatches == [pr : PRs, backoff : 1 .. MaxBackoff]
Jobs == [pc : {"idle", "check", "handle", "increase", "write"}, pr : PRs,
         backoff : 0 .. MaxBackoff, answered : BOOLEAN]

-----------------------------------------------------------------------------
(* The inductive invariant *)

\* Every update of a pull request is an event.
GithubFits ==
    /\ github \in [PRs -> Githubs] /\ events \in 0 .. MaxEvents
    /\ \A p \in PRs : github[p].version <= events + 1

\* What the table and the cache have seen has happened.
WatchFits ==
    /\ watch \in [PRs -> Entries]
    /\ \A p \in PRs : watch[p].seen <= github[p].version

CacheFits ==
    /\ snapshot \in [PRs -> Reads]
    /\ \A p \in PRs : snapshot[p].version <= github[p].version

RowsFit ==
    /\ record \in [PRs -> {"none", "open", "closed"}]
    /\ reviewed \in [PRs -> BOOLEAN] /\ monitored \in BOOLEAN

PollerFits == ready \in SUBSET Dispatches /\ deferring \in SUBSET Dispatches

QueueFits == queue \in Seq(PRs) /\ Len(queue) <= MaxQueue

WorkersFit == worker \in [Workers -> Jobs]

FaultsFit == faults \in 0 .. MaxFaults

WatchInv ==
    /\ GithubFits /\ WatchFits /\ CacheFits /\ RowsFit
    /\ PollerFits /\ QueueFits /\ WorkersFit /\ FaultsFit

-----------------------------------------------------------------------------
(* Values *)

\* The bounds are numbers, one backoff is a backoff.
LEMMA Bounds ==
    /\ MaxBackoff \in Nat /\ 1 <= MaxBackoff /\ EvictAfter \in Nat
    /\ SnapshotAge \in Nat /\ MaxQueue \in Nat
    /\ MaxEvents \in Nat /\ MaxFaults \in Nat
BY WatchAssumption

\* The initial values are typed.
LEMMA Blank == NoEntry \in Entries /\ NoSnapshot \in Reads /\ Idle \in Jobs
<1>1. (CHOOSE p \in PRs : TRUE) \in PRs
  BY WatchAssumption
<1> QED
  BY <1>1, Bounds DEF NoEntry, Entries, NoSnapshot, Reads, Idle, Jobs, Versions

\* A doubled backoff is one that the table can hold.
LEMMA DoubledFits ==
    ASSUME NEW b \in 1 .. MaxBackoff
    PROVE  Doubled(b) \in 1 .. MaxBackoff
<1> DEFINE S == {2 * b, MaxBackoff}
<1>1. S \in SUBSET Nat /\ S # {} /\ \A x \in S : 1 <= x
  BY Bounds
<1>2. \E x \in S : \A y \in S : x <= y
  BY <1>1, LeastNatural
<1>3. Min(S) \in S /\ \A y \in S : Min(S) <= y
  BY <1>2 DEF Min
<1>4. Min(S) <= MaxBackoff
  BY <1>3
<1>5. Doubled(b) = Min(S)
  BY DEF Doubled
<1>6. Min(S) \in Nat /\ 1 <= Min(S)
  BY <1>1, <1>3
<1> HIDE DEF S
<1> QED
  BY <1>4, <1>5, <1>6, Bounds

\* An age stops at the one that evicts.
LEMMA Aged ==
    ASSUME NEW a \in 0 .. EvictAfter
    PROVE  Min({a + 1, EvictAfter}) \in 0 .. EvictAfter
<1> DEFINE S == {a + 1, EvictAfter}
<1>1. S \in SUBSET Nat /\ S # {}
  BY Bounds
<1>2. \E x \in S : \A y \in S : x <= y
  BY <1>1, LeastNatural
<1>3. Min(S) \in S /\ \A y \in S : Min(S) <= y
  BY <1>2 DEF Min
<1> QED
  BY <1>3, Bounds

\* A new entry has seen the last update and no later one.
LEMMA FreshFits ==
    ASSUME GithubFits, NEW p \in PRs
    PROVE  Fresh(p) \in Entries /\ Fresh(p).seen = github[p].version
<1>1. github[p].version \in Versions
  BY DEF GithubFits, Githubs
<1> QED
  BY <1>1, Bounds DEF Fresh, Entries

-----------------------------------------------------------------------------
(* Statements on the table *)

\* An entry that is exchanged for one that has seen no more than happened.
LEMMA Written ==
    ASSUME WatchFits, UNCHANGED github, NEW p \in PRs, NEW x \in Entries,
           x.seen <= github[p].version, watch' = [watch EXCEPT ![p] = x]
    PROVE  WatchFits'
<1>1. watch' \in [PRs -> Entries]
  BY DEF WatchFits
<1>2. \A q \in PRs : watch'[q] = IF q = p THEN x ELSE watch[q]
  BY DEF WatchFits
<1> QED
  BY <1>1, <1>2 DEF WatchFits

\* Enrolment, deletion and the reset of a backoff,
LEMMA Enrolled ==
    ASSUME GithubFits, WatchFits, UNCHANGED github, NEW p \in PRs,
           \/ Enroll(p) \/ EnrollIfAbsent(p) \/ ResetBackoff(p) \/ Delete(p)
    PROVE  WatchFits'
<1>1. CASE Enroll(p)
  <2>1. Fresh(p) \in Entries /\ Fresh(p).seen <= github[p].version
    BY FreshFits DEF GithubFits, Githubs, Versions
  <2> QED
    BY <1>1, <2>1, Written DEF Enroll
<1>2. CASE Delete(p)
  <2>1. NoEntry \in Entries /\ NoEntry.seen <= github[p].version
    BY Blank DEF NoEntry, GithubFits, Githubs, Versions
  <2> QED
    BY <1>2, <2>1, Written DEF Delete
<1>3. CASE UNCHANGED watch
  BY <1>3 DEF WatchFits
<1> QED
  BY <1>1, <1>2, <1>3 DEF EnrollIfAbsent, ResetBackoff

\* a new schedule and a deferral keep what was seen.
LEMMA Rescheduled ==
    ASSUME GithubFits, WatchFits, UNCHANGED github, NEW p \in PRs, NEW b \in 0 .. MaxBackoff,
           Reschedule(p, b) \/ Defer(p, b)
    PROVE  WatchFits'
<1> DEFINE x == [watch[p] EXCEPT !.due = b, !.backoff = b]
           y == [watch[p] EXCEPT !.due = b]
<1>1. watch[p] \in Entries /\ watch[p].seen <= github[p].version
  BY DEF WatchFits
<1>2. /\ x \in Entries /\ x.seen = watch[p].seen
      /\ y \in Entries /\ y.seen = watch[p].seen
  BY <1>1 DEF Entries
<1>3. \/ UNCHANGED watch
      \/ watch' = [watch EXCEPT ![p] = x]
      \/ watch' = [watch EXCEPT ![p] = y]
  BY DEF Reschedule, Defer, WatchFits
<1> HIDE DEF x, y
<1>4. CASE UNCHANGED watch
  BY <1>4 DEF WatchFits
<1> QED
  BY <1>1, <1>2, <1>3, <1>4, Written

-----------------------------------------------------------------------------
(* The poller *)

\* A fault is one of those allowed.
LEMMA FaultCounts ==
    ASSUME FaultsFit, Fault \/ UNCHANGED faults
    PROVE  FaultsFit'
BY Bounds DEF FaultsFit, Fault

\* The scan backfills, evicts and reads the due pull requests.
LEMMA ScanInv ==
    ASSUME WatchInv, Scan
    PROVE  WatchInv'
<1> DEFINE filled == [p \in PRs |-> IF Backfilled(p) THEN Fresh(p) ELSE watch[p]]
           kept == [p \in PRs |-> IF Stale(p, filled[p]) THEN NoEntry ELSE filled[p]]
           due == {p \in PRs : kept[p].backoff > 0 /\ kept[p].due = 0}
           read(p) == [state |-> github[p].state, version |-> github[p].version,
                       requested |-> github[p].requested, left |-> SnapshotAge]
<1>1. /\ watch' = kept
      /\ ready' = {[pr |-> p, backoff |-> kept[p].backoff] : p \in due}
      /\ \/ snapshot' = [p \in PRs |-> IF monitored /\ p \in due THEN read(p) ELSE snapshot[p]]
         \/ UNCHANGED snapshot
      /\ Fault \/ UNCHANGED faults
      /\ UNCHANGED <<outside, rows, deferring, queue, worker>>
  BY DEF Scan
<1>2. UNCHANGED <<github, monitored, events, record, reviewed, deferring, queue, worker>>
  BY <1>1 DEF outside, rows
<1>3. \A p \in PRs : /\ github[p] \in Githubs /\ github[p].version \in Versions
                     /\ 0 <= github[p].version
  BY DEF WatchInv, GithubFits, Githubs, Versions
<1>4. \A p \in PRs : kept[p] \in Entries /\ kept[p].seen <= github[p].version
  <2> TAKE p \in PRs
  <2>1. Fresh(p) \in Entries /\ Fresh(p).seen <= github[p].version
    BY <1>3, FreshFits DEF WatchInv, Versions
  <2>2. NoEntry \in Entries /\ NoEntry.seen <= github[p].version
    BY <1>3, Blank DEF NoEntry
  <2>3. watch[p] \in Entries /\ watch[p].seen <= github[p].version
    BY DEF WatchInv, WatchFits
  <2>4. kept[p] \in {NoEntry, Fresh(p), watch[p]}
    OBVIOUS
  <2> QED
    BY <2>1, <2>2, <2>3, <2>4
<1>5. WatchFits'
  BY <1>1, <1>2, <1>4 DEF WatchFits
<1>6. PollerFits'
  <2>1. \A p \in due : kept[p].backoff \in 1 .. MaxBackoff
    BY <1>4, Bounds DEF Entries
  <2> HIDE DEF kept
  <2> QED
    BY <1>1, <1>2, <2>1 DEF PollerFits, WatchInv, Dispatches
<1>7. CacheFits'
  <2>1. \A p \in PRs : read(p) \in Reads /\ read(p).version <= github[p].version
    BY <1>3, Bounds DEF Reads, Githubs, States, Versions
  <2> HIDE DEF due, read
  <2>2. CASE UNCHANGED snapshot
    BY <1>2, <2>2 DEF WatchInv, CacheFits
  <2>3. CASE snapshot' = [p \in PRs |-> IF monitored /\ p \in due THEN read(p) ELSE snapshot[p]]
    BY <1>2, <2>1, <2>3 DEF WatchInv, CacheFits
  <2> QED
    BY <1>1, <2>2, <2>3
<1>8. GithubFits' /\ RowsFit' /\ QueueFits' /\ WorkersFit'
  BY <1>2 DEF WatchInv, GithubFits, RowsFit, QueueFits, WorkersFit
<1>9. FaultsFit'
  BY <1>1, FaultCounts DEF WatchInv
<1> QED
  BY <1>5, <1>6, <1>7, <1>8, <1>9 DEF WatchInv

\* A message waits or is lost.
LEMMA PublishInv ==
    ASSUME WatchInv, Publish
    PROVE  WatchInv'
<1>1. PICK e \in ready :
        /\ ready' = ready \ {e} /\ deferring' = {e}
        /\ \/ Len(queue) < MaxQueue /\ queue' = Append(queue, e.pr) /\ UNCHANGED faults
           \/ Fault /\ UNCHANGED queue
        /\ UNCHANGED <<github, monitored, events, record, reviewed, watch, snapshot, worker>>
  BY DEF Publish, outside, store, rows
<1>2. e \in Dispatches /\ e.pr \in PRs
  BY DEF WatchInv, PollerFits, Dispatches
<1>3. PollerFits'
  BY <1>1, <1>2 DEF WatchInv, PollerFits
<1>4. QueueFits'
  BY <1>1, <1>2, Bounds DEF WatchInv, QueueFits
<1>5. FaultsFit'
  BY <1>1, FaultCounts DEF WatchInv
<1>6. GithubFits' /\ WatchFits' /\ CacheFits' /\ RowsFit' /\ WorkersFit'
  BY <1>1 DEF WatchInv, GithubFits, WatchFits, CacheFits, RowsFit, WorkersFit
<1> QED
  BY <1>3, <1>4, <1>5, <1>6 DEF WatchInv

\* What was published is put off.
LEMMA DeferInv ==
    ASSUME WatchInv, DeferDispatched
    PROVE  WatchInv'
<1>1. PICK e \in deferring : /\ deferring' = {} /\ Defer(e.pr, e.backoff)
                             /\ UNCHANGED <<github, monitored, events, record, reviewed,
                                            snapshot, ready, queue, worker, faults>>
  BY DEF DeferDispatched, outside, rows
<1>2. e.pr \in PRs /\ e.backoff \in 0 .. MaxBackoff
  BY DEF WatchInv, PollerFits, Dispatches
<1>3. WatchFits'
  BY <1>1, <1>2, Rescheduled DEF WatchInv
<1>4. /\ GithubFits' /\ CacheFits' /\ RowsFit' /\ PollerFits'
      /\ QueueFits' /\ WorkersFit' /\ FaultsFit'
  BY <1>1 DEF WatchInv, GithubFits, CacheFits, RowsFit, PollerFits, QueueFits, WorkersFit,
              FaultsFit
<1> QED
  BY <1>3, <1>4 DEF WatchInv

-----------------------------------------------------------------------------
(* A state check *)

\* The job of w, and a job that goes on.
LEMMA JobOf ==
    ASSUME WorkersFit, NEW w \in Workers
    PROVE  /\ worker[w] \in Jobs /\ worker[w].pr \in PRs
           /\ worker[w].backoff \in 0 .. MaxBackoff
           /\ \A x \in Jobs : [worker EXCEPT ![w] = x] \in [Workers -> Jobs]
           /\ \A pc \in {"idle", "check", "handle", "increase", "write"} :
                 [worker EXCEPT ![w].pc = pc] \in [Workers -> Jobs]
BY DEF WorkersFit, Jobs

\* The head of the queue is a pull request.
LEMMA Message ==
    ASSUME QueueFits, queue # <<>>
    PROVE  /\ Head(queue) \in PRs /\ Tail(queue) \in Seq(PRs)
           /\ Len(Tail(queue)) <= MaxQueue
<1>1. Head(queue) \in PRs /\ Tail(queue) \in Seq(PRs) /\ Len(Tail(queue)) = Len(queue) - 1
  BY DEF QueueFits
<1> QED
  BY <1>1, Bounds DEF QueueFits

\* A worker takes a message, drops it, or forgets what is not monitored.
LEMMA TakeInv ==
    ASSUME WatchInv, NEW w \in Workers, Take(w)
    PROVE  WatchInv'
<1> DEFINE p == Head(queue)
           job(pc) == [Idle EXCEPT !.pc = pc, !.pr = p]
<1>1. /\ queue # <<>> /\ queue' = Tail(queue)
      /\ \/ UNCHANGED <<worker, watch>> /\ Fault
         \/ /\ worker' = [worker EXCEPT ![w] = job("check")]
            /\ UNCHANGED <<watch, faults>>
         \/ /\ worker' = [worker EXCEPT ![w] = job("increase")]
            /\ Delete(p) /\ UNCHANGED faults
      /\ UNCHANGED <<github, monitored, events, record, reviewed, snapshot, ready, deferring>>
  BY DEF Take, outside, rows, poller
<1>2. p \in PRs /\ QueueFits'
  BY <1>1, Message DEF WatchInv, QueueFits
<1>3. job("check") \in Jobs /\ job("increase") \in Jobs
  BY <1>2, Blank DEF Jobs
<1> HIDE DEF p, job
<1>4. WorkersFit'
  BY <1>1, <1>3, JobOf DEF WatchInv, WorkersFit
<1>5. WatchFits'
  <2>1. CASE UNCHANGED watch
    BY <1>1, <2>1 DEF WatchInv, WatchFits
  <2>2. CASE Delete(p)
    BY <1>1, <1>2, <2>2, Enrolled DEF WatchInv
  <2> QED
    BY <1>1, <2>1, <2>2
<1>6. FaultsFit'
  BY <1>1, FaultCounts DEF WatchInv
<1>7. GithubFits' /\ CacheFits' /\ RowsFit' /\ PollerFits'
  BY <1>1 DEF WatchInv, GithubFits, CacheFits, RowsFit, PollerFits
<1> QED
  BY <1>2, <1>4, <1>5, <1>6, <1>7 DEF WatchInv

\* A check answers, or fails.
LEMMA CheckInv ==
    ASSUME WatchInv, NEW w \in Workers, CheckItem(w)
    PROVE  WatchInv'
<1> DEFINE p == worker[w].pr
           done(pc) == worker' = [worker EXCEPT ![w].pc = pc, ![w].answered = TRUE]
<1>1. /\ \/ Goto(w, "increase") \/ done("increase") \/ done("handle")
      /\ UNCHANGED watch \/ Delete(p)
      /\ UNCHANGED record \/ MarkClosed(p)
      /\ Fault \/ UNCHANGED faults
      /\ UNCHANGED <<github, monitored, events, reviewed, snapshot, ready, deferring, queue>>
  BY DEF CheckItem, outside, poller
<1>2. /\ p \in PRs /\ WorkersFit /\ RowsFit /\ GithubFits /\ WatchFits /\ FaultsFit
  BY JobOf DEF WatchInv
<1>3. WorkersFit'
  BY <1>1, <1>2 DEF WorkersFit, Jobs, Goto
<1>4. WatchFits'
  <2>1. CASE UNCHANGED watch
    BY <1>1, <1>2, <2>1 DEF WatchFits
  <2>2. CASE Delete(p)
    BY <1>1, <1>2, <2>2, Enrolled
  <2> QED
    BY <1>1, <2>1, <2>2
<1>5. RowsFit'
  BY <1>1, <1>2 DEF RowsFit, MarkClosed
<1>6. FaultsFit'
  BY <1>1, <1>2, FaultCounts
<1>7. GithubFits' /\ CacheFits' /\ PollerFits' /\ QueueFits'
  BY <1>1 DEF WatchInv, GithubFits, CacheFits, PollerFits, QueueFits
<1> QED
  BY <1>3, <1>4, <1>5, <1>6, <1>7 DEF WatchInv

\* A review, or none, and a new enrolment.
LEMMA HandleInv ==
    ASSUME WatchInv, NEW w \in Workers, HandleChange(w)
    PROVE  WatchInv'
<1> DEFINE p == worker[w].pr
<1>1. /\ worker' = [worker EXCEPT ![w] = Idle] \/ Goto(w, "increase")
      /\ UNCHANGED watch \/ ResetBackoff(p) \/ Enroll(p)
      /\ UNCHANGED record \/ Record(p)
      /\ UNCHANGED reviewed \/ \E made \in BOOLEAN : Store(p, made)
      /\ Fault \/ UNCHANGED faults
      /\ UNCHANGED <<github, monitored, events, snapshot, ready, deferring, queue>>
  BY DEF HandleChange, outside, poller, rows, store
<1>2. /\ p \in PRs /\ WorkersFit /\ RowsFit /\ GithubFits /\ WatchFits /\ FaultsFit
  BY JobOf DEF WatchInv
<1>3. WorkersFit'
  <2>1. CASE Goto(w, "increase")
    BY <1>2, <2>1, JobOf DEF WorkersFit, Goto
  <2>2. CASE worker' = [worker EXCEPT ![w] = Idle]
    BY <1>2, <2>2, Blank, JobOf DEF WorkersFit
  <2> QED
    BY <1>1, <2>1, <2>2
<1>4. WatchFits'
  <2>1. CASE UNCHANGED watch
    BY <1>1, <1>2, <2>1 DEF WatchFits
  <2>2. CASE ResetBackoff(p) \/ Enroll(p)
    BY <1>1, <1>2, <2>2, Enrolled
  <2> QED
    BY <1>1, <2>1, <2>2
<1>5. record' \in [PRs -> {"none", "open", "closed"}]
  BY <1>1, <1>2 DEF RowsFit, Record
<1>6. reviewed' \in [PRs -> BOOLEAN]
  BY <1>1, <1>2 DEF RowsFit, Store
<1>7. FaultsFit'
  BY <1>1, <1>2, FaultCounts
<1>8. GithubFits' /\ CacheFits' /\ PollerFits' /\ QueueFits' /\ monitored' \in BOOLEAN
  BY <1>1 DEF WatchInv, GithubFits, CacheFits, PollerFits, QueueFits, RowsFit
<1> QED
  BY <1>3, <1>4, <1>5, <1>6, <1>7, <1>8 DEF WatchInv, RowsFit

\* The backoff is read and doubled,
LEMMA IncreaseReadInv ==
    ASSUME WatchInv, NEW w \in Workers, IncreaseRead(w)
    PROVE  WatchInv'
<1> DEFINE p == worker[w].pr
           x == [worker[w] EXCEPT !.pc = "write", !.answered = FALSE,
                                  !.backoff = Doubled(watch[p].backoff)]
<1>1. /\ worker' = [worker EXCEPT ![w] = IF Watched(p) THEN x ELSE Idle]
      /\ UNCHANGED <<github, monitored, events, record, reviewed, watch, snapshot, ready,
                     deferring, queue, faults>>
  BY DEF IncreaseRead, outside, poller, rows, store, WatchInv, WorkersFit
<1>2. p \in PRs /\ worker[w] \in Jobs /\ watch[p].backoff \in 0 .. MaxBackoff
  BY JobOf DEF WatchInv, WatchFits, Entries
<1>3. ASSUME Watched(p)
      PROVE  x \in Jobs
  <2>1. watch[p].backoff \in 1 .. MaxBackoff
    BY <1>2, <1>3, Bounds DEF Watched
  <2>2. Doubled(watch[p].backoff) \in 0 .. MaxBackoff
    BY <2>1, DoubledFits, Bounds
  <2> QED
    BY <1>2, <2>2 DEF Jobs
<1> HIDE DEF x
<1>4. WorkersFit'
  BY <1>1, <1>3, Blank, JobOf DEF WatchInv, WorkersFit
<1> QED
  BY <1>1, <1>4 DEF WatchInv, GithubFits, WatchFits, CacheFits, RowsFit, PollerFits, QueueFits,
                    FaultsFit

\* and written, whatever the entry has become.
LEMMA IncreaseWriteInv ==
    ASSUME WatchInv, NEW w \in Workers, IncreaseWrite(w)
    PROVE  WatchInv'
<1>1. /\ Reschedule(worker[w].pr, worker[w].backoff)
      /\ worker' = [worker EXCEPT ![w] = Idle]
      /\ UNCHANGED <<github, monitored, events, record, reviewed, snapshot, ready, deferring,
                     queue, faults>>
  BY DEF IncreaseWrite, outside, poller, rows
<1>2. worker[w].pr \in PRs /\ worker[w].backoff \in 0 .. MaxBackoff
  BY JobOf DEF WatchInv
<1>3. WatchFits'
  BY <1>1, <1>2, Rescheduled DEF WatchInv
<1>4. WorkersFit'
  BY <1>1, Blank, JobOf DEF WatchInv, WorkersFit
<1> QED
  BY <1>1, <1>3, <1>4 DEF WatchInv, GithubFits, CacheFits, RowsFit, PollerFits, QueueFits,
                          FaultsFit

-----------------------------------------------------------------------------
(* The other paths *)

\* A review ends.
LEMMA ReviewDoneInv ==
    ASSUME WatchInv, NEW p \in PRs, NEW made \in BOOLEAN, ReviewDone(p, made)
    PROVE  WatchInv'
<1>1. /\ Enroll(p) \/ EnrollIfAbsent(p)
      /\ Store(p, made) /\ (Record(p) \/ UNCHANGED record)
      /\ Fault \/ UNCHANGED faults
      /\ Event \/ UNCHANGED events
      /\ UNCHANGED <<github, monitored, snapshot, ready, deferring, queue, worker>>
  BY DEF ReviewDone, poller, EnrollAfterReview
<1>2. WatchFits'
  BY <1>1, Enrolled DEF WatchInv
<1>3. RowsFit'
  BY <1>1 DEF WatchInv, RowsFit, Store, Record
<1>4. FaultsFit'
  BY <1>1, FaultCounts DEF WatchInv
<1>5. GithubFits'
  <2>1. \A q \in PRs : github[q].version \in Nat
    BY Bounds DEF WatchInv, GithubFits, Githubs, Versions
  <2>2. events \in Nat /\ events' \in 0 .. MaxEvents /\ events <= events'
    BY <1>1, Bounds DEF WatchInv, GithubFits, Event
  <2>3. \A q \in PRs : github[q].version <= events' + 1
    BY <2>1, <2>2 DEF WatchInv, GithubFits
  <2> QED
    BY <1>1, <2>2, <2>3 DEF WatchInv, GithubFits
<1> QED
  BY <1>1, <1>2, <1>3, <1>4, <1>5
     DEF WatchInv, CacheFits, PollerFits, QueueFits, WorkersFit

\* A pull request is updated: what was seen stays in the past.
LEMMA GitHubUpdateInv ==
    ASSUME WatchInv, NEW p \in PRs, GitHubUpdate(p)
    PROVE  WatchInv'
<1> DEFINE x == github'[p]
<1>1. /\ Event
      /\ \/ \E state \in States :
               github' = [github EXCEPT ![p].state = state, ![p].version = @ + 1]
         \/ \E requested \in BOOLEAN :
               github' = [github EXCEPT ![p].requested = requested, ![p].version = @ + 1]
      /\ UNCHANGED <<record, reviewed, watch, monitored, snapshot, ready, deferring, queue,
                     worker, faults>>
  BY DEF GitHubUpdate, store, rows, poller, States
<1>2. /\ events \in Nat /\ events' = events + 1 /\ events' <= MaxEvents
      /\ \A q \in PRs : /\ github[q] \in Githubs /\ github[q].version \in Nat
                        /\ github[q].version <= events + 1
  BY <1>1, Bounds DEF WatchInv, GithubFits, Githubs, Versions, Event
<1>3. /\ x.version = github[p].version + 1
      /\ \A q \in PRs : q # p => github'[q] = github[q]
  BY <1>1 DEF WatchInv, GithubFits, Githubs
<1>4. github[p].version + 1 \in Versions
  BY <1>2, Bounds DEF Versions
<1>5. x \in Githubs /\ github' \in [PRs -> Githubs]
  <2>1. github \in [PRs -> Githubs]
    BY DEF WatchInv, GithubFits
  <2>2. ASSUME NEW state \in States,
               github' = [github EXCEPT ![p].state = state, ![p].version = @ + 1]
        PROVE  x \in Githubs
    BY <1>4, <2>1, <2>2 DEF Githubs
  <2>3. ASSUME NEW requested \in BOOLEAN,
               github' = [github EXCEPT ![p].requested = requested, ![p].version = @ + 1]
        PROVE  x \in Githubs
    BY <1>4, <2>1, <2>3 DEF Githubs
  <2>4. x \in Githubs
    BY <1>1, <2>2, <2>3
  <2>5. DOMAIN github' = PRs /\ github' = [q \in PRs |-> github'[q]]
    BY <1>1, <2>1
  <2> QED
    BY <1>3, <2>1, <2>4, <2>5
<1> HIDE DEF x
<1>6. \A q \in PRs : /\ github'[q].version \in Nat /\ github'[q].version <= events' + 1
                     /\ github[q].version <= github'[q].version
  BY <1>2, <1>3 DEF x
<1>7. GithubFits'
  BY <1>2, <1>5, <1>6, Bounds DEF GithubFits
<1>8. \A q \in PRs : watch[q].seen \in Nat /\ snapshot[q].version \in Nat
  BY Bounds DEF WatchInv, WatchFits, CacheFits, Entries, Reads, Versions
<1>9. WatchFits' /\ CacheFits'
  BY <1>1, <1>2, <1>6, <1>8 DEF WatchInv, WatchFits, CacheFits
<1> QED
  BY <1>1, <1>7, <1>9 DEF WatchInv, RowsFit, PollerFits, QueueFits, WorkersFit, FaultsFit

\* The operator starts or stops to monitor.
LEMMA ToggleInv ==
    ASSUME WatchInv, ToggleMonitored
    PROVE  WatchInv'
<1>1. /\ Event /\ monitored' \in BOOLEAN
      /\ UNCHANGED <<github, record, reviewed, watch, snapshot, ready, deferring, queue, worker,
                     faults>>
  BY DEF ToggleMonitored, store, rows, poller, WatchInv, RowsFit
<1>2. GithubFits'
  <2>1. \A q \in PRs : github[q].version \in Nat
    BY Bounds DEF WatchInv, GithubFits, Githubs, Versions
  <2>2. events \in Nat /\ events' \in 0 .. MaxEvents /\ events <= events'
    BY <1>1, Bounds DEF WatchInv, GithubFits, Event
  <2>3. \A q \in PRs : github[q].version <= events' + 1
    BY <2>1, <2>2 DEF WatchInv, GithubFits
  <2> QED
    BY <1>1, <2>2, <2>3 DEF WatchInv, GithubFits
<1> QED
  BY <1>1, <1>2
     DEF WatchInv, WatchFits, CacheFits, RowsFit, PollerFits, QueueFits, WorkersFit, FaultsFit

\* Time brings entries nearer, ages them and empties the cache.
LEMMA TickInv ==
    ASSUME WatchInv, Tick
    PROVE  WatchInv'
<1> DEFINE e(p) == [watch[p] EXCEPT !.due = IF @ > 0 THEN @ - 1 ELSE @,
                                    !.age = IF record[p] = "open" THEN 0
                                            ELSE Min({@ + 1, EvictAfter})]
           s(p) == [snapshot[p] EXCEPT !.left = @ - 1]
<1>1. /\ watch' = [p \in PRs |-> IF Watched(p) THEN e(p) ELSE NoEntry]
      /\ snapshot' = [p \in PRs |-> IF snapshot[p].left = 0 THEN NoSnapshot ELSE s(p)]
      /\ UNCHANGED <<github, monitored, events, record, reviewed, ready, deferring, queue,
                     worker, faults>>
  BY DEF Tick, outside, rows, poller
<1>2. \A p \in PRs : github[p].version \in Nat
  BY Bounds DEF WatchInv, GithubFits, Githubs, Versions
<1>3. \A p \in PRs : e(p) \in Entries /\ e(p).seen <= github[p].version
  <2> TAKE p \in PRs
  <2>1. /\ watch[p] \in Entries /\ watch[p].seen <= github[p].version
        /\ watch[p].due \in 0 .. MaxBackoff /\ watch[p].age \in 0 .. EvictAfter
    BY DEF WatchInv, WatchFits, Entries
  <2> DEFINE d == IF watch[p].due > 0 THEN watch[p].due - 1 ELSE watch[p].due
             a == IF record[p] = "open" THEN 0 ELSE Min({watch[p].age + 1, EvictAfter})
  <2>2. d \in 0 .. MaxBackoff
    BY <2>1, Bounds
  <2>3. a \in 0 .. EvictAfter
    BY <2>1, Aged, Bounds
  <2>4. e(p) = [watch[p] EXCEPT !.due = d, !.age = a]
    BY <2>1 DEF Entries
  <2> HIDE DEF d, a, e
  <2> QED
    BY <2>1, <2>2, <2>3, <2>4 DEF Entries
<1>4. \A p \in PRs : snapshot[p].left # 0 =>
                        s(p) \in Reads /\ s(p).version <= github[p].version
  <2> SUFFICES ASSUME NEW p \in PRs, snapshot[p].left # 0
               PROVE  s(p) \in Reads /\ s(p).version <= github[p].version
    OBVIOUS
  <2>1. /\ snapshot[p] \in Reads /\ snapshot[p].version <= github[p].version
        /\ snapshot[p].left - 1 \in 0 .. SnapshotAge
    BY Bounds DEF WatchInv, CacheFits, Reads
  <2> QED
    BY <2>1 DEF Reads
<1> HIDE DEF e, s
<1>5. /\ NoEntry \in Entries /\ NoEntry.seen = 0
      /\ NoSnapshot \in Reads /\ NoSnapshot.version = 0
  BY Blank DEF NoEntry, NoSnapshot
<1>6. WatchFits'
  BY <1>1, <1>2, <1>3, <1>5 DEF WatchFits
<1>7. CacheFits'
  BY <1>1, <1>2, <1>4, <1>5 DEF CacheFits
<1> QED
  BY <1>1, <1>6, <1>7
     DEF WatchInv, GithubFits, RowsFit, PollerFits, QueueFits, WorkersFit, FaultsFit

-----------------------------------------------------------------------------
(* The invariant is one *)

\* It holds in the beginning
LEMMA InitWatch == Init => WatchInv
<1> SUFFICES ASSUME Init
             PROVE  WatchInv
  OBVIOUS
<1>1. /\ github \in [PRs -> [state : {"open"}, version : {1}, requested : BOOLEAN]]
      /\ record \in [PRs -> {"none", "open"}] /\ reviewed \in [PRs -> BOOLEAN]
      /\ monitored = TRUE
      /\ watch = [p \in PRs |-> NoEntry] /\ snapshot = [p \in PRs |-> NoSnapshot]
      /\ ready = {} /\ deferring = {} /\ queue = <<>>
      /\ worker = [w \in Workers |-> Idle] /\ events = 0 /\ faults = 0
  BY DEF Init
<1>2. 1 \in Versions
  BY Bounds DEF Versions
<1>3. GithubFits /\ \A p \in PRs : github[p].version = 1
  BY <1>1, <1>2, Bounds DEF GithubFits, Githubs, States
<1>4. /\ NoEntry \in Entries /\ NoEntry.seen = 0
      /\ NoSnapshot \in Reads /\ NoSnapshot.version = 0 /\ Idle \in Jobs
  BY Blank DEF NoEntry, NoSnapshot
<1>5. WatchFits /\ CacheFits /\ WorkersFit
  BY <1>1, <1>3, <1>4 DEF WatchFits, CacheFits, WorkersFit
<1>6. RowsFit /\ PollerFits /\ FaultsFit /\ QueueFits
  BY <1>1, Bounds DEF RowsFit, PollerFits, FaultsFit, QueueFits
<1> QED
  BY <1>3, <1>5, <1>6 DEF WatchInv

\* and every step keeps it.
LEMMA NextWatch == WatchInv /\ [Next]_vars => WatchInv'
<1> SUFFICES ASSUME WatchInv, [Next]_vars
             PROVE  WatchInv'
  OBVIOUS
<1>1. CASE PollerStep
  BY <1>1, ScanInv, PublishInv, DeferInv DEF PollerStep
<1>2. CASE CheckStep
  BY <1>2, TakeInv, CheckInv, HandleInv, IncreaseReadInv, IncreaseWriteInv
     DEF CheckStep, WorkerStep
<1>3. ASSUME NEW p \in PRs, NEW made \in BOOLEAN, ReviewDone(p, made)
      PROVE  WatchInv'
  BY <1>3, ReviewDoneInv
<1>4. ASSUME NEW p \in PRs, GitHubUpdate(p)
      PROVE  WatchInv'
  BY <1>4, GitHubUpdateInv
<1>5. CASE ToggleMonitored \/ Tick
  BY <1>5, ToggleInv, TickInv
<1>6. CASE UNCHANGED vars
  BY <1>6 DEF vars, WatchInv, GithubFits, WatchFits, CacheFits, RowsFit, PollerFits, QueueFits,
              WorkersFit, FaultsFit
<1> QED
  BY <1>1, <1>2, <1>3, <1>4, <1>5, <1>6 DEF Next

\* The inductive invariant of the watch list holds in every reachable state.
THEOREM WatchInvariance == Spec => []WatchInv
<1>1. Init => WatchInv
  BY InitWatch
<1>2. WatchInv /\ [Next]_vars => WatchInv'
  BY NextWatch
<1> QED
  BY <1>1, <1>2, PTL DEF Spec

-----------------------------------------------------------------------------
(* What it implies *)

\* Type correctness: in particular the next check of a watched pull request is
\* never further off than MaxBackoff, whichever of the writes came last.
THEOREM TypeCorrect == Spec => []TypeOK
<1>1. WatchInv => TypeOK
  <2> SUFFICES ASSUME WatchInv
               PROVE  TypeOK
    OBVIOUS
  <2>1. ready \cup deferring \subseteq [pr : PRs, backoff : 1 .. MaxBackoff]
    BY DEF WatchInv, PollerFits, Dispatches
  <2>2. snapshot \in [PRs -> [state : {"none", "open", "closed", "gone"}, version : Versions,
                              requested : BOOLEAN, left : 0 .. SnapshotAge]]
    <3>1. {"none"} \cup States = {"none", "open", "closed", "gone"}
      BY DEF States
    <3> QED
      BY <3>1 DEF WatchInv, CacheFits, Reads
  <2> QED
    BY <2>1, <2>2 DEF WatchInv, TypeOK, GithubFits, WatchFits, RowsFit, QueueFits, WorkersFit,
                      FaultsFit, Githubs, States, Entries, Jobs
<1> QED
  BY <1>1, WatchInvariance, PTL

\* Neither the table nor the cache of the client is ahead of GitHub, so that an
\* update that is still to come is newer than both (watch.go, last_seen).
SeenHappened ==
    \A p \in PRs : /\ watch[p].seen <= github[p].version
                   /\ snapshot[p].version <= github[p].version

\* An update that has not happened is never taken for one that was seen.
THEOREM NothingSeenAhead == Spec => []SeenHappened
<1>1. WatchInv => SeenHappened
  BY DEF WatchInv, WatchFits, CacheFits, SeenHappened
<1> QED
  BY <1>1, WatchInvariance, PTL
=============================================================================
