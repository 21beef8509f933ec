--------------------------- MODULE SpendingLimits ---------------------------
(***************************************************************************)
(* What keeps reviews from spending without bound: the review budget       *)
(* (pipeline/review_budget.go), the circuit breaker                        *)
(* (store/circuitbreaker.go), the cooldown of a failing commit             *)
(* (store/review_retry_backoff.go) and the reservations of a repository    *)
(* (store/review_retry_attempts.go), around runs of Pipeline.Run           *)
(* (pipeline/pipeline.go:1239-1633) that overlap, fail, fall back to       *)
(* another agent and die.  One repository; a commit stands for the pair of *)
(* a pull request and its head.                                            *)
(***************************************************************************)
EXTENDS Integers, Sequences, FiniteSets, SequencesExt, FiniteSetsExt

CONSTANTS
    Commits,                \* pull request heads
    Agents,                 \* agents that can be installed
    Flow,                   \* the candidates of a review, in order
    Workers,                \* how many runs may be in progress at once
    BudgetLimit, BudgetWindow,      \* a budget whose scope is the repository
    AgentLimit, AgentWindow,        \* the budget of each agent; 0: none
    CommitCap, CommitWindow,        \* CircuitBreakerLimits.PerPR24h
    RepoCap, RepoWindow,            \* CircuitBreakerLimits.PerRepoHr
    FailureLimit, FailureWindow,    \* reviewRetryRepoHourlyLimit
    BaseDelay, MaxDelay,    \* reviewRetryBaseDelay, reviewRetryMaxDelay
    Retention,              \* reviewRetryMaxAge
    MaxTime, MaxRuns,       \* bounds of the exploration
    MaxTroubles             \* forced runs and faults of one behaviour

ASSUME LimitsAssumption ==
    /\ Flow \in Seq(Agents) /\ Flow # <<>> /\ IsInjective(Flow)
    /\ AgentLimit \in [Agents -> Nat]
    /\ {Workers, BudgetLimit, BudgetWindow, AgentWindow, CommitCap, CommitWindow,
        RepoCap, RepoWindow, FailureLimit, FailureWindow, BaseDelay, MaxDelay,
        Retention, MaxTime, MaxRuns, MaxTroubles} \subseteq Nat
    /\ BaseDelay <= MaxDelay /\ MaxDelay < Retention /\ FailureWindow < Retention

VARIABLES
    now,            \* the wall clock
    reviews,        \* table reviews: rows of runs that were stored
    cooldown,       \* table review_retry_backoff, by commit
    attempts,       \* table review_retry_attempts
    pending,        \* reviewBudget.pending: tickets of runs in progress
    runs,           \* every run of the pipeline, in order of admission
    faults          \* writes that have failed so far

vars == <<now, reviews, cooldown, attempts, pending, runs, faults>>

NoRow == [count |-> 0, last |-> 0, active |-> FALSE]

(* Where a run stands; a dead one had started an agent when the daemon died. *)
BeforeAgents == {"select", "check", "reserve"}
Ended == {"deferred", "stored", "failed", "dead"}
Steps == BeforeAgents \cup {"execute", "settle", "mark"}

Runs == [pc : Steps \cup Ended, commit : Commits, force : BOOLEAN,
         start : 0 .. MaxTime, prior : 0 .. MaxRuns, agents : Seq(Agents)]

InProgress == {n \in DOMAIN runs : runs[n].pc \notin Ended}
Agent(n) == Head(runs[n].agents)
Troubles == faults + Cardinality({n \in DOMAIN runs : runs[n].force})
Stored(n) == \E r \in reviews : r.run = n

TypeOK ==
    /\ now \in 0 .. MaxTime
    /\ reviews \subseteq [run : DOMAIN runs, commit : Commits,
                          cli : Agents, at : 0 .. MaxTime]
    /\ cooldown \in [Commits -> [count : 0 .. MaxRuns, last : 0 .. MaxTime,
                                 active : BOOLEAN]]
    /\ attempts \subseteq [run : DOMAIN runs, at : 0 .. MaxTime]
    /\ pending \subseteq [run : InProgress, cli : Agents \cup {"none"},
                          at : 0 .. MaxTime]
    /\ runs \in Seq(Runs)
    /\ faults \in 0 .. MaxTroubles

Init ==
    /\ now = 0
    /\ reviews = {}
    /\ cooldown = [c \in Commits |-> NoRow]
    /\ attempts = {}
    /\ pending = {}
    /\ runs = <<>>
    /\ faults = 0

Goto(n, pc) == runs' = [runs EXCEPT ![n].pc = pc]

(* What an ended run knew is forgotten; its times are kept for the properties. *)
Over(run, pc) ==
    [run EXCEPT !.pc = pc, !.agents = Flow, !.prior = 0,
                !.start = IF pc = "deferred" THEN 0 ELSE @]
End(n, pc) == runs' = [runs EXCEPT ![n] = Over(@, pc)]

Within(at, time, window) == at >= time - window

-----------------------------------------------------------------------------
(* The budget, under reviewBudget.mu *)

\* Mutant: forgets the reviews that are still running.
RepoSpendStored(n) ==
    Cardinality({r \in reviews : Within(r.at, now, BudgetWindow)})

(* What counts against the budget of the repository and of an agent: the   *)
(* stored rows and the tickets of the others.                              *)
RepoSpend(n) ==
    Cardinality({r \in reviews : Within(r.at, now, BudgetWindow)})
    + Cardinality({t \in pending : t.run # n /\ Within(t.at, now, BudgetWindow)})

AgentSpend(n, cli) ==
    Cardinality({r \in reviews : r.cli = cli /\ Within(r.at, now, AgentWindow)})
    + Cardinality({t \in pending : /\ t.run # n /\ t.cli = cli
                                   /\ Within(t.at, now, AgentWindow)})

\* Mutant: off by one.
FitsOneMore(n, cli) == AgentLimit[cli] > 0 => AgentSpend(n, cli) <= AgentLimit[cli]

Fits(n, cli) == AgentLimit[cli] > 0 => AgentSpend(n, cli) < AgentLimit[cli]

Charge(n, cli) ==
    pending' = {IF t.run = n THEN [t EXCEPT !.cli = cli] ELSE t : t \in pending}

\* Mutant: a ticket outlives its run.
KeepTicket(n) == n \in DOMAIN runs /\ UNCHANGED pending

ReleaseTicket(n) == pending' = {t \in pending : t.run # n}

\* Mutant: only runs that have started an agent hold the claim.
ClaimedLate(c) ==
    \E n \in InProgress : runs[n].commit = c /\ runs[n].pc \notin BeforeAgents

(* A run of this commit is in progress: its in-flight claim is held. *)
Claimed(c) == \E n \in InProgress : runs[n].commit = c

(* A run that survived the dedup gates asks for a slot.  One that is      *)
(* deferred here has done nothing yet.                                    *)
Admit(c, force) ==
    LET n == Len(runs) + 1
    IN  /\ n <= MaxRuns
        /\ Cardinality(InProgress) < Workers
        /\ ~ Claimed(c)
        /\ force => Troubles < MaxTroubles
        /\ force \/ BudgetLimit = 0 \/ RepoSpend(n) < BudgetLimit
        /\ runs' = Append(runs, [pc |-> "select", commit |-> c, force |-> force,
                                 start |-> now, prior |-> 0, agents |-> Flow])
        /\ pending' = pending \cup {[run |-> n, cli |-> "none", at |-> now]}
        /\ UNCHANGED <<now, reviews, cooldown, attempts, faults>>

(* A deferral: nothing was spent, the slot is free again. *)
Deferred(n) == End(n, "deferred") /\ ReleaseTicket(n)

(* The agents with room in their budget, in the order of the flow. *)
Usable(n) ==
    LET passed[i \in 0 .. Len(Flow)] ==
            IF i = 0 THEN <<>>
            ELSE IF runs[n].force \/ Fits(n, Flow[i])
                 THEN Append(passed[i - 1], Flow[i])
                 ELSE passed[i - 1]
    IN  passed[Len(Flow)]

(* The look charges nobody. *)
SelectCLIs(n) ==
    LET usable == Usable(n)
    IN  /\ runs[n].pc = "select"
        /\ IF usable = <<>>
           THEN Deferred(n)
           ELSE /\ runs' = [runs EXCEPT ![n].pc = "check",
                                        ![n].agents = usable]
                /\ UNCHANGED pending
        /\ UNCHANGED <<now, reviews, cooldown, attempts, faults>>

-----------------------------------------------------------------------------
(* The breaker, the cooldown and the reservation *)

\* Mutant: counts the commit's reviews only.
TrippedByCommit(c) ==
    CommitCap <= Cardinality({r \in reviews : r.commit = c})

Tripped(c) ==
    \/ /\ CommitCap > 0
       /\ CommitCap <= Cardinality({r \in reviews : /\ r.commit = c
                                          /\ Within(r.at, now, CommitWindow)})
    \/ /\ RepoCap > 0
       /\ RepoCap <= Cardinality({r \in reviews : Within(r.at, now, RepoWindow)})

(* reviewRetryDelay: doubled per failed attempt up to the maximum. *)
RetryDelay(count) ==
    LET delay[k \in 1 .. MaxRuns + 1] ==
            IF k = 1 THEN BaseDelay
            ELSE IF delay[k - 1] >= MaxDelay \div 2 THEN MaxDelay
            ELSE 2 * delay[k - 1]
    IN  IF count = 0 THEN 0 ELSE delay[count]

CoolingDown(c) == now < cooldown[c].last + RetryDelay(cooldown[c].count)

(* CheckCircuitBreaker, stopIfRepoBecameIneligible (the operator may have  *)
(* stopped monitoring the repository), CheckReviewRetryBackoff: only runs  *)
(* of this commit write its cooldown, so the three are one step.           *)
Check(n) ==
    LET c == runs[n].commit
        waits == ~ runs[n].force /\ (Tripped(c) \/ CoolingDown(c))
    IN  /\ runs[n].pc = "check"
        /\ \/ Deferred(n)
           \/ /\ ~ waits
              /\ runs' = [runs EXCEPT
                     ![n].pc = "reserve",
                     ![n].prior = IF runs[n].force THEN 0 ELSE cooldown[c].count]
              /\ UNCHANGED pending
        /\ UNCHANGED <<now, reviews, cooldown, attempts, faults>>

\* Mutant: counts failures, not executions in flight.
FailedAttempts(start) ==
    {a \in attempts : /\ Within(a.at, start, FailureWindow)
                      /\ runs[a.run].pc \in Ended}

RecentAttempts(start) == {a \in attempts : Within(a.at, start, FailureWindow)}

RotatedBy(list, k) == SubSeq(list, k + 1, Len(list)) \o SubSeq(list, 1, k)

(* An automatic retry starts further down the flow, if that agent has room. *)
Rotate(n) ==
    LET agents == runs[n].agents
        k == runs[n].prior % Len(agents)
        rotated == RotatedBy(agents, k)
    IN  IF k > 0 /\ Fits(n, Head(rotated))
        THEN /\ runs' = [runs EXCEPT ![n].pc = "execute", ![n].agents = rotated]
             /\ Charge(n, Head(rotated))
        ELSE Goto(n, "execute") /\ UNCHANGED pending

\* Mutant: leaves the cooldown to the failure.
AdvanceNothing(n) == n \in DOMAIN runs /\ UNCHANGED cooldown

AdvanceRetryBackoff(n) ==
    cooldown' = [cooldown EXCEPT ![runs[n].commit] =
        [count |-> @.count + 1, last |-> runs[n].start, active |-> TRUE]]

(* One transaction on the only connection; a forced run records itself and *)
(* is not limited.  Then the cooldown is armed, which only runs of this    *)
(* commit look at, and the first agent chosen.                             *)
ReserveRetryAttempt(n) ==
    LET start == runs[n].start
        blocked == /\ ~ runs[n].force
                   /\ Cardinality(RecentAttempts(start)) >= FailureLimit
    IN  /\ runs[n].pc = "reserve"
        /\ \/ blocked /\ Deferred(n) /\ UNCHANGED <<attempts, cooldown>>
           \/ /\ ~ blocked
              /\ attempts' = attempts \cup {[run |-> n, at |-> start]}
              /\ AdvanceRetryBackoff(n) /\ Rotate(n)
        /\ UNCHANGED <<now, reviews, faults>>

-----------------------------------------------------------------------------
(* The agents *)

Fails == Troubles < MaxTroubles /\ faults' = faults + 1
Works == UNCHANGED faults

(* The agent has produced a review and the store takes it. *)
InsertReview(n) ==
    /\ runs[n].pc = "execute"
    /\ reviews' = reviews \cup {[run |-> n, commit |-> runs[n].commit,
                                 cli |-> Agent(n), at |-> now]}
    /\ Goto(n, "settle")
    /\ UNCHANGED <<now, cooldown, attempts, pending, faults>>

(* Spent quota always moves on to the next agent; any other failure only   *)
(* on a first or a forced run; a cancelled execution, or a result the      *)
(* store refuses ("final"), never.                                         *)
HandsOff(n, kind) ==
    /\ kind # "final"
    /\ kind = "quota" \/ runs[n].force \/ runs[n].prior = 0
    /\ Len(runs[n].agents) > 1

(* The next agent runs if its own budget has not filled up meanwhile. *)
ExecuteFails(n, kind) ==
    LET next == runs[n].agents[2]
        handOff == HandsOff(n, kind) /\ (runs[n].force \/ Fits(n, next))
    IN  /\ runs[n].pc = "execute"
        /\ \/ /\ handOff
              /\ runs' = [runs EXCEPT ![n].agents = Tail(@)]
              /\ IF Fits(n, next) THEN Charge(n, next) ELSE UNCHANGED pending
           \/ ~ handOff /\ Goto(n, "mark") /\ UNCHANGED pending
        /\ UNCHANGED <<now, reviews, cooldown, attempts, faults>>

-----------------------------------------------------------------------------
(* The end of a run.  The writes and the release of the ticket touch       *)
(* different state, of which nobody else looks at more than one part.      *)

(* ClearReviewRetryBackoff, ClearReviewRetryAttempt: either may fail. *)
ClearRetry(n) ==
    LET c == runs[n].commit
        cleared == [cooldown EXCEPT ![c] = NoRow]
        without == {a \in attempts : a.run # n}
    IN  /\ runs[n].pc = "settle"
        /\ \/ cooldown' = cleared /\ attempts' = without /\ Works
           \/ cooldown' = cleared /\ UNCHANGED attempts /\ Fails
           \/ UNCHANGED cooldown /\ attempts' = without /\ Fails
        /\ End(n, "stored") /\ ReleaseTicket(n)
        /\ UNCHANGED <<now, reviews>>

(* The deferred calls of a run that returns without a stored review; its   *)
(* row may have been pruned while the agent ran.                           *)
MarkRetryFailure(n) ==
    LET c == runs[n].commit
    IN  /\ runs[n].pc = "mark"
        /\ \/ /\ Works
              /\ cooldown' = [cooldown EXCEPT ![c] =
                     IF @.count = 0 THEN @
                     ELSE [@ EXCEPT !.last = now, !.active = FALSE]]
           \/ Fails /\ UNCHANGED cooldown
        /\ End(n, "failed") /\ ReleaseTicket(n)
        /\ UNCHANGED <<now, reviews, attempts>>

-----------------------------------------------------------------------------
(* The sweep, time and restarts *)

(* Both tables, every five minutes. *)
Prune ==
    LET old(at) == at < now - Retention
    IN  /\ \/ \E c \in Commits : cooldown[c].count > 0 /\ old(cooldown[c].last)
           \/ \E a \in attempts : old(a.at)
        /\ cooldown' = [c \in Commits |-> IF old(cooldown[c].last) THEN NoRow
                                                            ELSE cooldown[c]]
        /\ attempts' = {a \in attempts : ~ old(a.at)}
        /\ UNCHANGED <<now, reviews, pending, runs, faults>>

(* The unit of time is the base delay, which only an agent takes: a run    *)
(* gets its slot and its agent at one time.                                *)
Prompt == \A n \in InProgress : runs[n].pc = "execute"

Tick ==
    /\ now < MaxTime /\ Prompt
    /\ now' = now + 1
    /\ UNCHANGED <<reviews, cooldown, attempts, pending, runs, faults>>

(* Death and restart: the tickets are memory, no execution survives.  A    *)
(* run that had stored its review has done so.                             *)
Crash ==
    LET over(n) == CASE runs[n].pc \in Ended -> runs[n].pc
                     [] Stored(n) -> "stored"
                     [] runs[n].pc \in BeforeAgents -> "deferred"
                     [] OTHER -> "dead"
    IN  /\ InProgress # {}
        /\ Fails
        /\ runs' = [n \in DOMAIN runs |-> Over(runs[n], over(n))]
        /\ pending' = {}
        /\ cooldown' = [c \in Commits |-> [cooldown[c] EXCEPT !.active = FALSE]]
        /\ UNCHANGED <<now, reviews, attempts>>

RunStep(n) ==
    \/ SelectCLIs(n) \/ Check(n) \/ ReserveRetryAttempt(n)
    \/ InsertReview(n)
    \/ \E kind \in {"quota", "error", "final"} : ExecuteFails(n, kind)
    \/ ClearRetry(n) \/ MarkRetryFailure(n)

Next ==
    \/ \E c \in Commits, force \in BOOLEAN : Admit(c, force)
    \/ \E n \in DOMAIN runs : RunStep(n)
    \/ Prune \/ Tick \/ Crash

Spec == Init /\ [][Next]_vars

-----------------------------------------------------------------------------
(* Properties *)

Automatic(n) == ~ runs[n].force
Ran == {n \in DOMAIN runs : runs[n].pc \notin BeforeAgents \cup {"deferred"}}
Spent == {n \in DOMAIN runs : Automatic(n) /\ (n \in InProgress \/ Stored(n))}
AgentOf(n) == (CHOOSE r \in reviews : r.run = n).cli

\* In no window are there more elements of S, by the time at(n), than limit.
AtMost(limit, S, at(_), window) ==
    \A n \in S :
        Cardinality({m \in S : at(m) \in at(n) - window .. at(n)}) <= limit

\* docs/configuration-guide.md, "Review limits": parallel workers "cannot all
\* take the last free slot".  Automatic reviews that run or were stored never
\* exceed the budget in any window of their starts, whatever fails, dies or is
\* forced, although a slot moves from a ticket in memory to a row on disk.
BudgetKept ==
    LET at(n) == runs[n].start
    IN  BudgetLimit > 0 => AtMost(BudgetLimit, Spent, at, BudgetWindow)

\* The automatic executions that produced no review, still running, failed or
\* killed with the daemon, never exceed the repository's limit in any window
\* (review_retry_attempts.go): concurrent runs cannot pass the same last slot
\* and a restart forgives nothing.
FailuresBounded ==
    LET at(n) == runs[n].start
    IN  AtMost(FailureLimit, {n \in Ran : Automatic(n) /\ ~ Stored(n)},
               at, FailureWindow)

(* The runs of c that started an agent for nothing since its last review.   *)
Fruitless(c, start) ==
    {m \in Ran : /\ runs[m].commit = c
                 /\ runs[m].start >= start - Retention
                 /\ \A r \in reviews : r.commit = c => r.run < m}

InTime(n) ==
    LET earlier == Fruitless(runs[n].commit, runs[n].start)
    IN  \A m \in earlier : runs[n].start
            >= runs[m].start + RetryDelay(Cardinality(earlier))

\* An automatic execution starts no sooner after the previous one of its
\* commit than the delay for as many executions as have ended without a
\* review (review_retry_backoff.go): dying is no way around the cooldown,
\* neither is a write that failed or the pruning of old rows.
CooldownHonoured ==
    [][\A n \in DOMAIN runs :
          /\ Automatic(n) /\ runs[n].pc = "reserve" /\ runs'[n].pc = "execute"
          => InTime(n)]_vars

\* pipeline.go calls the breaker a "hard cap on completed reviews per PR HEAD":
\* the check counts stored rows only, yet no commit gets more automatic
\* reviews than its cap, since runs of one commit exclude each other.
CommitCapKept ==
    \A r \in reviews :
        Automatic(r.run) /\ CommitCap > 0
        => CommitCap >= Cardinality(
               {q \in reviews : /\ q.commit = r.commit /\ Automatic(q.run)
                                /\ q.at \in r.at - CommitWindow .. r.at})

\* Runs of different commits do pass the repository's check together: its cap
\* is overrun by the runs in progress, but by no more.
RepoOverrunBounded ==
    LET at(n) == (CHOOSE r \in reviews : r.run = n).at
    IN  RepoCap > 0 =>
            AtMost(RepoCap + Workers - 1,
                   {n \in DOMAIN runs : Automatic(n) /\ Stored(n)},
                   at, RepoWindow)

OfAgent(a) == {n \in Spent : IF Stored(n) THEN AgentOf(n) = a
                             ELSE n \in Ran /\ Agent(n) = a}

\* The first agent of a run is not charged before its review is stored, so its
\* budget is overrun, but never by more than the other runs in progress.
AgentOverrunBounded ==
    LET at(n) == runs[n].start
    IN  \A a \in Agents : AgentLimit[a] > 0 =>
            AtMost(AgentLimit[a] + Workers - 1, OfAgent(a), at, AgentWindow)

\* docs/configuration-guide.md, "Review limits": "reviews still running count
\* too, so parallel workers cannot all take the last free slot", said of every
\* budget, the agents' among them.
AgentBudgetKept ==
    LET at(n) == runs[n].start
    IN  \A a \in Agents : AgentLimit[a] > 0 =>
            AtMost(AgentLimit[a], OfAgent(a), at, AgentWindow)
=============================================================================
