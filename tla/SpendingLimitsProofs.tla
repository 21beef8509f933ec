------------------------ MODULE SpendingLimitsProofs ------------------------
(***************************************************************************)
(* Proofs about SpendingLimits: for any agents, flow, limits, windows and  *)
(* number of workers, the budget, the limit on failures, the cap and the   *)
(* cooldown of a commit are kept exactly, the breaker of the repository    *)
(* and the agents' budgets within the runs in progress.                    *)
(***************************************************************************)
EXTENDS SpendingLimits, ProofLemmas

(* Where a run stands when it has a row, uses up the budget, has started    *)
(* an agent for nothing so far, is past the breaker, or may yet execute.   *)
Reported == {"settle", "stored"}
Charged == Steps \cup {"stored"}
Vain == {"execute", "mark", "failed", "dead"}
Passed == {"reserve", "execute"}
Bidding == {"check", "reserve", "execute", "mark"}

(* Automatic runs by where they stand. *)
Stage(P) == {m \in DOMAIN runs : Automatic(m) /\ runs[m].pc \in P}
Starts == [m \in DOMAIN runs |-> runs[m].start]

\* No element of S sees more than limit of them in the window that ends with it.
Fitting(limit, S, time, w) ==
    \A m \in S : Cardinality({k \in S : time[k] \in time[m] - w .. time[m]}) <= limit

-----------------------------------------------------------------------------
(* The inductive invariant *)

Types == TypeOK /\ IsFiniteSet(reviews) /\ IsFiniteSet(attempts) /\ IsFiniteSet(pending)

\* A run starts before it is stored, now at the latest; no time has passed for
\* one that has not started an agent; there is always an agent left to try.
Clock ==
    \A m \in DOMAIN runs :
        /\ runs[m].start <= now
        /\ runs[m].pc \in BeforeAgents => runs[m].start = now
        /\ runs[m].agents # <<>>

\* The rows are those of the runs that produced a review.
Rows ==
    /\ \A r, q \in reviews : r.run = q.run => r = q
    /\ \A r \in reviews : /\ r.commit = runs[r.run].commit
                          /\ runs[r.run].pc \in Reported
                          /\ runs[r.run].start <= r.at /\ r.at <= now
    /\ \A m \in DOMAIN runs : runs[m].pc \in Reported => \E r \in reviews : r.run = m

\* A run in progress has its ticket, no commit has two, and there are as many
\* as there are workers.
Tickets ==
    \A m \in InProgress : \E t \in pending : t.run = m /\ t.at = runs[m].start
Exclusive ==
    \A m, k \in InProgress : runs[m].commit = runs[k].commit => m = k
Concurrency == Cardinality(InProgress) <= Workers

\* A run that started an agent for nothing so far is on record while it counts.
Tried ==
    \A m \in DOMAIN runs :
        runs[m].pc \in Vain /\ runs[m].start >= now - Retention
            => [run |-> m, at |-> runs[m].start] \in attempts

\* A cooldown counts runs that got past their reservation.
Counted ==
    /\ Len(runs) <= MaxRuns
    /\ \A c \in Commits :
           cooldown[c].count
               <= Cardinality({m \in DOMAIN runs : runs[m].pc \notin BeforeAgents})

Budget ==
    BudgetLimit > 0 => Fitting(BudgetLimit, Stage(Charged), Starts, BudgetWindow)

Failures == Fitting(FailureLimit, Stage(Vain), Starts, FailureWindow)

\* While a run is between the breaker and its row, the commit stays below its cap,
Room ==
    \A m \in Stage(Passed) :
        CommitCap > 0 =>
            Cardinality({r \in reviews : /\ r.commit = runs[m].commit
                                         /\ Within(r.at, now, CommitWindow)}) < CommitCap

\* and the rows of the repository can exceed its own only by the runs that passed.
AutoRows == {r \in reviews : Automatic(r.run)}
RowTimes == [r \in reviews |-> r.at]
Repository ==
    RepoCap > 0 =>
        /\ Fitting(RepoCap + Workers - 1, AutoRows, RowTimes, RepoWindow)
        /\ Cardinality({r \in AutoRows : Within(r.at, now, RepoWindow)})
               + Cardinality(Stage(Passed)) <= RepoCap + Workers - 1

\* Runs that executed an agent, or may still do so.
Among(a, list) == \E i \in DOMAIN list : list[i] = a
Candidates(a) ==
    {m \in DOMAIN runs :
        /\ Automatic(m)
        /\ \/ runs[m].pc \in Bidding /\ Among(a, runs[m].agents)
           \/ \E r \in reviews : r.run = m /\ r.cli = a}
AgentRoom ==
    \A a \in Agents : AgentLimit[a] > 0 =>
        Fitting(AgentLimit[a] + Workers - 1, Candidates(a), Starts, AgentWindow)

SpendingInv ==
    /\ Types /\ Clock /\ Rows /\ Tickets /\ Exclusive /\ Concurrency /\ Tried /\ Counted
    /\ Budget /\ Failures /\ CommitCapKept /\ Room /\ Repository /\ AgentRoom

-----------------------------------------------------------------------------
(* Counting *)

\* A part of what fits in every window fits in every window,
LEMMA PartFits ==
    ASSUME NEW S, IsFiniteSet(S), NEW f, NEW w, NEW limit \in Int, Fitting(limit, S, f, w),
           NEW T \in SUBSET S, NEW g, \A m \in T : g[m] = f[m]
    PROVE  Fitting(limit, T, g, w)
<1> SUFFICES ASSUME NEW m \in T
             PROVE  Cardinality({k \in T : g[k] \in g[m] - w .. g[m]}) <= limit
  BY DEF Fitting
<1> DEFINE all == {k \in S : f[k] \in f[m] - w .. f[m]}
           some == {k \in T : g[k] \in g[m] - w .. g[m]}
<1>1. some \in SUBSET all
  OBVIOUS
<1>2. IsFiniteSet(all) /\ Cardinality(all) <= limit
  BY FewerElements DEF Fitting
<1>3. /\ Cardinality(some) \in Nat /\ Cardinality(all) \in Nat
      /\ Cardinality(some) <= Cardinality(all)
  BY <1>1, <1>2, FewerElements
<1> QED
  BY <1>2, <1>3

\* and so does what grows only at the end, if it fits in the last window.
LEMMA GrownFits ==
    ASSUME NEW S, IsFiniteSet(S), NEW f, NEW w \in Nat, NEW limit \in Int,
           Fitting(limit, S, f, w),
           NEW T, NEW g, NEW t \in Int,
           \A m \in T : g[m] \in Int /\ g[m] <= t,
           \A m \in T : g[m] = t \/ (m \in S /\ g[m] = f[m]),
           Cardinality({m \in T : Within(g[m], t, w)}) <= limit
    PROVE  Fitting(limit, T, g, w)
<1> SUFFICES ASSUME NEW m \in T
             PROVE  Cardinality({k \in T : g[k] \in g[m] - w .. g[m]}) <= limit
  BY DEF Fitting
<1> DEFINE some == {k \in T : g[k] \in g[m] - w .. g[m]}
<1>1. CASE g[m] = t
  <2>1. some = {k \in T : Within(g[k], t, w)}
    BY <1>1 DEF Within
  <2> QED
    BY <2>1
<1>2. CASE g[m] # t
  <2> DEFINE all == {k \in S : f[k] \in f[m] - w .. f[m]}
  <2>1. m \in S /\ g[m] = f[m] /\ g[m] < t
    BY <1>2
  <2>2. some \in SUBSET all
    <3> SUFFICES ASSUME NEW k \in some
                 PROVE  k \in all
      OBVIOUS
    <3>1. g[k] < t
      BY <2>1
    <3> QED
      BY <2>1, <3>1
  <2>3. IsFiniteSet(all) /\ Cardinality(all) <= limit
    BY <2>1, FewerElements DEF Fitting
  <2>4. /\ Cardinality(some) \in Nat /\ Cardinality(all) \in Nat
        /\ Cardinality(some) <= Cardinality(all)
    BY <2>2, <2>3, FewerElements
  <2> QED
    BY <2>3, <2>4
<1> QED
  BY <1>1, <1>2

\* There are no more runs than there are rows, tickets or attempts of them,
LEMMA Represented ==
    ASSUME NEW T, IsFiniteSet(T), NEW S, \A m \in S : \E t \in T : t.run = m
    PROVE  /\ IsFiniteSet(S) /\ Cardinality(S) \in Nat /\ Cardinality(T) \in Nat
           /\ Cardinality(S) <= Cardinality(T)
<1> DEFINE part == {t \in T : t.run \in S}
           f == [t \in part |-> t.run]
<1>1. f \in Surjection(part, S)
  <2>1. f \in [part -> S]
    OBVIOUS
  <2>2. \A m \in S : \E t \in part : f[t] = m
    OBVIOUS
  <2> QED
    BY <2>1, <2>2 DEF Surjection
<1>2. /\ IsFiniteSet(part) /\ Cardinality(part) \in Nat /\ Cardinality(T) \in Nat
      /\ Cardinality(part) <= Cardinality(T)
  BY FewerElements
<1> HIDE DEF f, part
<1>3. IsFiniteSet(S) /\ Cardinality(S) <= Cardinality(part)
  BY <1>1, <1>2, FS_Surjection
<1> QED
  BY <1>2, <1>3, FS_CardinalityType

\* or of rows and tickets together.
LEMMA RepresentedByBoth ==
    ASSUME NEW T, IsFiniteSet(T), NEW U, IsFiniteSet(U), NEW S,
           \A m \in S : (\E t \in T : t.run = m) \/ (\E t \in U : t.run = m)
    PROVE  /\ IsFiniteSet(S) /\ Cardinality(S) \in Nat
           /\ Cardinality(T) \in Nat /\ Cardinality(U) \in Nat
           /\ Cardinality(S) <= Cardinality(T) + Cardinality(U)
<1> DEFINE A == {m \in S : \E t \in T : t.run = m}
           B == {m \in S : \E t \in U : t.run = m}
<1>1. /\ IsFiniteSet(A) /\ Cardinality(A) \in Nat /\ Cardinality(T) \in Nat
      /\ Cardinality(A) <= Cardinality(T)
  BY Represented
<1>2. /\ IsFiniteSet(B) /\ Cardinality(B) \in Nat /\ Cardinality(U) \in Nat
      /\ Cardinality(B) <= Cardinality(U)
  BY Represented
<1>3. S \in SUBSET (A \cup B)
  OBVIOUS
<1> HIDE DEF A, B
<1> QED
  BY <1>1, <1>2, <1>3, CoveredByTwo

-----------------------------------------------------------------------------
(* How the runs move *)

Moves ==
    {<<"select", "check">>, <<"check", "reserve">>, <<"reserve", "execute">>,
     <<"execute", "settle">>, <<"execute", "mark">>, <<"settle", "stored">>,
     <<"mark", "failed">>, <<"select", "deferred">>, <<"check", "deferred">>,
     <<"reserve", "deferred">>, <<"execute", "dead">>, <<"mark", "dead">>}

Follows(x, y) ==
    /\ y.commit = x.commit /\ y.force = x.force
    /\ y.pc = x.pc \/ <<x.pc, y.pc>> \in Moves
    /\ y.start = x.start \/ (y.pc = "deferred" /\ y.start = 0)
    /\ y.agents # <<>>

\* No run is added, and each one stays or makes a move.
Moving ==
    /\ runs' \in Seq(Runs) /\ DOMAIN runs' = DOMAIN runs
    /\ \A m \in DOMAIN runs : Follows(runs[m], runs'[m])

Others(n) == \A m \in DOMAIN runs : m # n => runs'[m] = runs[m]

\* What a run was before it is where it is.
LEMMA Back ==
    ASSUME NEW x, NEW y, Follows(x, y)
    PROVE  /\ y.commit = x.commit /\ y.force = x.force
           /\ y.pc # "deferred" => y.start = x.start
           /\ y.start \in {0, x.start}
           /\ y.pc \in Steps => x.pc \in Steps
           /\ y.pc \in Charged => x.pc \in Charged
           /\ y.pc \in BeforeAgents => x.pc \in BeforeAgents
           /\ y.pc \in Vain /\ x.pc \notin Vain => x.pc = "reserve" /\ y.pc = "execute"
           /\ y.pc \in Passed /\ x.pc \notin Passed => x.pc = "check" /\ y.pc = "reserve"
           /\ y.pc \in Bidding /\ x.pc \notin Bidding => x.pc = "select" /\ y.pc = "check"
           /\ y.pc \in Reported /\ x.pc \notin Reported => x.pc = "execute" /\ y.pc = "settle"
           /\ x.pc \in Reported => y.pc \in Reported
BY DEF Follows, Moves, Steps, Charged, BeforeAgents, Vain, Passed, Bidding, Reported

\* The limits and bounds are natural numbers.
LEMMA Numbers ==
    /\ Workers \in Nat /\ BudgetLimit \in Nat /\ BudgetWindow \in Nat /\ AgentWindow \in Nat
    /\ CommitCap \in Nat /\ CommitWindow \in Nat /\ RepoCap \in Nat /\ RepoWindow \in Nat
    /\ FailureLimit \in Nat /\ FailureWindow \in Nat /\ Retention \in Nat
    /\ MaxTime \in Nat /\ MaxRuns \in Nat /\ MaxTroubles \in Nat
    /\ FailureWindow < Retention
BY LimitsAssumption

\* The runs are numbered, a finite set of records.
LEMMA RunNumbers ==
    ASSUME TypeOK
    PROVE  /\ Len(runs) \in Nat /\ DOMAIN runs = 1 .. Len(runs)
           /\ IsFiniteSet(DOMAIN runs)
           /\ \A m \in DOMAIN runs : m \in Nat /\ runs[m] \in Runs
           /\ \A P : IsFiniteSet(Stage(P))
<1>1. /\ Len(runs) \in Nat /\ DOMAIN runs = 1 .. Len(runs)
      /\ \A m \in DOMAIN runs : m \in Nat /\ runs[m] \in Runs
  BY DEF TypeOK
<1>2. IsFiniteSet(DOMAIN runs)
  BY <1>1, FiniteInterval
<1>3. ASSUME NEW P
      PROVE  IsFiniteSet(Stage(P))
  <2>1. Stage(P) \in SUBSET DOMAIN runs
    BY DEF Stage
  <2> QED
    BY <1>2, <2>1, FS_Subset
<1> QED
  BY <1>1, <1>2, <1>3

\* What the proofs use of the type of a run.
LEMMA RunFields ==
    ASSUME TypeOK
    PROVE  /\ now \in Nat
           /\ \A m \in DOMAIN runs : /\ runs[m].start \in Nat /\ runs[m].force \in BOOLEAN
                                     /\ runs[m].commit \in Commits
                                     /\ runs[m].pc \in Steps \cup Ended
                                     /\ m \in InProgress <=> runs[m].pc \in Steps
<1>1. now \in Nat
  BY LimitsAssumption DEF TypeOK
<1>2. ASSUME NEW m \in DOMAIN runs
      PROVE  /\ runs[m].start \in Nat /\ runs[m].force \in BOOLEAN
             /\ runs[m].commit \in Commits /\ runs[m].pc \in Steps \cup Ended
  BY RunNumbers, Numbers DEF Runs
<1>3. ASSUME NEW m \in DOMAIN runs
      PROVE  m \in InProgress <=> runs[m].pc \in Steps
  BY <1>2 DEF InProgress, Steps, Ended, BeforeAgents
<1> QED
  BY <1>1, <1>2, <1>3

\* The fields of a run that goes somewhere or ends.
LEMMA GoneTo ==
    ASSUME NEW x \in Runs, NEW p \in Steps \cup Ended
    PROVE  /\ [x EXCEPT !.pc = p] \in Runs
           /\ [x EXCEPT !.pc = p].pc = p
           /\ [x EXCEPT !.pc = p].commit = x.commit
           /\ [x EXCEPT !.pc = p].force = x.force
           /\ [x EXCEPT !.pc = p].start = x.start
           /\ [x EXCEPT !.pc = p].prior = x.prior
           /\ [x EXCEPT !.pc = p].agents = x.agents
BY DEF Runs

\* The fields of a run that is over.
LEMMA IsOver ==
    ASSUME NEW x \in Runs, NEW p \in Steps \cup Ended
    PROVE  /\ Over(x, p) \in Runs
           /\ Over(x, p).pc = p
           /\ Over(x, p).commit = x.commit
           /\ Over(x, p).force = x.force
           /\ Over(x, p).start = IF p = "deferred" THEN 0 ELSE x.start
           /\ Over(x, p).agents = Flow
           /\ Flow # <<>>
<1> DEFINE s == IF p = "deferred" THEN 0 ELSE x.start
<1>1. Flow \in Seq(Agents) /\ Flow # <<>> /\ 0 \in 0 .. MaxRuns /\ s \in 0 .. MaxTime
  BY LimitsAssumption DEF Runs
<1>2. Over(x, p) = [x EXCEPT !.pc = p, !.agents = Flow, !.prior = 0, !.start = s]
  BY DEF Over, Runs
<1> HIDE DEF s
<1>3. /\ Over(x, p) \in Runs /\ Over(x, p).pc = p /\ Over(x, p).commit = x.commit
      /\ Over(x, p).force = x.force /\ Over(x, p).start = s /\ Over(x, p).agents = Flow
  BY <1>1, <1>2 DEF Runs
<1> QED
  BY <1>1, <1>3 DEF s

\* One run moves.
LEMMA OneMoves ==
    ASSUME TypeOK, Clock, NEW n \in DOMAIN runs, NEW x \in Runs, Follows(runs[n], x),
           runs' = [runs EXCEPT ![n] = x]
    PROVE  Moving /\ Others(n) /\ runs'[n] = x
<1>1. /\ runs \in Seq(Runs) /\ runs' \in Seq(Runs) /\ DOMAIN runs' = DOMAIN runs
      /\ runs'[n] = x
  BY DEF TypeOK
<1>2. Others(n)
  BY DEF Others
<1>3. \A m \in DOMAIN runs : Follows(runs[m], runs'[m])
  BY <1>1, <1>2 DEF Others, Follows, Clock
<1> QED
  BY <1>1, <1>2, <1>3 DEF Moving

\* A run that goes to its next step, and no other, moves;
LEMMA GotoMoves ==
    ASSUME TypeOK, Clock, NEW n \in DOMAIN runs, NEW p, Goto(n, p),
           <<runs[n].pc, p>> \in Moves
    PROVE  /\ Moving /\ Others(n)
           /\ runs'[n].pc = p /\ runs'[n].agents = runs[n].agents
<1>1. runs[n] \in Runs /\ p \in Steps \cup Ended
  BY RunNumbers DEF Moves, Steps, Ended, BeforeAgents
<1>2. Follows(runs[n], [runs[n] EXCEPT !.pc = p])
  BY <1>1, GoneTo DEF Follows, Clock
<1>3. runs' = [runs EXCEPT ![n] = [runs[n] EXCEPT !.pc = p]]
  BY DEF Goto
<1>4. Moving /\ Others(n) /\ runs'[n] = [runs[n] EXCEPT !.pc = p]
  BY <1>1, <1>2, <1>3, GoneTo, OneMoves
<1> QED
  BY <1>1, <1>4, GoneTo

\* so does one that ends.
LEMMA EndMoves ==
    ASSUME TypeOK, Clock, NEW n \in DOMAIN runs, NEW p, End(n, p),
           <<runs[n].pc, p>> \in Moves
    PROVE  Moving /\ Others(n) /\ runs'[n].pc = p
<1>1. runs[n] \in Runs /\ p \in Steps \cup Ended
  BY RunNumbers DEF Moves, Steps, Ended, BeforeAgents
<1>2. Follows(runs[n], Over(runs[n], p))
  BY <1>1, IsOver DEF Follows
<1>3. runs' = [runs EXCEPT ![n] = Over(runs[n], p)]
  BY DEF End
<1>4. Moving /\ Others(n) /\ runs'[n] = Over(runs[n], p)
  BY <1>1, <1>2, <1>3, IsOver, OneMoves
<1> QED
  BY <1>1, <1>4, IsOver

-----------------------------------------------------------------------------
(* What moving runs leave as it is *)

\* The runs that are automatic and at P, once some have moved, are among those
\* that were if no run enters P.
LEMMA StageShrinks ==
    ASSUME TypeOK, Moving, NEW P,
           \A m \in DOMAIN runs : runs'[m].pc \in P => runs[m].pc \in P /\ runs'[m].pc # "deferred"
    PROVE  /\ Stage(P)' \in SUBSET Stage(P) /\ IsFiniteSet(Stage(P))
           /\ \A m \in Stage(P)' : Starts'[m] = Starts[m]
           /\ \A limit \in Int : \A w :
                  Fitting(limit, Stage(P), Starts, w) => Fitting(limit, Stage(P)', Starts', w)
<1>1. Stage(P)' \in SUBSET Stage(P)
  BY Back DEF Stage, Moving, Automatic
<1>2. \A m \in Stage(P)' : Starts'[m] = Starts[m]
  BY Back DEF Stage, Moving, Starts
<1>3. IsFiniteSet(Stage(P))
  BY RunNumbers
<1> QED
  BY <1>1, <1>2, <1>3, PartFits

\* The budget, the claims and the workers.
LEMMA KeepsSlots ==
    ASSUME SpendingInv, Moving
    PROVE  Budget' /\ Exclusive' /\ Concurrency'
<1>1. \A m \in DOMAIN runs : runs'[m].pc \in Charged => runs[m].pc \in Charged
                                                         /\ runs'[m].pc # "deferred"
  BY Back DEF Moving, Charged, Steps, BeforeAgents
<1>2. Budget'
  BY <1>1, StageShrinks, Numbers DEF SpendingInv, Types, Budget
<1>3. InProgress' \in SUBSET InProgress
  <2>1. \A m \in DOMAIN runs : runs'[m].pc \notin Ended => runs[m].pc \notin Ended
    BY RunFields, Back DEF Moving, SpendingInv, Types, Moves, Follows, Ended
  <2> QED
    BY <2>1 DEF InProgress, Moving
<1>4. Exclusive'
  BY <1>3, Back DEF SpendingInv, Exclusive, InProgress, Moving
<1>5. Concurrency'
  <2>1. IsFiniteSet(InProgress)
    BY RunNumbers, FS_Subset DEF SpendingInv, Types, InProgress
  <2> QED
    BY <1>3, <2>1, FewerElements, Numbers DEF SpendingInv, Concurrency
<1> QED
  BY <1>2, <1>4, <1>5

\* The clock of the runs.
LEMMA KeepsClock ==
    ASSUME SpendingInv, Moving, now' = now
    PROVE  Clock'
<1> SUFFICES ASSUME NEW m \in DOMAIN runs
             PROVE  /\ runs'[m].start <= now
                    /\ runs'[m].pc \in BeforeAgents => runs'[m].start = now
                    /\ runs'[m].agents # <<>>
  BY DEF Clock, Moving
<1>1. Follows(runs[m], runs'[m])
  BY DEF Moving
<1>2. now \in Nat /\ "deferred" \notin BeforeAgents
  BY Numbers DEF SpendingInv, Types, TypeOK, BeforeAgents
<1> QED
  BY <1>1, <1>2, Back DEF SpendingInv, Clock, Follows

\* The rows, unless one is added.
LEMMA KeepsRows ==
    ASSUME SpendingInv, Moving, now <= now', now' \in Int, UNCHANGED reviews,
           \A m \in DOMAIN runs : runs'[m].pc \in Reported => runs[m].pc \in Reported
    PROVE  Rows'
<1>1. \A m \in DOMAIN runs : /\ runs[m].pc \in Reported <=> runs'[m].pc \in Reported
                             /\ runs[m].commit = runs'[m].commit
                             /\ runs[m].pc \in Reported => runs'[m].start = runs[m].start
  BY Back DEF Moving, Reported
<1>2. reviews \subseteq [run : DOMAIN runs, commit : Commits, cli : Agents, at : 0 .. MaxTime]
      /\ now \in Int
  BY DEF SpendingInv, Types, TypeOK
<1>3. \A r \in reviews : r.run \in DOMAIN runs /\ r.at \in Int
  BY <1>2
<1> QED
  BY <1>1, <1>2, <1>3 DEF SpendingInv, Rows, Moving

\* The failures and their record, unless a run starts its first agent.
LEMMA KeepsFailures ==
    ASSUME SpendingInv, Moving,
           \A m \in DOMAIN runs : runs'[m].pc \in Vain => runs[m].pc \in Vain
    PROVE  Failures'
<1>1. \A m \in DOMAIN runs : runs'[m].pc \in Vain => runs[m].pc \in Vain
                                                     /\ runs'[m].pc # "deferred"
  BY DEF Vain
<1> QED
  BY <1>1, StageShrinks, Numbers DEF SpendingInv, Types, Failures

\* The record of the executions, from which no row is taken.
LEMMA KeepsTried ==
    ASSUME SpendingInv, Moving, now <= now', now' \in Int, attempts \subseteq attempts',
           \A m \in DOMAIN runs : runs'[m].pc \in Vain => runs[m].pc \in Vain
    PROVE  Tried'
<1> SUFFICES ASSUME NEW m \in DOMAIN runs, runs'[m].pc \in Vain,
                    runs'[m].start >= now' - Retention
             PROVE  [run |-> m, at |-> runs'[m].start] \in attempts
  BY DEF Tried, Moving
<1>1. runs'[m].start = runs[m].start /\ runs[m].pc \in Vain
  BY Back DEF Moving, Vain
<1>2. runs[m].start \in Int /\ now \in Int /\ Retention \in Int
  BY RunFields, Numbers DEF SpendingInv, Types
<1> QED
  BY <1>1, <1>2 DEF SpendingInv, Tried

\* The caps, unless a row is added,
LEMMA SameRows ==
    ASSUME SpendingInv, Moving, UNCHANGED reviews
    PROVE  /\ CommitCapKept' /\ AutoRows' = AutoRows /\ RowTimes' = RowTimes
           /\ IsFiniteSet(AutoRows)
           /\ \A r \in reviews : r.at \in Int /\ r.run \in DOMAIN runs
                                 /\ r.at <= now /\ now \in Int
<1>1. \A r \in reviews : r.at \in Int /\ r.run \in DOMAIN runs /\ r.at <= now /\ now \in Int
  BY DEF SpendingInv, Types, TypeOK, Rows
<1>2. \A r \in reviews : Automatic(r.run)' <=> Automatic(r.run)
  BY <1>1, Back DEF Moving, Automatic
<1>3. AutoRows' = AutoRows /\ RowTimes' = RowTimes
  BY <1>2 DEF AutoRows, RowTimes
<1>4. CommitCapKept'
  BY <1>2 DEF SpendingInv, CommitCapKept
<1>5. IsFiniteSet(AutoRows)
  BY FS_Subset DEF AutoRows, SpendingInv, Types
<1> QED
  BY <1>1, <1>3, <1>4, <1>5

\* the room below them, unless a run passes the breaker,
LEMMA KeepsRoom ==
    ASSUME SpendingInv, Moving, UNCHANGED reviews, now <= now', now' \in Int,
           \A m \in DOMAIN runs : runs'[m].pc \in Passed => runs[m].pc \in Passed
    PROVE  Room' /\ Repository'
<1>1. /\ AutoRows' = AutoRows /\ RowTimes' = RowTimes /\ IsFiniteSet(AutoRows)
      /\ \A r \in reviews : r.at \in Int /\ now \in Int
  BY SameRows
<1>2. \A r \in reviews, w \in Nat : Within(r.at, now', w) => Within(r.at, now, w)
  BY <1>1 DEF Within
<1>3. IsFiniteSet(reviews) /\ TypeOK
  BY DEF SpendingInv, Types
<1>4. Stage(Passed)' \in SUBSET Stage(Passed) /\ IsFiniteSet(Stage(Passed))
  <2>1. \A m \in DOMAIN runs : runs'[m].pc \in Passed => runs'[m].pc # "deferred"
    BY DEF Passed
  <2> QED
    BY <1>3, <2>1, StageShrinks
<1>5. Room'
  <2> SUFFICES ASSUME NEW m \in Stage(Passed)', CommitCap > 0
               PROVE  Cardinality({r \in reviews : /\ r.commit = runs'[m].commit
                                                   /\ Within(r.at, now', CommitWindow)})
                      < CommitCap
    BY DEF Room
  <2>1. m \in Stage(Passed) /\ runs'[m].commit = runs[m].commit
    BY <1>4, Back DEF Moving, Stage
  <2> DEFINE all == {r \in reviews : /\ r.commit = runs[m].commit
                                     /\ Within(r.at, now, CommitWindow)}
             some == {r \in reviews : /\ r.commit = runs'[m].commit
                                      /\ Within(r.at, now', CommitWindow)}
  <2>2. some \in SUBSET all /\ all \in SUBSET reviews
    BY <1>2, <2>1, Numbers
  <2>3. Cardinality(all) < CommitCap
    BY <2>1 DEF SpendingInv, Room
  <2> HIDE DEF some, all
  <2>4. IsFiniteSet(all)
    BY <1>3, <2>2, FewerElements
  <2>5. /\ Cardinality(some) \in Nat /\ Cardinality(all) \in Nat
        /\ Cardinality(some) <= Cardinality(all)
    BY <2>2, <2>4, FewerElements
  <2>6. Cardinality(some) < CommitCap
    BY <2>3, <2>5, Numbers
  <2> QED
    BY <2>6 DEF some
<1>6. Repository'
  <2> SUFFICES ASSUME RepoCap > 0
               PROVE  /\ Fitting(RepoCap + Workers - 1, AutoRows', RowTimes', RepoWindow)
                      /\ Cardinality({r \in AutoRows' : Within(r.at, now', RepoWindow)})
                            + Cardinality(Stage(Passed)') <= RepoCap + Workers - 1
    BY DEF Repository
  <2> DEFINE all == {r \in AutoRows : Within(r.at, now, RepoWindow)}
             some == {r \in AutoRows' : Within(r.at, now', RepoWindow)}
  <2>1. some \in SUBSET all /\ all \in SUBSET AutoRows
    BY <1>1, <1>2, Numbers DEF AutoRows
  <2>2. /\ Fitting(RepoCap + Workers - 1, AutoRows, RowTimes, RepoWindow)
        /\ Cardinality(all) + Cardinality(Stage(Passed)) <= RepoCap + Workers - 1
    BY DEF SpendingInv, Repository
  <2> HIDE DEF some, all
  <2>3. IsFiniteSet(all)
    BY <1>1, <2>1, FewerElements
  <2>4. /\ Cardinality(some) \in Nat /\ Cardinality(all) \in Nat
        /\ Cardinality(some) <= Cardinality(all)
    BY <2>1, <2>3, FewerElements
  <2>5. /\ Cardinality(Stage(Passed)') \in Nat /\ Cardinality(Stage(Passed)) \in Nat
        /\ Cardinality(Stage(Passed)') <= Cardinality(Stage(Passed))
    BY <1>4, FewerElements
  <2>6. Cardinality(some) + Cardinality(Stage(Passed)') <= RepoCap + Workers - 1
    BY <2>2, <2>4, <2>5, Numbers
  <2> QED
    BY <1>1, <2>2, <2>6 DEF some
<1> QED
  BY <1>5, <1>6

\* and the agents' runs, unless a run selects its agents.
NoNewBids ==
    \A m \in DOMAIN runs :
        runs'[m].pc \in Bidding =>
            /\ runs[m].pc \in Bidding
            /\ \A a : Among(a, runs'[m].agents) => Among(a, runs[m].agents)

\* An agent's runs keep within its limit when none is added;
LEMMA FewerCandidates ==
    ASSUME SpendingInv, Moving, NEW a \in Agents, Candidates(a)' \in SUBSET Candidates(a),
           \A m \in Candidates(a)' : runs'[m].start = runs[m].start,
           AgentLimit[a] > 0
    PROVE  Fitting(AgentLimit[a] + Workers - 1, Candidates(a)', Starts', AgentWindow)
<1>1. IsFiniteSet(Candidates(a))
  BY RunNumbers, FS_Subset DEF Candidates, SpendingInv, Types
<1>2. /\ Fitting(AgentLimit[a] + Workers - 1, Candidates(a), Starts, AgentWindow)
      /\ AgentLimit[a] + Workers - 1 \in Int
  <2>1. AgentLimit[a] \in Nat
    BY LimitsAssumption
  <2>2. AgentLimit[a] + Workers - 1 \in Int
    BY <2>1, Numbers
  <2>3. AgentRoom
    BY DEF SpendingInv
  <2> QED
    BY <2>2, <2>3 DEF AgentRoom
<1>3. \A m \in Candidates(a)' : Starts'[m] = Starts[m]
  BY DEF Moving, Candidates, Starts
<1> QED
  BY <1>1, <1>2, <1>3, PartFits

\* none is without a new row and without a new bid.
LEMMA KeepsAgents ==
    ASSUME SpendingInv, Moving, UNCHANGED reviews, NoNewBids
    PROVE  AgentRoom'
<1> SUFFICES ASSUME NEW a \in Agents, AgentLimit[a] > 0
             PROVE  Fitting(AgentLimit[a] + Workers - 1, Candidates(a)', Starts', AgentWindow)
  BY DEF AgentRoom
<1>1. Candidates(a)' \in SUBSET Candidates(a)
  BY Back DEF Candidates, Moving, NoNewBids, Automatic
<1>2. \A m \in Candidates(a)' : runs'[m].start = runs[m].start
  <2> SUFFICES ASSUME NEW m \in Candidates(a)'
               PROVE  runs'[m].pc # "deferred" /\ m \in DOMAIN runs
    BY Back DEF Moving
  <2>1. m \in DOMAIN runs /\ (runs'[m].pc \in Bidding \/ \E r \in reviews : r.run = m)
    BY DEF Candidates, Moving
  <2>2. (\E r \in reviews : r.run = m) => runs[m].pc \in Reported
    BY DEF SpendingInv, Rows
  <2>3. runs[m].pc \in Reported => runs'[m].pc \in Reported
    BY <2>1, Back DEF Moving
  <2> QED
    BY <2>1, <2>2, <2>3 DEF Bidding, Reported
<1> QED
  BY <1>1, <1>2, FewerCandidates

\* Steps that store no row and by which no run gets further.
Quiet ==
    /\ Moving /\ NoNewBids /\ UNCHANGED reviews
    /\ \A m \in DOMAIN runs :
           /\ runs'[m].pc \in Reported => runs[m].pc \in Reported
           /\ runs'[m].pc \in Vain => runs[m].pc \in Vain
           /\ runs'[m].pc \in Passed => runs[m].pc \in Passed

\* They leave the counts and the limits as they are, whatever else they write.
LEMMA QuietStep ==
    ASSUME SpendingInv, Quiet, now <= now', now' \in Int
    PROVE  /\ Rows' /\ Exclusive' /\ Concurrency' /\ Budget' /\ Failures'
           /\ CommitCapKept' /\ Room' /\ Repository' /\ AgentRoom'
           /\ now' = now => Clock'
           /\ attempts \subseteq attempts' => Tried'
<1>1. Exclusive' /\ Concurrency' /\ Budget'
  BY KeepsSlots DEF Quiet
<1>2. Rows' /\ CommitCapKept'
  BY KeepsRows, SameRows DEF Quiet
<1>3. Failures' /\ (attempts \subseteq attempts' => Tried')
  BY KeepsFailures, KeepsTried DEF Quiet
<1>4. Room' /\ Repository' /\ AgentRoom'
  BY KeepsRoom, KeepsAgents DEF Quiet
<1>5. now' = now => Clock'
  BY KeepsClock DEF Quiet
<1> QED
  BY <1>1, <1>2, <1>3, <1>4, <1>5

-----------------------------------------------------------------------------
(* The tables and the tickets *)

CooldownRows == [count : 0 .. MaxRuns, last : 0 .. MaxTime, active : BOOLEAN]
Cooldowns == [Commits -> CooldownRows]

\* The types, piece by piece.
LEMMA TypesFollow ==
    ASSUME SpendingInv, Moving, now' \in 0 .. MaxTime, faults' \in 0 .. MaxTroubles,
           reviews' \subseteq [run : DOMAIN runs, commit : Commits, cli : Agents,
                               at : 0 .. MaxTime],
           cooldown' \in Cooldowns,
           attempts' \subseteq [run : DOMAIN runs, at : 0 .. MaxTime],
           pending' \subseteq [run : InProgress', cli : Agents \cup {"none"}, at : 0 .. MaxTime],
           IsFiniteSet(reviews'), IsFiniteSet(attempts'), IsFiniteSet(pending')
    PROVE  Types'
BY DEF Types, TypeOK, Moving, Cooldowns, CooldownRows

\* No cooldown grows unless its run gets past the reservation.
LEMMA KeepsCounted ==
    ASSUME SpendingInv, Moving,
           cooldown' \in Cooldowns,
           \A c \in Commits : cooldown'[c].count <= cooldown[c].count
    PROVE  Counted'
<1> DEFINE past == {m \in DOMAIN runs : runs[m].pc \notin BeforeAgents}
           more == {m \in DOMAIN runs' : runs'[m].pc \notin BeforeAgents}
<1>1. past \in SUBSET more /\ more \in SUBSET DOMAIN runs
  BY Back DEF Moving
<1>2. IsFiniteSet(DOMAIN runs) /\ TypeOK
  BY RunNumbers DEF SpendingInv, Types
<1> HIDE DEF past, more
<1>3. IsFiniteSet(more) /\ Cardinality(more) \in Nat /\ Cardinality(past) \in Nat
  BY <1>1, <1>2, FewerElements
<1>4. Cardinality(past) <= Cardinality(more)
  BY <1>1, <1>3, FewerElements
<1>5. \A c \in Commits : cooldown[c].count <= Cardinality(past)
  BY DEF past, SpendingInv, Counted
<1>6. \A c \in Commits : cooldown[c].count \in Nat /\ cooldown'[c].count \in Nat
  BY <1>2, Numbers DEF TypeOK, Cooldowns, CooldownRows
<1>7. \A c \in Commits : cooldown'[c].count <= Cardinality(more)
  BY <1>3, <1>4, <1>5, <1>6
<1>8. Len(runs') = Len(runs)
  BY DEF Moving
<1> QED
  BY <1>7, <1>8 DEF SpendingInv, Counted, more

\* The tickets of the runs that are still in progress stay.
LEMMA KeepsTickets ==
    ASSUME SpendingInv, Moving,
           \A t \in pending : t.run \in InProgress' =>
               \E u \in pending' : u.run = t.run /\ u.at = t.at
    PROVE  Tickets'
<1> SUFFICES ASSUME NEW m \in InProgress'
             PROVE  \E t \in pending' : t.run = m /\ t.at = runs'[m].start
  BY DEF Tickets
<1>1. m \in DOMAIN runs /\ runs'[m].pc \notin Ended
  BY DEF Moving, InProgress
<1>2. runs'[m].start = runs[m].start /\ runs[m].pc \notin Ended
  <2>1. runs'[m].pc # "deferred"
    BY <1>1 DEF Ended
  <2>2. runs[m].pc \notin Ended
    BY <1>1, Back DEF Moving, Follows, Moves, Ended
  <2> QED
    BY <1>1, <2>1, <2>2, Back DEF Moving
<1>3. PICK t \in pending : t.run = m /\ t.at = runs[m].start
  BY <1>1, <1>2 DEF SpendingInv, Tickets, InProgress
<1> QED
  BY <1>2, <1>3

\* Releasing a ticket, charging it to an agent, leaving it alone.
LEMMA Released ==
    ASSUME SpendingInv, Moving, NEW n, Others(n), runs'[n].pc \in Ended, ReleaseTicket(n)
    PROVE  /\ Tickets' /\ IsFiniteSet(pending')
           /\ pending' \subseteq [run : InProgress', cli : Agents \cup {"none"},
                                  at : 0 .. MaxTime]
<1>1. /\ pending \subseteq [run : InProgress, cli : Agents \cup {"none"}, at : 0 .. MaxTime]
      /\ IsFiniteSet(pending)
  BY DEF SpendingInv, Types, TypeOK
<1>2. InProgress \ {n} \subseteq InProgress' /\ n \notin InProgress'
  BY DEF InProgress, Moving, Others
<1>3. pending' \subseteq [run : InProgress', cli : Agents \cup {"none"}, at : 0 .. MaxTime]
  BY <1>1, <1>2 DEF ReleaseTicket
<1>4. IsFiniteSet(pending')
  BY <1>1, FS_Subset DEF ReleaseTicket
<1>5. Tickets'
  BY <1>2, KeepsTickets DEF ReleaseTicket
<1> QED
  BY <1>3, <1>4, <1>5

\* A ticket that is charged to another agent is still its run's.
LEMMA Recharged ==
    ASSUME SpendingInv, Moving, NEW n, Others(n), runs'[n].pc \notin Ended,
           NEW cli \in Agents, Charge(n, cli)
    PROVE  /\ Tickets' /\ IsFiniteSet(pending')
           /\ pending' \subseteq [run : InProgress', cli : Agents \cup {"none"},
                                  at : 0 .. MaxTime]
<1> DEFINE tickets == [run : InProgress, cli : Agents \cup {"none"}, at : 0 .. MaxTime]
           f == [t \in pending |-> IF t.run = n THEN [t EXCEPT !.cli = cli] ELSE t]
<1>1. pending \subseteq tickets /\ IsFiniteSet(pending)
  BY DEF SpendingInv, Types, TypeOK
<1>2. \A t \in tickets : /\ [t EXCEPT !.cli = cli] \in tickets
                         /\ [t EXCEPT !.cli = cli].run = t.run
                         /\ [t EXCEPT !.cli = cli].at = t.at
  OBVIOUS
<1>3. InProgress \subseteq InProgress'
  BY DEF InProgress, Moving, Others
<1>4. \A t \in pending : f[t] \in tickets /\ f[t].run = t.run /\ f[t].at = t.at
  BY <1>1, <1>2
<1>5. pending' = {f[t] : t \in pending}
  BY DEF Charge
<1>6. f \in Surjection(pending, pending')
  <2>1. \A u \in pending' : \E t \in pending : f[t] = u
    BY <1>5
  <2>2. f \in [pending -> pending']
    BY <1>5
  <2> QED
    BY <2>1, <2>2 DEF Surjection
<1> HIDE DEF f
<1>7. IsFiniteSet(pending')
  BY <1>1, <1>6, FS_Surjection
<1>8. pending' \subseteq [run : InProgress', cli : Agents \cup {"none"}, at : 0 .. MaxTime]
  <2>1. pending' \subseteq tickets
    BY <1>4, <1>5
  <2> QED
    BY <1>3, <2>1
<1>9. Tickets'
  <2>1. \A t \in pending : \E u \in pending' : u.run = t.run /\ u.at = t.at
    BY <1>4, <1>5
  <2> QED
    BY <2>1, KeepsTickets
<1> QED
  BY <1>7, <1>8, <1>9

\* Tickets that nobody touches remain right while no run ends.
LEMMA Untouched ==
    ASSUME SpendingInv, Moving, UNCHANGED pending,
           \A m \in InProgress : runs'[m].pc \notin Ended
    PROVE  /\ Tickets' /\ IsFiniteSet(pending')
           /\ pending' \subseteq [run : InProgress', cli : Agents \cup {"none"},
                                  at : 0 .. MaxTime]
<1>1. /\ pending \subseteq [run : InProgress, cli : Agents \cup {"none"}, at : 0 .. MaxTime]
      /\ IsFiniteSet(pending)
  BY DEF SpendingInv, Types, TypeOK
<1>2. InProgress \subseteq InProgress'
  BY DEF InProgress, Moving
<1> QED
  BY <1>1, <1>2, KeepsTickets

-----------------------------------------------------------------------------
(* The quiet steps *)

\* The types of what is not a run, a row or a ticket.
LEMMA Typed ==
    ASSUME SpendingInv
    PROVE  /\ TypeOK /\ Clock /\ now \in 0 .. MaxTime /\ now \in Int
           /\ cooldown \in Cooldowns /\ faults \in 0 .. MaxTroubles
           /\ \A c \in Commits : /\ cooldown[c] \in CooldownRows
                                 /\ cooldown[c].count \in Nat
<1>1. /\ TypeOK /\ Clock /\ now \in 0 .. MaxTime /\ faults \in 0 .. MaxTroubles
      /\ cooldown \in Cooldowns
  BY DEF SpendingInv, Types, TypeOK, Cooldowns, CooldownRows
<1>2. now \in Int
  BY <1>1, Numbers
<1>3. \A c \in Commits : cooldown[c] \in CooldownRows
  BY <1>1 DEF Cooldowns
<1>4. \A c \in Commits : cooldown[c].count \in Nat
  BY <1>3, Numbers DEF CooldownRows
<1> QED
  BY <1>1, <1>2, <1>3, <1>4

\* The row of no cooldown.
LEMMA NoRowTyped == NoRow \in CooldownRows /\ NoRow.count = 0
BY Numbers DEF NoRow, CooldownRows

\* A row for one commit that counts no more than the one it had.
LEMMA OneCooldown ==
    ASSUME SpendingInv, NEW c \in Commits, NEW row \in CooldownRows,
           row.count <= cooldown[c].count
    PROVE  /\ [cooldown EXCEPT ![c] = row] \in Cooldowns
           /\ \A d \in Commits :
                  [cooldown EXCEPT ![c] = row][d].count <= cooldown[d].count
<1> DEFINE table == [cooldown EXCEPT ![c] = row]
<1>1. cooldown \in Cooldowns
  BY Typed
<1>2. table \in Cooldowns
  BY <1>1 DEF Cooldowns
<1>3. table[c] = row /\ \A d \in Commits : d # c => table[d] = cooldown[d]
  BY <1>1 DEF Cooldowns
<1> HIDE DEF table
<1>4. \A d \in Commits : table[d].count <= cooldown[d].count
  BY <1>3, Typed
<1> QED
  BY <1>2, <1>4 DEF table

\* The tickets and their types, as the lemmas above establish them.
TicketsKept ==
    /\ Tickets' /\ IsFiniteSet(pending')
    /\ pending' \subseteq [run : InProgress', cli : Agents \cup {"none"}, at : 0 .. MaxTime]

\* A quiet step that keeps tickets, tables and record keeps the invariant.
LEMMA QuietInv ==
    ASSUME SpendingInv, Quiet, now' = now, faults' \in 0 .. MaxTroubles,
           cooldown' \in Cooldowns, \A c \in Commits : cooldown'[c].count <= cooldown[c].count,
           attempts' \subseteq attempts, Tried', TicketsKept
    PROVE  SpendingInv'
<1>1. /\ now \in 0 .. MaxTime /\ now \in Int
      /\ reviews \subseteq [run : DOMAIN runs, commit : Commits, cli : Agents, at : 0 .. MaxTime]
      /\ attempts \subseteq [run : DOMAIN runs, at : 0 .. MaxTime]
      /\ IsFiniteSet(reviews) /\ IsFiniteSet(attempts)
  BY Numbers DEF SpendingInv, Types, TypeOK
<1>2. Moving /\ UNCHANGED reviews /\ IsFiniteSet(attempts')
      /\ attempts' \subseteq [run : DOMAIN runs, at : 0 .. MaxTime]
  BY <1>1, FS_Subset DEF Quiet
<1>3. Types'
  BY <1>1, <1>2, TypesFollow DEF TicketsKept
<1>4. Counted'
  BY <1>2, KeepsCounted
<1>5. /\ Rows' /\ Exclusive' /\ Concurrency' /\ Budget' /\ Failures'
      /\ CommitCapKept' /\ Room' /\ Repository' /\ AgentRoom' /\ Clock'
  BY <1>1, QuietStep
<1> QED
  BY <1>3, <1>4, <1>5 DEF SpendingInv, TicketsKept

\* A step of one run that does not take it further.
LEMMA QuietRun ==
    ASSUME Moving, NEW n, Others(n), UNCHANGED reviews,
           runs'[n].pc \notin Reported \cup Vain \cup Passed \cup Bidding
               \/ <<runs[n].pc, runs'[n].pc>> \in {<<"execute", "mark">>, <<"settle", "stored">>,
                                                    <<"mark", "failed">>}
               \/ runs'[n].pc = runs[n].pc,
           runs'[n].pc \in Bidding =>
               \A a : Among(a, runs'[n].agents) => Among(a, runs[n].agents)
    PROVE  Quiet
BY DEF Quiet, NoNewBids, Others, Reported, Vain, Passed, Bidding

\* A deferral.
LEMMA DeferredInv ==
    ASSUME SpendingInv, NEW n \in DOMAIN runs, runs[n].pc \in BeforeAgents, Deferred(n),
           UNCHANGED <<now, reviews, cooldown, attempts, faults>>
    PROVE  SpendingInv'
<1>1. TypeOK /\ Clock
  BY DEF SpendingInv, Types
<1>2. Moving /\ Others(n) /\ runs'[n].pc = "deferred"
  BY <1>1, EndMoves DEF Deferred, BeforeAgents, Moves
<1>3. TicketsKept
  BY <1>2, Released DEF Deferred, Ended, TicketsKept
<1>4. Quiet
  BY <1>2, QuietRun DEF Reported, Vain, Passed, Bidding
<1>5. /\ now \in Int /\ cooldown \in Cooldowns /\ faults \in 0 .. MaxTroubles
      /\ \A c \in Commits : cooldown[c].count \in Nat
  BY Typed
<1>6. Tried'
  BY <1>4, <1>5, QuietStep
<1> QED
  BY <1>3, <1>4, <1>5, <1>6, QuietInv

\* A fault is one more of the troubles allowed.
LEMMA FaultAllowed ==
    ASSUME TypeOK, Fails
    PROVE  faults' \in 0 .. MaxTroubles
<1>1. IsFiniteSet({n \in DOMAIN runs : runs[n].force})
  BY RunNumbers, FS_Subset
<1>2. Cardinality({n \in DOMAIN runs : runs[n].force}) \in Nat
  BY <1>1, FS_CardinalityType
<1> QED
  BY <1>2, Numbers DEF TypeOK, Fails, Troubles

\* An agent that fails: the next one takes over or the run gives up.
LEMMA ExecuteFailsInv ==
    ASSUME SpendingInv, NEW n \in DOMAIN runs, NEW kind, ExecuteFails(n, kind)
    PROVE  SpendingInv'
<1>1. TypeOK /\ Clock /\ runs[n] \in Runs /\ runs[n].pc = "execute"
  BY RunNumbers DEF SpendingInv, Types, ExecuteFails
<1>2. UNCHANGED <<now, reviews, cooldown, attempts, faults>>
  BY DEF ExecuteFails
<1> DEFINE next == runs[n].agents[2]
<1>3. ASSUME Len(runs[n].agents) > 1, runs' = [runs EXCEPT ![n].agents = Tail(@)],
             Charge(n, next) \/ UNCHANGED pending
      PROVE  Quiet /\ TicketsKept
  <2> DEFINE list == Tail(runs[n].agents)
             x == [runs[n] EXCEPT !.agents = list]
  <2>1. runs[n].agents \in Seq(Agents)
    BY <1>1 DEF Runs
  <2>2. list \in Seq(Agents) /\ list # <<>> /\ next \in Agents
    <3>1. 2 \in 1 .. Len(runs[n].agents)
      BY <1>3, <2>1
    <3>2. next \in Agents
      BY <2>1, <3>1
    <3>3. list \in Seq(Agents) /\ Len(list) = Len(runs[n].agents) - 1
      BY <2>1, <3>1
    <3>4. Len(list) # 0
      BY <1>3, <2>1, <3>3
    <3> HIDE DEF list
    <3>5. list # <<>>
      BY <3>4
    <3> QED
      BY <3>2, <3>3, <3>5
  <2>3. \A a : Among(a, list) => Among(a, runs[n].agents)
    <3> SUFFICES ASSUME NEW i \in DOMAIN list
                 PROVE  \E j \in DOMAIN runs[n].agents : runs[n].agents[j] = list[i]
      BY DEF Among
    <3>1. i + 1 \in DOMAIN runs[n].agents /\ runs[n].agents[i + 1] = list[i]
      BY <1>3, <2>1
    <3> QED
      BY <3>1
  <2> HIDE DEF list
  <2>4. /\ x \in Runs /\ x.pc = "execute" /\ x.commit = runs[n].commit /\ x.agents = list
        /\ x.force = runs[n].force /\ x.start = runs[n].start
    BY <1>1, <2>2 DEF Runs
  <2>5. runs' = [runs EXCEPT ![n] = x]
    BY <1>3 DEF list
  <2> HIDE DEF x
  <2>6. Follows(runs[n], x)
    BY <1>1, <2>2, <2>4 DEF Follows
  <2>7. Moving /\ Others(n) /\ runs'[n] = x
    BY <1>1, <2>4, <2>5, <2>6, OneMoves
  <2>8. Quiet
    BY <1>1, <1>2, <2>3, <2>4, <2>7, QuietRun
  <2>9. runs'[n].pc \notin Ended
    BY <2>4, <2>7 DEF Ended
  <2>10. CASE Charge(n, next)
    BY <2>2, <2>7, <2>8, <2>9, <2>10, Recharged DEF TicketsKept
  <2>11. CASE UNCHANGED pending
    <3>1. \A m \in InProgress : runs'[m].pc \notin Ended
      BY <2>7, <2>9 DEF InProgress, Others
    <3> QED
      BY <2>7, <2>8, <2>11, <3>1, Untouched DEF TicketsKept
  <2> QED
    BY <1>3, <2>8, <2>10, <2>11
<1>4. ASSUME Goto(n, "mark"), UNCHANGED pending
      PROVE  Quiet /\ TicketsKept
  <2>1. /\ Moving /\ Others(n)
        /\ runs'[n].pc = "mark" /\ runs'[n].agents = runs[n].agents
    BY <1>1, <1>4, GotoMoves DEF Moves
  <2>2. Quiet
    BY <1>1, <1>2, <2>1, QuietRun
  <2>3. \A m \in InProgress : runs'[m].pc \notin Ended
    BY <2>1 DEF InProgress, Others, Ended
  <2> QED
    BY <1>4, <2>1, <2>2, <2>3, Untouched DEF TicketsKept
<1>5. Quiet /\ TicketsKept
  BY <1>3, <1>4 DEF ExecuteFails, HandsOff
<1>6. /\ now \in Int /\ cooldown \in Cooldowns /\ faults \in 0 .. MaxTroubles
      /\ \A c \in Commits : cooldown[c].count \in Nat
  BY Typed
<1>7. Tried'
  BY <1>2, <1>5, <1>6, QuietStep
<1> QED
  BY <1>2, <1>5, <1>6, <1>7, QuietInv

\* What a step that writes no table keeps of them.
LEMMA SameTables ==
    ASSUME SpendingInv, Moving, TicketsKept,
           UNCHANGED <<now, reviews, cooldown, attempts, faults>>
    PROVE  Types' /\ Counted'
<1>1. \A c \in Commits : cooldown[c].count <= cooldown[c].count
  BY Typed
<1>2. Counted'
  BY <1>1, Typed, KeepsCounted
<1>3. /\ reviews \subseteq [run : DOMAIN runs, commit : Commits, cli : Agents, at : 0 .. MaxTime]
      /\ attempts \subseteq [run : DOMAIN runs, at : 0 .. MaxTime]
      /\ IsFiniteSet(reviews) /\ IsFiniteSet(attempts)
  BY DEF SpendingInv, Types, TypeOK
<1> QED
  BY <1>2, <1>3, Typed, TypesFollow DEF TicketsKept

\* The end of a run with a review, whose clearing writes may fail.
LEMMA ClearRetryInv ==
    ASSUME SpendingInv, NEW n \in DOMAIN runs, ClearRetry(n)
    PROVE  SpendingInv'
<1> DEFINE c == runs[n].commit
           cleared == [cooldown EXCEPT ![c] = NoRow]
           without == {a \in attempts : a.run # n}
<1>1. /\ TypeOK /\ Clock /\ runs[n].pc = "settle" /\ UNCHANGED <<now, reviews>>
      /\ End(n, "stored") /\ ReleaseTicket(n)
      /\ cooldown' \in {cleared, cooldown} /\ attempts' \in {without, attempts}
      /\ Works \/ Fails
  BY DEF ClearRetry, SpendingInv, Types
<1>2. Moving /\ Others(n) /\ runs'[n].pc = "stored"
  BY <1>1, EndMoves DEF Moves
<1>3. Quiet
  BY <1>1, <1>2, QuietRun DEF Bidding
<1>4. TicketsKept
  BY <1>1, <1>2, Released DEF TicketsKept, Ended
<1>5. faults' \in 0 .. MaxTroubles
  BY <1>1, FaultAllowed DEF Works, TypeOK
<1>6. c \in Commits /\ \A d \in Commits : cooldown[d].count \in Nat
  BY <1>1, Typed, RunFields
<1>7. cleared \in Cooldowns /\ \A d \in Commits : cleared[d].count <= cooldown[d].count
  <2>1. NoRow.count <= cooldown[c].count
    BY <1>6, NoRowTyped
  <2> QED
    BY <1>6, <2>1, NoRowTyped, OneCooldown
<1> HIDE DEF cleared
<1>8. /\ cooldown' \in Cooldowns
      /\ \A d \in Commits : cooldown'[d].count <= cooldown[d].count
  BY <1>1, <1>6, <1>7, Typed
<1>9. attempts' \subseteq attempts
  BY <1>1
<1>10. Tried'
  <2> SUFFICES ASSUME NEW m \in DOMAIN runs, runs'[m].pc \in Vain,
                      runs'[m].start >= now - Retention
               PROVE  [run |-> m, at |-> runs'[m].start] \in attempts'
    BY <1>1, <1>2 DEF Tried, Moving
  <2>1. m # n /\ runs'[m] = runs[m]
    BY <1>2 DEF Vain, Others
  <2>2. [run |-> m, at |-> runs[m].start] \in attempts
    BY <2>1 DEF SpendingInv, Tried
  <2> QED
    BY <1>1, <2>1, <2>2
<1> QED
  BY <1>1, <1>3, <1>4, <1>5, <1>8, <1>9, <1>10, QuietInv

\* The end of a run without one.
LEMMA MarkFailureInv ==
    ASSUME SpendingInv, NEW n \in DOMAIN runs, MarkRetryFailure(n)
    PROVE  SpendingInv'
<1> DEFINE c == runs[n].commit
           row == cooldown[c]
           failed == IF row.count = 0 THEN row ELSE [row EXCEPT !.last = now, !.active = FALSE]
           marked == [cooldown EXCEPT ![c] = failed]
<1>1. /\ TypeOK /\ Clock /\ runs[n].pc = "mark" /\ UNCHANGED <<now, reviews, attempts>>
      /\ End(n, "failed") /\ ReleaseTicket(n)
      /\ cooldown' \in {marked, cooldown}
      /\ Works \/ Fails
  BY DEF MarkRetryFailure, SpendingInv, Types
<1>2. Moving /\ Others(n) /\ runs'[n].pc = "failed"
  BY <1>1, EndMoves DEF Moves
<1>3. Quiet
  BY <1>1, <1>2, QuietRun DEF Bidding
<1>4. TicketsKept
  BY <1>1, <1>2, Released DEF TicketsKept, Ended
<1>5. faults' \in 0 .. MaxTroubles
  BY <1>1, FaultAllowed DEF Works, TypeOK
<1>6. /\ cooldown \in Cooldowns /\ now \in 0 .. MaxTime /\ now \in Int /\ c \in Commits
      /\ \A d \in Commits : cooldown[d].count \in Nat
  BY <1>1, Typed, RunFields
<1>7. failed \in CooldownRows /\ failed.count <= row.count
  <2>1. row \in CooldownRows /\ row.count \in Nat
    BY <1>6, Typed
  <2>2. /\ [row EXCEPT !.last = now, !.active = FALSE] \in CooldownRows
        /\ [row EXCEPT !.last = now, !.active = FALSE].count = row.count
    <3> HIDE DEF row
    <3> QED
      BY <1>6, <2>1 DEF CooldownRows
  <2>3. row.count <= row.count
    BY <2>1
  <2> HIDE DEF row
  <2> QED
    BY <2>1, <2>2, <2>3
<1> HIDE DEF failed
<1>8. marked \in Cooldowns /\ \A d \in Commits : marked[d].count <= cooldown[d].count
  BY <1>6, <1>7, OneCooldown
<1> HIDE DEF marked
<1>9. /\ cooldown' \in Cooldowns
      /\ \A d \in Commits : cooldown'[d].count <= cooldown[d].count
  BY <1>1, <1>6, <1>8, Typed
<1>10. Tried'
  BY <1>1, <1>3, <1>6, QuietStep
<1> QED
  BY <1>1, <1>3, <1>4, <1>5, <1>9, <1>10, QuietInv

\* No run moves.
LEMMA Standing ==
    ASSUME SpendingInv, UNCHANGED <<runs, reviews>>
    PROVE  Quiet /\ (UNCHANGED pending => TicketsKept)
<1>1. Moving
  BY RunNumbers DEF Moving, Follows, SpendingInv, Types, TypeOK, Clock
<1>2. Quiet
  BY <1>1 DEF Quiet, NoNewBids
<1>3. \A m \in InProgress : runs'[m].pc \notin Ended
  BY DEF InProgress
<1> QED
  BY <1>1, <1>2, <1>3, Untouched DEF TicketsKept

\* The sweep drops rows too old to count.
LEMMA PruneInv ==
    ASSUME SpendingInv, Prune
    PROVE  SpendingInv'
<1> DEFINE old(at) == at < now - Retention
<1>1. /\ TypeOK /\ UNCHANGED <<now, reviews, pending, runs, faults>>
      /\ cooldown' = [c \in Commits |-> IF old(cooldown[c].last) THEN NoRow ELSE cooldown[c]]
      /\ attempts' = {a \in attempts : ~ old(a.at)}
  BY DEF Prune, SpendingInv, Types
<1>2. Quiet /\ TicketsKept
  BY <1>1, Standing
<1>3. /\ cooldown \in Cooldowns /\ faults \in 0 .. MaxTroubles /\ now \in Int
      /\ \A c \in Commits : cooldown[c].count \in Nat
  BY Typed
<1>4. /\ cooldown' \in Cooldowns
      /\ \A c \in Commits : cooldown'[c].count <= cooldown[c].count
  BY <1>1, <1>3, NoRowTyped DEF Cooldowns
<1>5. Tried'
  <2> SUFFICES ASSUME NEW m \in DOMAIN runs, runs[m].pc \in Vain,
                      runs[m].start >= now - Retention
               PROVE  [run |-> m, at |-> runs[m].start] \in attempts'
    BY <1>1 DEF Tried
  <2>1. [run |-> m, at |-> runs[m].start] \in attempts
    BY DEF SpendingInv, Tried
  <2>2. ~ old(runs[m].start)
    BY <1>1, <1>3, RunFields, Numbers
  <2> QED
    BY <1>1, <2>1, <2>2
<1> QED
  BY <1>1, <1>2, <1>3, <1>4, <1>5, QuietInv

\* Time passes while runs execute only.
LEMMA TickInv ==
    ASSUME SpendingInv, Tick
    PROVE  SpendingInv'
<1>1. /\ TypeOK /\ UNCHANGED <<reviews, cooldown, attempts, pending, runs, faults>>
      /\ now < MaxTime /\ Prompt /\ now' = now + 1
  BY DEF Tick, SpendingInv, Types
<1>2. Quiet /\ TicketsKept /\ Moving
  BY <1>1, Standing DEF Quiet
<1>3. /\ now \in Nat /\ now' \in 0 .. MaxTime /\ now <= now' /\ now' \in Int
  BY <1>1, Numbers DEF TypeOK
<1>4. /\ Rows' /\ Exclusive' /\ Concurrency' /\ Budget' /\ Failures'
      /\ CommitCapKept' /\ Room' /\ Repository' /\ AgentRoom' /\ Tried'
  BY <1>1, <1>2, <1>3, QuietStep
<1>5. Clock'
  <2> SUFFICES ASSUME NEW m \in DOMAIN runs
               PROVE  /\ runs[m].start <= now + 1
                      /\ runs[m].pc \notin BeforeAgents
                      /\ runs[m].agents # <<>>
    BY <1>1 DEF Clock
  <2>1. runs[m].pc \in Steps => runs[m].pc = "execute"
    BY <1>1, RunFields DEF Prompt
  <2> QED
    BY <1>1, <1>3, <2>1, RunFields DEF SpendingInv, Clock, Steps, BeforeAgents
<1>6. Types' /\ Counted'
  BY <1>1, <1>3 DEF SpendingInv, Types, TypeOK, Counted, InProgress
<1> QED
  BY <1>2, <1>4, <1>5, <1>6 DEF SpendingInv, TicketsKept

\* The daemon dies: no ticket and no run in progress is left.
LEMMA CrashInv ==
    ASSUME SpendingInv, Crash
    PROVE  SpendingInv'
<1> DEFINE over(n) == CASE runs[n].pc \in Ended -> runs[n].pc
                        [] Stored(n) -> "stored"
                        [] runs[n].pc \in BeforeAgents -> "deferred"
                        [] OTHER -> "dead"
<1>1. /\ TypeOK /\ Clock /\ UNCHANGED <<now, reviews, attempts>> /\ Fails
      /\ runs' = [n \in DOMAIN runs |-> Over(runs[n], over(n))]
      /\ pending' = {}
      /\ cooldown' = [c \in Commits |-> [cooldown[c] EXCEPT !.active = FALSE]]
  BY DEF Crash, SpendingInv, Types
<1>2. ASSUME NEW m \in DOMAIN runs
      PROVE  /\ over(m) \in Ended
             /\ over(m) = runs[m].pc \/ <<runs[m].pc, over(m)>> \in Moves
             /\ over(m) = "stored" => runs[m].pc \in Reported
             /\ over(m) = "failed" => runs[m].pc = "failed"
             /\ over(m) = "dead" => runs[m].pc \in Vain
  <2>1. Stored(m) <=> runs[m].pc \in Reported
    BY DEF SpendingInv, Rows, Stored
  <2>2. runs[m].pc \in Steps \cup Ended
    BY <1>1, RunFields
  <2> QED
    BY <2>1, <2>2 DEF Reported, Steps, Ended, BeforeAgents, Moves, Vain
<1> HIDE DEF over
<1>3. ASSUME NEW m \in DOMAIN runs
      PROVE  /\ runs'[m] \in Runs /\ runs'[m].pc = over(m)
             /\ Follows(runs[m], runs'[m])
  <2>1. runs[m] \in Runs /\ over(m) \in Steps \cup Ended /\ runs'[m] = Over(runs[m], over(m))
    BY <1>1, <1>2, RunNumbers
  <2> QED
    BY <1>2, <2>1, IsOver DEF Follows
<1>4. Moving
  <2>1. DOMAIN runs' = DOMAIN runs /\ DOMAIN runs = 1 .. Len(runs) /\ Len(runs) \in Nat
    BY <1>1, RunNumbers
  <2>2. runs' \in [1 .. Len(runs) -> Runs]
    BY <1>1, <1>3, <2>1
  <2>3. runs' \in Seq(Runs)
    BY <2>1, <2>2
  <2> QED
    BY <1>3, <2>1, <2>3 DEF Moving
<1>5. Quiet
  BY <1>1, <1>2, <1>3, <1>4 DEF Quiet, NoNewBids, Reported, Vain, Passed, Bidding, Ended
<1>6. TicketsKept
  <2>1. \A m \in InProgress' : FALSE
    BY <1>2, <1>3, <1>4 DEF InProgress, Moving
  <2> QED
    BY <1>1, <2>1, FS_EmptySet DEF TicketsKept, Tickets
<1>7. /\ cooldown \in Cooldowns /\ now \in Int
      /\ \A c \in Commits : cooldown[c].count \in Nat
  BY Typed
<1>8. /\ cooldown' \in Cooldowns
      /\ \A c \in Commits : cooldown'[c].count <= cooldown[c].count
  <2>1. \A c \in Commits : /\ [cooldown[c] EXCEPT !.active = FALSE] \in CooldownRows
                           /\ [cooldown[c] EXCEPT !.active = FALSE].count = cooldown[c].count
    BY Typed DEF CooldownRows
  <2>2. /\ DOMAIN cooldown' = Commits
        /\ \A c \in Commits : cooldown'[c] \in CooldownRows
                             /\ cooldown'[c].count = cooldown[c].count
    BY <1>1, <2>1
  <2>3. cooldown' \in Cooldowns
    BY <1>1, <2>1 DEF Cooldowns
  <2> QED
    BY <1>7, <2>2, <2>3
<1>9. Tried'
  BY <1>1, <1>5, <1>7, QuietStep
<1> QED
  BY <1>1, <1>5, <1>6, <1>8, <1>9, FaultAllowed, QuietInv

-----------------------------------------------------------------------------
(* Choosing the agents *)

\* The list of usable agents consists of agents, and an automatic run has room
\* in the budget of each.
LEMMA UsableFits ==
    ASSUME NEW n, runs[n].force \in BOOLEAN
    PROVE  /\ Usable(n) \in Seq(Agents)
           /\ ~runs[n].force => \A a : Among(a, Usable(n)) => Fits(n, a)
<1> DEFINE ok(i) == runs[n].force \/ Fits(n, Flow[i])
           Good == {s \in Seq(Agents) :
                        ~runs[n].force => \A a : Among(a, s) => Fits(n, a)}
           values(f) == [i \in 0 .. Len(Flow) |->
                            IF i = 0 THEN <<>>
                            ELSE IF ok(i) THEN Append(f[i - 1], Flow[i]) ELSE f[i - 1]]
           passed == CHOOSE f : f = values(f)
           step == [p \in Nat \X Good |->
                       IF p[1] \in 1 .. Len(Flow) /\ ok(p[1])
                       THEN Append(p[2], Flow[p[1]]) ELSE p[2]]
<1>1. Flow \in Seq(Agents) /\ Len(Flow) \in Nat
  BY LimitsAssumption
<1>2. <<>> \in Good
  BY DEF Among
<1>3. ASSUME NEW i \in 1 .. Len(Flow), ok(i), NEW s \in Good
      PROVE  Append(s, Flow[i]) \in Good
  <2>1. s \in Seq(Agents) /\ Flow[i] \in Agents /\ Append(s, Flow[i]) \in Seq(Agents)
    BY <1>1
  <2>2. ASSUME NEW a, Among(a, Append(s, Flow[i])), ~runs[n].force
        PROVE  Fits(n, a)
    <3>1. PICK j \in DOMAIN Append(s, Flow[i]) : Append(s, Flow[i])[j] = a
      BY <2>2 DEF Among
    <3>2. (j \in DOMAIN s /\ s[j] = a) \/ a = Flow[i]
      BY <2>1, <3>1
    <3>3. CASE j \in DOMAIN s /\ s[j] = a
      BY <2>2, <3>3 DEF Among
    <3>4. CASE a = Flow[i]
      BY <1>3, <2>2, <3>4
    <3> QED
      BY <3>2, <3>3, <3>4
  <2> QED
    BY <2>1, <2>2
<1>4. step \in [Nat \X Good -> Good]
  <2>1. ASSUME NEW i \in Nat, NEW s \in Good
        PROVE  (IF i \in 1 .. Len(Flow) /\ ok(i) THEN Append(s, Flow[i]) ELSE s) \in Good
    BY <1>3
  <2> HIDE DEF Good, ok
  <2> QED
    BY <2>1
<1> HIDE DEF Good
<1>5. PICK f \in [0 .. Len(Flow) -> Good] :
          f[0] = <<>> /\ \A i \in 1 .. Len(Flow) : f[i] = step[<<i, f[i - 1]>>]
  <2> DEFINE base == <<>>
  <2>1. base \in Good
    BY <1>2
  <2> HIDE DEF step, ok, values, passed, base
  <2>2. Loops(Good, base, step, Len(Flow))
    BY <1>1, <2>1, <1>4, LoopValues
  <2> QED
    BY <2>2 DEF base, Loops
<1>6. f = values(f)
  <2>1. ASSUME NEW i \in 1 .. Len(Flow)
        PROVE  f[i] = IF ok(i) THEN Append(f[i - 1], Flow[i]) ELSE f[i - 1]
    <3>1. <<i, f[i - 1]>> \in Nat \X Good
      BY <1>1
    <3>2. step[<<i, f[i - 1]>>] = IF ok(i) THEN Append(f[i - 1], Flow[i]) ELSE f[i - 1]
      <4> HIDE DEF ok
      <4> QED
        BY <3>1
    <3> QED
      BY <1>5, <3>2
  <2> HIDE DEF step, ok
  <2>2. ASSUME NEW i \in 0 .. Len(Flow)
        PROVE  f[i] = IF i = 0 THEN <<>>
                      ELSE IF ok(i) THEN Append(f[i - 1], Flow[i]) ELSE f[i - 1]
    <3>1. i = 0 \/ i \in 1 .. Len(Flow)
      BY <1>1
    <3> QED
      BY <1>5, <2>1, <3>1
  <2> QED
    BY <1>5, <2>2
<1>7. passed = values(passed)
  <2> HIDE DEF values
  <2> QED
    BY <1>6
<1>8. Usable(n) = passed[Len(Flow)]
  BY DEF Usable
<1> HIDE DEF passed
<1>9. \A i \in 0 .. Len(Flow) : passed[i] \in Good
  <2> DEFINE bad == {i \in 0 .. Len(Flow) : passed[i] \notin Good}
  <2>1. SUFFICES ASSUME bad # {}
                 PROVE  FALSE
    OBVIOUS
  <2>2. PICK i \in bad : \A j \in bad : i <= j
    <3>1. bad \in SUBSET Nat
      OBVIOUS
    <3> HIDE DEF bad
    <3> QED
      BY <2>1, <3>1, LeastNatural
  <2>3. i # 0
    BY <1>1, <1>2, <1>7, <2>2
  <2>4. i \in 1 .. Len(Flow) /\ i - 1 \in 0 .. Len(Flow) /\ passed[i - 1] \in Good
    BY <1>1, <2>2, <2>3
  <2>5. passed[i] = IF ok(i) THEN Append(passed[i - 1], Flow[i]) ELSE passed[i - 1]
    <3> HIDE DEF ok
    <3> QED
      BY <1>7, <2>2, <2>3
  <2> HIDE DEF ok
  <2> QED
    BY <1>3, <2>2, <2>4, <2>5
<1> QED
  BY <1>1, <1>8, <1>9 DEF Good

\* The runs in progress are no more than the workers, whatever they are called.
LEMMA FewInProgress ==
    ASSUME SpendingInv, NEW S \in SUBSET InProgress
    PROVE  IsFiniteSet(S) /\ Cardinality(S) \in Nat /\ Cardinality(S) <= Workers
<1>1. IsFiniteSet(InProgress) /\ Cardinality(InProgress) <= Workers
  BY RunNumbers, FS_Subset DEF InProgress, SpendingInv, Types, Concurrency
<1>2. /\ IsFiniteSet(S) /\ Cardinality(S) \in Nat /\ Cardinality(InProgress) \in Nat
      /\ Cardinality(S) <= Cardinality(InProgress)
  BY <1>1, FewerElements
<1> QED
  BY <1>1, <1>2, Numbers

\* The choice of the agents with room brings few more runs within their windows.
LEMMA SelectInv ==
    ASSUME SpendingInv, NEW n \in DOMAIN runs, SelectCLIs(n)
    PROVE  SpendingInv'
<1> DEFINE usable == Usable(n)
           x == [runs[n] EXCEPT !.pc = "check", !.agents = usable]
<1>1. /\ runs[n].pc = "select" /\ UNCHANGED <<now, reviews, cooldown, attempts, faults>>
      /\ \/ Deferred(n)
         \/ usable # <<>> /\ runs' = [runs EXCEPT ![n] = x] /\ UNCHANGED pending
  BY DEF SelectCLIs
<1>2. CASE Deferred(n)
  BY <1>1, <1>2, DeferredInv DEF BeforeAgents
<1>3. CASE usable # <<>> /\ runs' = [runs EXCEPT ![n] = x] /\ UNCHANGED pending
  <2>1. /\ TypeOK /\ Clock /\ runs[n] \in Runs /\ runs[n].force \in BOOLEAN
        /\ runs[n].start = now /\ now \in Nat
    BY <1>1, Typed, RunNumbers, RunFields DEF Clock, BeforeAgents
  <2>2. /\ usable \in Seq(Agents)
        /\ ~runs[n].force => \A a : Among(a, usable) => Fits(n, a)
    BY <2>1, UsableFits
  <2> HIDE DEF usable
  <2>3. /\ x \in Runs /\ x.pc = "check" /\ x.commit = runs[n].commit /\ x.agents = usable
        /\ x.force = runs[n].force /\ x.start = runs[n].start
    BY <2>1, <2>2 DEF Runs, Steps, BeforeAgents
  <2> HIDE DEF x
  <2>4. Follows(runs[n], x)
    BY <1>1, <1>3, <2>3 DEF Follows, Moves
  <2>5. Moving /\ Others(n) /\ runs'[n] = x
    BY <1>3, <2>1, <2>3, <2>4, OneMoves
  <2>6. TicketsKept
    <3>1. \A m \in InProgress : runs'[m].pc \notin Ended
      BY <2>3, <2>5 DEF InProgress, Others, Ended
    <3> QED
      BY <1>3, <2>5, <3>1, Untouched DEF TicketsKept
  <2>7. Types' /\ Counted'
    BY <1>1, <2>5, <2>6, SameTables
  <2>8. /\ \A m \in DOMAIN runs : runs'[m].pc \in Reported => runs[m].pc \in Reported
        /\ \A m \in DOMAIN runs : runs'[m].pc \in Vain => runs[m].pc \in Vain
        /\ \A m \in DOMAIN runs : runs'[m].pc \in Passed => runs[m].pc \in Passed
    BY <2>3, <2>5 DEF Others, Reported, Vain, Passed
  <2>9. Rows' /\ Exclusive' /\ Concurrency' /\ Budget' /\ Clock'
    BY <1>1, <2>1, <2>5, <2>8, KeepsRows, KeepsSlots, KeepsClock
  <2>10. Failures' /\ Tried' /\ CommitCapKept' /\ Room' /\ Repository'
    BY <1>1, <2>1, <2>5, <2>8, KeepsFailures, KeepsTried, SameRows, KeepsRoom
  <2>11. AgentRoom'
    <3> SUFFICES ASSUME NEW a \in Agents, AgentLimit[a] > 0
                 PROVE  Fitting(AgentLimit[a] + Workers - 1, Candidates(a)', Starts',
                                AgentWindow)
      BY DEF AgentRoom
    <3>1. Candidates(a)' \subseteq Candidates(a) \cup {n}
      BY <1>1, <2>5 DEF Candidates, Moving, Others, Automatic
    <3>2. \A m \in DOMAIN runs : runs'[m].start = runs[m].start /\ runs[m].start <= now
                                 /\ runs[m].start \in Nat
      BY <2>1, <2>3, <2>5, RunFields DEF Others, Clock
    <3>3. Candidates(a)' \subseteq DOMAIN runs /\ Candidates(a) \subseteq DOMAIN runs
      BY <2>5 DEF Candidates, Moving
    <3>4. CASE n \notin Candidates(a)'
      BY <2>5, <3>1, <3>2, <3>3, <3>4, FewerCandidates
    <3>5. CASE n \in Candidates(a)'
      <4> DEFINE late == {m \in Candidates(a)' : Within(Starts'[m], now, AgentWindow)}
                 rows == {r \in reviews : r.cli = a /\ Within(r.at, now, AgentWindow)}
                 tickets == {t \in pending : /\ t.run # n /\ t.cli = a
                                             /\ Within(t.at, now, AgentWindow)}
                 stored == {m \in late : \E r \in rows : r.run = m}
                 running == {m \in late : runs'[m].pc \in Bidding}
                 limit == AgentLimit[a] + Workers - 1
      <4>1. Fits(n, a)
        <5>1. ~runs[n].force /\ (Among(a, usable) \/ \E r \in reviews : r.run = n)
          BY <1>1, <2>3, <2>5, <3>5 DEF Candidates, Automatic
        <5>2. ~ \E r \in reviews : r.run = n
          BY <1>1 DEF SpendingInv, Rows, Reported
        <5> QED
          BY <2>2, <5>1, <5>2
      <4>2. /\ Cardinality(rows) \in Nat /\ IsFiniteSet(rows)
            /\ Cardinality(rows) < AgentLimit[a]
        <5>1. IsFiniteSet(rows) /\ IsFiniteSet(tickets)
          BY FS_Subset DEF SpendingInv, Types
        <5>2. Cardinality(rows) \in Nat /\ Cardinality(tickets) \in Nat
          BY <5>1, FS_CardinalityType
        <5>3. Cardinality(rows) + Cardinality(tickets) < AgentLimit[a]
          BY <4>1 DEF Fits, AgentSpend
        <5>4. AgentLimit[a] \in Nat
          BY LimitsAssumption
        <5> HIDE DEF rows, tickets
        <5> QED
          BY <5>1, <5>2, <5>3, <5>4
      <4>3. late \in SUBSET (stored \cup running)
        <5> SUFFICES ASSUME NEW m \in late, runs'[m].pc \notin Bidding
                     PROVE  \E r \in rows : r.run = m
          OBVIOUS
        <5>1. m \in DOMAIN runs /\ runs[m].start >= now - AgentWindow
          BY <2>5, <3>2, <3>3 DEF Within, Starts, Moving
        <5>2. PICK r \in reviews : r.run = m /\ r.cli = a
          BY <1>1 DEF Candidates
        <5>3. runs[m].start <= r.at /\ r.at \in Int
          BY <5>2, <2>1 DEF SpendingInv, Rows, TypeOK
        <5>4. Within(r.at, now, AgentWindow)
          BY <2>1, <3>2, <5>1, <5>3, Numbers DEF Within
        <5> QED
          BY <5>2, <5>4
      <4>4. /\ IsFiniteSet(stored) /\ Cardinality(stored) \in Nat
            /\ Cardinality(stored) <= Cardinality(rows)
        BY <4>2, Represented
      <4>5. /\ IsFiniteSet(running) /\ Cardinality(running) \in Nat
            /\ Cardinality(running) <= Workers
        <5>1. running \in SUBSET InProgress
          <6> SUFFICES ASSUME NEW m \in running
                       PROVE  m \in InProgress
            OBVIOUS
          <6>1. m \in DOMAIN runs /\ runs'[m].pc \in Steps
            BY <3>3 DEF Bidding, Steps, BeforeAgents
          <6>2. runs[m].pc \in Steps
            BY <2>5, <6>1, Back DEF Moving
          <6> QED
            BY <2>1, <6>1, <6>2, RunFields
        <5> HIDE DEF running
        <5> QED
          BY <5>1, FewInProgress
      <4> HIDE DEF stored, running, rows
      <4>6. /\ Cardinality(late) \in Nat
            /\ Cardinality(late) <= Cardinality(stored) + Cardinality(running)
        BY <4>3, <4>4, <4>5, CoveredByTwo
      <4>7. limit \in Int /\ Cardinality(late) <= limit
        <5>1. AgentLimit[a] \in Nat
          BY LimitsAssumption
        <5>2. Workers \in Nat
          BY Numbers
        <5> QED
          BY <4>2, <4>4, <4>5, <4>6, <5>1, <5>2
      <4>8. IsFiniteSet(Candidates(a)) /\ Fitting(limit, Candidates(a), Starts, AgentWindow)
        BY <2>1, RunNumbers, FS_Subset DEF Candidates, SpendingInv, AgentRoom
      <4>9. \A m \in Candidates(a)' :
                /\ Starts'[m] \in Int /\ Starts'[m] <= now
                /\ Starts'[m] = now \/ (m \in Candidates(a) /\ Starts'[m] = Starts[m])
        BY <2>1, <2>5, <3>1, <3>2, <3>3 DEF Starts, Moving
      <4>10. now \in Int /\ AgentWindow \in Nat
        BY <2>1, Numbers
      <4> HIDE DEF limit
      <4>11. Fitting(limit, Candidates(a)', Starts', AgentWindow)
        BY <4>7, <4>8, <4>9, <4>10, GrownFits
      <4> QED
        BY <4>11 DEF limit
    <3> QED
      BY <3>4, <3>5
  <2> QED
    BY <2>6, <2>7, <2>9, <2>10, <2>11 DEF SpendingInv, TicketsKept
<1> QED
  BY <1>1, <1>2, <1>3

\* The breaker, the cooldown and the pass to the reservation.
LEMMA CheckInv ==
    ASSUME SpendingInv, NEW n \in DOMAIN runs, Check(n)
    PROVE  SpendingInv'
<1> DEFINE c == runs[n].commit
           prior == IF runs[n].force THEN 0 ELSE cooldown[c].count
           x == [runs[n] EXCEPT !.pc = "reserve", !.prior = prior]
<1>1. /\ runs[n].pc = "check" /\ UNCHANGED <<now, reviews, cooldown, attempts, faults>>
      /\ \/ Deferred(n)
         \/ /\ ~runs[n].force => ~Tripped(c)
            /\ runs' = [runs EXCEPT ![n] = x] /\ UNCHANGED pending
  BY DEF Check
<1>2. CASE Deferred(n)
  BY <1>1, <1>2, DeferredInv DEF BeforeAgents
<1>3. CASE (~runs[n].force => ~Tripped(c)) /\ runs' = [runs EXCEPT ![n] = x] /\ UNCHANGED pending
  <2>1. /\ TypeOK /\ Clock /\ runs[n] \in Runs /\ now \in Nat /\ c \in Commits
        /\ IsFiniteSet(reviews)
    BY Typed, RunNumbers, RunFields DEF SpendingInv, Types
  <2>2. prior \in 0 .. MaxRuns
    BY <2>1, Typed, Numbers DEF CooldownRows
  <2> HIDE DEF prior
  <2>3. /\ x \in Runs /\ x.pc = "reserve" /\ x.commit = c /\ x.agents = runs[n].agents
        /\ x.force = runs[n].force /\ x.start = runs[n].start
    BY <2>1, <2>2 DEF Runs, Steps, BeforeAgents
  <2> HIDE DEF x
  <2>4. Follows(runs[n], x)
    BY <1>1, <2>1, <2>3 DEF Follows, Moves, Clock
  <2>5. Moving /\ Others(n) /\ runs'[n] = x
    BY <1>3, <2>1, <2>3, <2>4, OneMoves
  <2>6. TicketsKept
    <3>1. \A m \in InProgress : runs'[m].pc \notin Ended
      BY <2>3, <2>5 DEF InProgress, Others, Ended
    <3> QED
      BY <1>3, <2>5, <3>1, Untouched DEF TicketsKept
  <2>7. Types' /\ Counted'
    BY <1>1, <2>5, <2>6, SameTables
  <2>8. /\ \A m \in DOMAIN runs : runs'[m].pc \in Reported => runs[m].pc \in Reported
        /\ \A m \in DOMAIN runs : runs'[m].pc \in Vain => runs[m].pc \in Vain
        /\ NoNewBids
    BY <1>1, <2>3, <2>5 DEF Others, Reported, Vain, NoNewBids, Bidding
  <2>9. Rows' /\ Exclusive' /\ Concurrency' /\ Budget' /\ Clock'
    BY <1>1, <2>1, <2>5, <2>8, KeepsRows, KeepsSlots, KeepsClock
  <2>10. Failures' /\ Tried' /\ CommitCapKept' /\ AgentRoom'
    BY <1>1, <2>1, <2>5, <2>8, KeepsFailures, KeepsTried, SameRows, KeepsAgents
  <2>11. Room' /\ Repository'
    <3>1. CASE runs[n].force
      <4>1. /\ Stage(Passed)' = Stage(Passed) /\ AutoRows' = AutoRows /\ RowTimes' = RowTimes
            /\ \A m \in Stage(Passed) : runs'[m].commit = runs[m].commit
        BY <1>1, <2>3, <2>5, <3>1, SameRows DEF Stage, Moving, Others, Automatic
      <4> QED
        BY <1>1, <4>1 DEF SpendingInv, Room, Repository
    <3>2. CASE ~runs[n].force
      <4>1. ~Tripped(c)
        BY <1>3, <3>2
      <4>2. Room'
        <5> SUFFICES ASSUME NEW m \in Stage(Passed)', CommitCap > 0
                     PROVE  Cardinality({r \in reviews : /\ r.commit = runs'[m].commit
                                                         /\ Within(r.at, now, CommitWindow)})
                            < CommitCap
          BY <1>1 DEF Room
        <5>1. CASE m = n
          <6> DEFINE rows == {r \in reviews : /\ r.commit = c
                                              /\ Within(r.at, now, CommitWindow)}
          <6>1. IsFiniteSet(rows)
            BY <2>1, FS_Subset
          <6>2. Cardinality(rows) \in Nat
            BY <6>1, FS_CardinalityType
          <6>3. ~(CommitCap <= Cardinality(rows))
            BY <4>1 DEF Tripped
          <6> HIDE DEF rows
          <6>4. Cardinality(rows) < CommitCap
            BY <6>2, <6>3, Numbers
          <6> QED
            BY <2>3, <2>5, <5>1, <6>4 DEF rows
        <5>2. CASE m # n
          <6>1. m \in Stage(Passed) /\ runs'[m] = runs[m]
            BY <2>5, <5>2 DEF Stage, Moving, Others, Automatic
          <6> QED
            BY <6>1 DEF SpendingInv, Room
        <5> QED
          BY <5>1, <5>2
      <4>3. Repository'
        <5> SUFFICES ASSUME RepoCap > 0
                     PROVE  /\ Fitting(RepoCap + Workers - 1, AutoRows, RowTimes, RepoWindow)
                            /\ Cardinality({r \in AutoRows : Within(r.at, now, RepoWindow)})
                                  + Cardinality(Stage(Passed)') <= RepoCap + Workers - 1
          BY <1>1, <2>5, SameRows DEF Repository
        <5> DEFINE rows == {r \in reviews : Within(r.at, now, RepoWindow)}
                   auto == {r \in AutoRows : Within(r.at, now, RepoWindow)}
        <5>1. IsFiniteSet(rows) /\ auto \in SUBSET rows
          BY <2>1, FS_Subset DEF AutoRows
        <5>2. ~(RepoCap <= Cardinality(rows))
          BY <4>1 DEF Tripped
        <5> HIDE DEF rows, auto
        <5>3. /\ Cardinality(auto) \in Nat /\ Cardinality(rows) \in Nat
              /\ Cardinality(auto) <= Cardinality(rows)
          BY <5>1, FewerElements
        <5>4. Stage(Passed)' \in SUBSET InProgress
          <6> SUFFICES ASSUME NEW m \in Stage(Passed)'
                       PROVE  m \in InProgress
            OBVIOUS
          <6>1. m \in DOMAIN runs /\ runs'[m].pc \in Steps
            BY <2>5 DEF Stage, Moving, Passed, Steps, BeforeAgents
          <6>2. runs[m].pc \in Steps
            BY <2>5, <6>1, Back DEF Moving
          <6> QED
            BY <2>1, <6>1, <6>2, RunFields
        <5>5. Cardinality(Stage(Passed)') \in Nat /\ Cardinality(Stage(Passed)') <= Workers
          BY <5>4, FewInProgress
        <5>6. Cardinality(auto) + Cardinality(Stage(Passed)') <= RepoCap + Workers - 1
          BY <5>2, <5>3, <5>5, Numbers
        <5> QED
          BY <5>6 DEF auto, SpendingInv, Repository
      <4> QED
        BY <4>2, <4>3
    <3> QED
      BY <3>1, <3>2
  <2> QED
    BY <2>6, <2>7, <2>9, <2>10, <2>11 DEF SpendingInv, TicketsKept
<1> QED
  BY <1>1, <1>2, <1>3

\* Rotating a list of agents keeps its agents.
LEMMA RotatedList ==
    ASSUME NEW list \in Seq(Agents), list # <<>>, NEW k \in 0 .. Len(list)
    PROVE  /\ RotatedBy(list, k) \in Seq(Agents) /\ RotatedBy(list, k) # <<>>
           /\ Head(RotatedBy(list, k)) \in Agents
           /\ \A a : Among(a, RotatedBy(list, k)) => Among(a, list)
<1> DEFINE s == SubSeq(list, k + 1, Len(list))
           t == SubSeq(list, 1, k)
<1>1. /\ s \in Seq(Agents) /\ Len(s) = Len(list) - k
      /\ \A i \in 1 .. Len(list) - k : s[i] = list[k + i]
  OBVIOUS
<1>2. t \in Seq(Agents) /\ Len(t) = k /\ \A i \in 1 .. k : t[i] = list[i]
  OBVIOUS
<1>3. RotatedBy(list, k) = s \o t
  BY DEF RotatedBy
<1> HIDE DEF s, t
<1>4. /\ s \o t \in Seq(Agents) /\ Len(s \o t) = Len(list) /\ Len(list) \in Nat
      /\ Len(list) > 0
  <2>1. Len(list) \in Nat /\ Len(list) > 0
    OBVIOUS
  <2>2. s \o t \in Seq(Agents) /\ Len(s \o t) = Len(s) + Len(t)
    <3>1. s \in Seq(Agents) /\ t \in Seq(Agents)
      BY <1>1, <1>2
    <3> QED
      BY <3>1, ConcatProperties
  <2> QED
    BY <1>1, <1>2, <2>1, <2>2
<1>5. \A a : Among(a, s \o t) => Among(a, list)
  <2> SUFFICES ASSUME NEW i \in 1 .. Len(list)
               PROVE  \E j \in DOMAIN list : list[j] = (s \o t)[i]
    BY <1>4 DEF Among
  <2>1. CASE i <= Len(list) - k
    <3>1. (s \o t)[i] = list[k + i] /\ k + i \in DOMAIN list
      BY <1>1, <1>2, <2>1
    <3> QED
      BY <3>1
  <2>2. CASE i > Len(list) - k
    <3>1. /\ (s \o t)[i] = list[i - (Len(list) - k)]
          /\ i - (Len(list) - k) \in DOMAIN list
      <4> DEFINE j == i - (Len(list) - k)
      <4>1. j \in 1 .. k /\ j \in DOMAIN list /\ i \in 1 .. Len(s) + Len(t) /\ i > Len(s)
            /\ i - Len(s) = j
        BY <1>1, <1>2, <1>4, <2>2
      <4>2. (s \o t)[i] = t[i - Len(s)]
        BY <1>1, <1>2, <4>1
      <4> QED
        BY <1>2, <4>1, <4>2
    <3> QED
      BY <3>1
  <2> QED
    BY <1>4, <2>1, <2>2
<1> QED
  BY <1>3, <1>4, <1>5

\* The run that reserves starts its first agent.
LEMMA RotateMoves ==
    ASSUME SpendingInv, NEW n \in DOMAIN runs, runs[n].pc = "reserve", Rotate(n)
    PROVE  /\ Moving /\ Others(n) /\ TicketsKept
           /\ runs'[n].pc = "execute"
           /\ \A a : Among(a, runs'[n].agents) => Among(a, runs[n].agents)
<1> DEFINE agents == runs[n].agents
           k == runs[n].prior % Len(agents)
           rotated == RotatedBy(agents, k)
           x == [runs[n] EXCEPT !.pc = "execute", !.agents = rotated]
<1>1. TypeOK /\ Clock /\ runs[n] \in Runs
  BY Typed, RunNumbers
<1>2. /\ agents \in Seq(Agents) /\ agents # <<>> /\ Len(agents) \in Nat /\ Len(agents) > 0
      /\ runs[n].prior \in Nat
  BY <1>1, Numbers DEF Runs, Clock
<1>3. k \in 0 .. Len(agents)
  BY <1>2
<1>4. /\ rotated \in Seq(Agents) /\ rotated # <<>> /\ Head(rotated) \in Agents
      /\ \A a : Among(a, rotated) => Among(a, agents)
  <2> HIDE DEF k, agents
  <2> QED
    BY <1>2, <1>3, RotatedList
<1>5. \/ runs' = [runs EXCEPT ![n] = x] /\ Charge(n, Head(rotated))
      \/ Goto(n, "execute") /\ UNCHANGED pending
  BY DEF Rotate
<1>6. CASE runs' = [runs EXCEPT ![n] = x] /\ Charge(n, Head(rotated))
  <2> HIDE DEF rotated
  <2>1. /\ x \in Runs /\ x.pc = "execute" /\ x.commit = runs[n].commit /\ x.agents = rotated
        /\ x.force = runs[n].force /\ x.start = runs[n].start
    BY <1>1, <1>4 DEF Runs, Steps
  <2> HIDE DEF x
  <2>2. Follows(runs[n], x)
    BY <1>4, <2>1 DEF Follows, Moves
  <2>3. Moving /\ Others(n) /\ runs'[n] = x
    BY <1>1, <1>6, <2>1, <2>2, OneMoves
  <2>4. runs'[n].pc \notin Ended
    BY <2>1, <2>3 DEF Ended
  <2>5. TicketsKept
    BY <1>4, <1>6, <2>3, <2>4, Recharged DEF TicketsKept
  <2> QED
    BY <1>4, <2>1, <2>3, <2>5
<1>7. CASE Goto(n, "execute") /\ UNCHANGED pending
  <2>1. /\ Moving /\ Others(n)
        /\ runs'[n].pc = "execute" /\ runs'[n].agents = runs[n].agents
    BY <1>1, <1>7, GotoMoves DEF Moves
  <2>2. \A m \in InProgress : runs'[m].pc \notin Ended
    BY <2>1 DEF InProgress, Others, Ended
  <2>3. TicketsKept
    BY <1>7, <2>1, <2>2, Untouched DEF TicketsKept
  <2> QED
    BY <2>1, <2>3
<1> QED
  BY <1>5, <1>6, <1>7

\* The reservation, which takes the run to its first agent.
LEMMA ReserveInv ==
    ASSUME SpendingInv, NEW n \in DOMAIN runs, ReserveRetryAttempt(n)
    PROVE  SpendingInv'
<1> DEFINE c == runs[n].commit
           row == [count |-> cooldown[c].count + 1, last |-> runs[n].start, active |-> TRUE]
           recent == RecentAttempts(now)
           new == [run |-> n, at |-> now]
<1>1. /\ TypeOK /\ Clock /\ runs[n].pc = "reserve" /\ now \in Nat /\ now \in 0 .. MaxTime
      /\ runs[n].start = now /\ UNCHANGED <<now, reviews, faults>> /\ c \in Commits
      /\ runs[n].force \in BOOLEAN
  BY Typed, RunFields DEF Clock, BeforeAgents, ReserveRetryAttempt
<1>2. \/ Deferred(n) /\ UNCHANGED <<attempts, cooldown>>
      \/ /\ ~runs[n].force => ~(Cardinality(recent) >= FailureLimit)
         /\ attempts' = attempts \cup {new} /\ AdvanceRetryBackoff(n) /\ Rotate(n)
  BY <1>1 DEF ReserveRetryAttempt
<1>3. CASE Deferred(n) /\ UNCHANGED <<attempts, cooldown>>
  BY <1>1, <1>3, DeferredInv DEF BeforeAgents
<1>4. CASE /\ ~runs[n].force => ~(Cardinality(recent) >= FailureLimit)
           /\ attempts' = attempts \cup {new} /\ AdvanceRetryBackoff(n) /\ Rotate(n)
  <2>1. /\ Moving /\ Others(n) /\ TicketsKept
        /\ runs'[n].pc = "execute"
        /\ \A a : Among(a, runs'[n].agents) => Among(a, runs[n].agents)
    BY <1>1, <1>4, RotateMoves
  <2>2. runs'[n].start = now /\ runs'[n].force = runs[n].force
    BY <1>1, <2>1, Back DEF Moving
  <2>3. Counted'
    <3> DEFINE past == {m \in DOMAIN runs : runs[m].pc \notin BeforeAgents}
               more == {m \in DOMAIN runs' : runs'[m].pc \notin BeforeAgents}
    <3>1. n \in more /\ past \in SUBSET (more \ {n}) /\ more \in SUBSET DOMAIN runs
      BY <1>1, <2>1, Back DEF Moving, BeforeAgents
    <3>2. IsFiniteSet(DOMAIN runs)
      BY <1>1, RunNumbers
    <3>3. /\ \A d \in Commits : cooldown[d].count <= Cardinality(past)
          /\ Len(runs) <= MaxRuns
      BY DEF SpendingInv, Counted
    <3>4. /\ \A d \in Commits : cooldown'[d].count \in {cooldown[d].count, cooldown[d].count + 1}
      <4>1. /\ row.count = cooldown[c].count + 1
            /\ cooldown' = [cooldown EXCEPT ![c] = row]
        BY <1>1, <1>4, Typed DEF AdvanceRetryBackoff, CooldownRows
      <4> HIDE DEF row
      <4>2. cooldown'[c] = row /\ \A d \in Commits : d # c => cooldown'[d] = cooldown[d]
        BY <1>1, <4>1, Typed DEF Cooldowns
      <4> QED
        BY <4>1, <4>2, Zenon
    <3>5. Len(runs') = Len(runs)
      BY <2>1 DEF Moving
    <3> HIDE DEF past, more
    <3>6. /\ IsFiniteSet(more) /\ Cardinality(past) \in Nat /\ Cardinality(more) \in Nat
          /\ Cardinality(past) + 1 <= Cardinality(more)
      BY <3>1, <3>2, FewerElements, OneElementLess
    <3>7. \A d \in Commits : cooldown'[d].count <= Cardinality(more)
      <4> SUFFICES ASSUME NEW d \in Commits
                   PROVE  cooldown'[d].count <= Cardinality(more)
        OBVIOUS
      <4>1. cooldown[d].count \in Nat /\ cooldown[d].count <= Cardinality(past)
        BY <3>3, Typed
      <4>2. cooldown'[d].count \in {cooldown[d].count, cooldown[d].count + 1}
        BY <3>4
      <4> QED
        BY <3>6, <4>1, <4>2
    <3> QED
      BY <3>3, <3>5, <3>7 DEF more, Counted
  <2>4. Types'
    <3>1. attempts \subseteq [run : DOMAIN runs, at : 0 .. MaxTime] /\ IsFiniteSet(attempts)
          /\ reviews \subseteq [run : DOMAIN runs, commit : Commits, cli : Agents,
                                at : 0 .. MaxTime] /\ IsFiniteSet(reviews)
      BY DEF SpendingInv, Types, TypeOK
    <3>2. /\ attempts' \subseteq [run : DOMAIN runs, at : 0 .. MaxTime]
          /\ IsFiniteSet(attempts')
      <4>1. new \in [run : DOMAIN runs, at : 0 .. MaxTime]
        BY <1>1
      <4> HIDE DEF new
      <4> QED
        BY <1>4, <3>1, <4>1, FS_AddElement
    <3>3. cooldown[c].count + 1 \in 0 .. MaxRuns
      <4>1. n \notin {m \in DOMAIN runs : runs[m].pc \notin BeforeAgents}
        BY <1>1 DEF BeforeAgents
      <4> DEFINE past == {m \in DOMAIN runs : runs[m].pc \notin BeforeAgents}
      <4>2. /\ IsFiniteSet(DOMAIN runs) /\ past \in SUBSET (DOMAIN runs \ {n})
        BY <1>1, <4>1, RunNumbers
      <4>3. cooldown[c].count <= Cardinality(past) /\ Len(runs) <= MaxRuns
        BY <1>1 DEF SpendingInv, Counted
      <4> HIDE DEF past
      <4>4. /\ Cardinality(past) \in Nat /\ Cardinality(DOMAIN runs) \in Nat
            /\ Cardinality(past) + 1 <= Cardinality(DOMAIN runs)
        BY <4>2, OneElementLess
      <4>5. Cardinality(DOMAIN runs) = Len(runs) /\ Len(runs) \in Nat
        <5>1. Len(runs) \in Nat /\ DOMAIN runs = 1 .. Len(runs) /\ 1 \in Int
          BY <1>1, RunNumbers
        <5>2. Cardinality(1 .. Len(runs)) = IF 1 > Len(runs) THEN 0 ELSE Len(runs) - 1 + 1
          BY <5>1, FS_Interval
        <5> QED
          BY <5>1, <5>2
      <4>6. cooldown[c].count \in Nat /\ MaxRuns \in Nat
        BY <1>1, Numbers, Typed
      <4> QED
        BY <4>3, <4>4, <4>5, <4>6
    <3>4. row \in CooldownRows
      BY <1>1, <3>3, Typed DEF CooldownRows
    <3>5. cooldown' \in Cooldowns
      <4>1. cooldown' = [cooldown EXCEPT ![c] = row]
        BY <1>4 DEF AdvanceRetryBackoff
      <4> HIDE DEF row
      <4> QED
        BY <3>4, <4>1, Typed DEF Cooldowns
    <3> QED
      BY <1>1, <2>1, <3>1, <3>2, <3>5, Typed, TypesFollow DEF TicketsKept
  <2>5. /\ \A m \in DOMAIN runs : runs'[m].pc \in Reported => runs[m].pc \in Reported
        /\ \A m \in DOMAIN runs : runs'[m].pc \in Passed => runs[m].pc \in Passed
        /\ NoNewBids
    BY <1>1, <2>1 DEF Others, Reported, Passed, NoNewBids, Bidding
  <2>6. Rows' /\ Exclusive' /\ Concurrency' /\ Budget' /\ Clock'
    BY <1>1, <2>1, <2>5, KeepsRows, KeepsSlots, KeepsClock
  <2>7. CommitCapKept' /\ AgentRoom' /\ Room' /\ Repository'
    BY <1>1, <2>1, <2>5, SameRows, KeepsAgents, KeepsRoom
  <2>8. Tried'
    <3> SUFFICES ASSUME NEW m \in DOMAIN runs, runs'[m].pc \in Vain,
                        runs'[m].start >= now - Retention
                 PROVE  [run |-> m, at |-> runs'[m].start] \in attempts'
      BY <1>1, <2>1 DEF Tried, Moving
    <3>1. CASE m = n
      BY <1>4, <2>2, <3>1
    <3>2. CASE m # n
      <4>1. runs'[m] = runs[m]
        BY <2>1, <3>2 DEF Others
      <4> QED
        BY <1>4, <4>1 DEF SpendingInv, Tried
    <3> QED
      BY <3>1, <3>2
  <2>9. Failures'
    <3>1. CASE runs[n].force
      <4>1. \A m \in DOMAIN runs : m # n => runs'[m] = runs[m]
        BY <2>1 DEF Others
      <4>2. Stage(Vain)' \in SUBSET Stage(Vain) /\ \A m \in Stage(Vain)' : Starts'[m] = Starts[m]
        BY <2>1, <2>2, <3>1, <4>1 DEF Stage, Moving, Automatic, Starts
      <4>3. IsFiniteSet(Stage(Vain)) /\ FailureLimit \in Int
        BY <1>1, RunNumbers, Numbers
      <4> QED
        BY <4>2, <4>3, PartFits DEF SpendingInv, Failures
    <3>2. CASE ~runs[n].force
      <4> DEFINE late == {m \in Stage(Vain)' : Within(Starts'[m], now, FailureWindow)}
                 earlier == late \ {n}
      <4>1. /\ \A m \in DOMAIN runs : m # n => runs'[m] = runs[m]
            /\ DOMAIN runs' = DOMAIN runs
        BY <2>1 DEF Others, Moving
      <4>2. IsFiniteSet(recent) /\ Cardinality(recent) \in Nat
            /\ Cardinality(recent) < FailureLimit
        <5>1. IsFiniteSet(recent)
          BY FS_Subset DEF RecentAttempts, SpendingInv, Types
        <5>2. Cardinality(recent) \in Nat /\ ~(Cardinality(recent) >= FailureLimit)
          BY <1>4, <3>2, <5>1, FS_CardinalityType
        <5> HIDE DEF recent
        <5> QED
          BY <5>1, <5>2, Numbers
      <4>3. \A m \in earlier : \E a \in recent : a.run = m
        <5> SUFFICES ASSUME NEW m \in earlier
                     PROVE  \E a \in recent : a.run = m
          OBVIOUS
        <5>1. /\ m \in DOMAIN runs /\ runs[m].pc \in Vain
              /\ runs[m].start >= now - FailureWindow
          BY <4>1 DEF Stage, Starts, Within
        <5>2. runs[m].start >= now - Retention
          BY <1>1, <5>1, RunFields, Numbers
        <5>3. [run |-> m, at |-> runs[m].start] \in attempts
          BY <5>1, <5>2 DEF SpendingInv, Tried
        <5> QED
          BY <5>1, <5>3 DEF RecentAttempts, Within
      <4>4. /\ IsFiniteSet(earlier) /\ Cardinality(earlier) \in Nat
            /\ Cardinality(earlier) <= Cardinality(recent)
        <5> HIDE DEF recent, earlier
        <5> QED
          BY <4>2, <4>3, Represented
      <4>5. Cardinality(late) \in Nat /\ Cardinality(late) <= Cardinality(earlier) + 1
        <5>1. late \in SUBSET (earlier \cup {n})
          OBVIOUS
        <5> HIDE DEF late, earlier
        <5> QED
          BY <4>4, <5>1, OneElementMore
      <4>6. Cardinality(late) <= FailureLimit /\ FailureLimit \in Int /\ FailureWindow \in Nat
        <5> HIDE DEF recent, earlier, late
        <5> QED
          BY <4>2, <4>4, <4>5, Numbers
      <4>7. IsFiniteSet(Stage(Vain)) /\ Fitting(FailureLimit, Stage(Vain), Starts, FailureWindow)
        BY <1>1, RunNumbers DEF SpendingInv, Failures
      <4>8. \A m \in Stage(Vain)' :
                /\ Starts'[m] \in Int /\ Starts'[m] <= now
                /\ Starts'[m] = now \/ (m \in Stage(Vain) /\ Starts'[m] = Starts[m])
        <5> SUFFICES ASSUME NEW m \in Stage(Vain)'
                     PROVE  /\ Starts'[m] \in Int /\ Starts'[m] <= now
                            /\ Starts'[m] = now \/ (m \in Stage(Vain) /\ Starts'[m] = Starts[m])
          OBVIOUS
        <5>1. m \in DOMAIN runs /\ runs'[m].pc \in Vain /\ ~runs'[m].force
              /\ Starts'[m] = runs'[m].start /\ Starts[m] = runs[m].start
          BY <4>1 DEF Stage, Starts, Automatic
        <5>2. CASE m = n
          BY <1>1, <2>2, <5>1, <5>2
        <5>3. CASE m # n
          BY <1>1, <4>1, <5>1, <5>3, RunFields DEF Stage, Automatic, Clock
        <5> QED
          BY <5>2, <5>3
      <4>9. Fitting(FailureLimit, Stage(Vain)', Starts', FailureWindow)
        BY <1>1, <4>6, <4>7, <4>8, GrownFits
      <4> QED
        BY <4>9 DEF Failures
    <3> QED
      BY <1>1, <3>1, <3>2
  <2> QED
    BY <2>1, <2>3, <2>4, <2>6, <2>7, <2>8, <2>9 DEF SpendingInv, TicketsKept
<1> QED
  BY <1>2, <1>3, <1>4

\* The row that a run adds is its first and only one.
LEMMA InsertRow ==
    ASSUME SpendingInv, NEW n \in DOMAIN runs, InsertReview(n)
    PROVE  /\ TypeOK /\ Clock /\ runs[n].pc = "execute" /\ now \in Nat
           /\ UNCHANGED <<now, cooldown, attempts, pending, faults>>
           /\ Moving /\ Others(n) /\ runs'[n].pc = "settle"
           /\ runs'[n].force = runs[n].force /\ runs'[n].commit = runs[n].commit
           /\ \E row : /\ row \in [run : DOMAIN runs, commit : Commits, cli : Agents,
                                   at : 0 .. MaxTime]
                       /\ row.run = n /\ row.commit = runs[n].commit /\ row.at = now
                       /\ Among(row.cli, runs[n].agents)
                       /\ reviews' = reviews \cup {row}
                       /\ \A r \in reviews : r.run # n
<1>1. /\ TypeOK /\ Clock /\ runs[n].pc = "execute" /\ now \in Nat /\ now \in 0 .. MaxTime
      /\ UNCHANGED <<now, cooldown, attempts, pending, faults>> /\ runs[n] \in Runs
      /\ runs[n].commit \in Commits
  BY Typed, RunFields, RunNumbers DEF InsertReview
<1>2. Moving /\ Others(n) /\ runs'[n].pc = "settle"
  BY <1>1, GotoMoves DEF InsertReview, Moves
<1>3. runs'[n].force = runs[n].force /\ runs'[n].commit = runs[n].commit
  BY <1>2 DEF Moving, Follows
<1> DEFINE row == [run |-> n, commit |-> runs[n].commit, cli |-> Agent(n), at |-> now]
<1>4. Agent(n) \in Agents /\ Among(Agent(n), runs[n].agents)
  <2>1. runs[n].agents \in Seq(Agents) /\ runs[n].agents # <<>>
    BY <1>1 DEF Runs, Clock
  <2>2. Agent(n) = runs[n].agents[1] /\ 1 \in DOMAIN runs[n].agents
    BY <2>1 DEF Agent
  <2> QED
    BY <2>1, <2>2 DEF Among
<1>5. /\ row \in [run : DOMAIN runs, commit : Commits, cli : Agents, at : 0 .. MaxTime]
      /\ row.run = n /\ row.commit = runs[n].commit /\ row.at = now
      /\ Among(row.cli, runs[n].agents)
  BY <1>1, <1>4
<1>6. reviews' = reviews \cup {row}
  BY DEF InsertReview
<1>7. \A r \in reviews : r.run # n
  BY <1>1 DEF SpendingInv, Rows, Reported
<1> HIDE DEF row
<1> QED
  BY <1>1, <1>2, <1>3, <1>5, <1>6, <1>7

\* A review is stored.
LEMMA InsertReviewInv ==
    ASSUME SpendingInv, NEW n \in DOMAIN runs, InsertReview(n)
    PROVE  SpendingInv'
<1> DEFINE c == runs[n].commit
<1>1. /\ TypeOK /\ Clock /\ runs[n].pc = "execute" /\ now \in Nat
      /\ UNCHANGED <<now, cooldown, attempts, pending, faults>>
      /\ Moving /\ Others(n) /\ runs'[n].pc = "settle"
      /\ runs'[n].force = runs[n].force /\ runs'[n].commit = c
  BY InsertRow
<1>2. PICK row : /\ row \in [run : DOMAIN runs, commit : Commits, cli : Agents,
                             at : 0 .. MaxTime]
                 /\ row.run = n /\ row.commit = c /\ row.at = now
                 /\ Among(row.cli, runs[n].agents)
                 /\ reviews' = reviews \cup {row}
                 /\ \A r \in reviews : r.run # n
  BY InsertRow
<1>3. /\ \A r \in reviews : /\ r.at \in Int /\ r.at <= now /\ r.run \in DOMAIN runs
                            /\ r.run # n /\ runs'[r.run] = runs[r.run]
      /\ reviews \subseteq [run : DOMAIN runs, commit : Commits, cli : Agents,
                            at : 0 .. MaxTime]
      /\ IsFiniteSet(reviews)
  BY <1>1, <1>2 DEF SpendingInv, Types, TypeOK, Rows, Others
<1>4. TicketsKept
  <2>1. \A m \in InProgress : runs'[m].pc \notin Ended
    BY <1>1 DEF InProgress, Others, Ended
  <2> QED
    BY <1>1, <2>1, Untouched DEF TicketsKept
<1>5. Types' /\ Counted'
  <2>1. Counted'
    <3>1. \A d \in Commits : cooldown[d].count <= cooldown[d].count
      BY Typed
    <3> QED
      BY <1>1, <3>1, Typed, KeepsCounted
  <2>2. /\ reviews' \subseteq [run : DOMAIN runs, commit : Commits, cli : Agents,
                               at : 0 .. MaxTime]
        /\ IsFiniteSet(reviews')
    BY <1>2, <1>3, FS_AddElement
  <2>3. attempts \subseteq [run : DOMAIN runs, at : 0 .. MaxTime] /\ IsFiniteSet(attempts)
    BY DEF SpendingInv, Types, TypeOK
  <2> QED
    BY <1>1, <1>4, <2>1, <2>2, <2>3, Typed, TypesFollow DEF TicketsKept
<1>6. /\ \A m \in DOMAIN runs : runs'[m].pc \in Vain => runs[m].pc \in Vain
      /\ NoNewBids
      /\ \A m \in DOMAIN runs : m # n => runs'[m] = runs[m]
      /\ DOMAIN runs' = DOMAIN runs
  BY <1>1 DEF Others, Vain, NoNewBids, Bidding, Moving
<1>7. Exclusive' /\ Concurrency' /\ Budget' /\ Clock' /\ Failures' /\ Tried'
  BY <1>1, <1>6, KeepsSlots, KeepsClock, KeepsFailures, KeepsTried
<1>8. Rows'
  <2>1. \A r, q \in reviews' : r.run = q.run => r = q
    BY <1>2, <1>3 DEF SpendingInv, Rows
  <2>2. ASSUME NEW r \in reviews'
        PROVE  /\ r.commit = runs'[r.run].commit /\ runs'[r.run].pc \in Reported
               /\ runs'[r.run].start <= r.at /\ r.at <= now
    <3>1. CASE r = row
      <4>1. runs'[n].start <= now
        BY <1>1, <1>7 DEF Clock, Moving
      <4> QED
        BY <1>1, <1>2, <3>1, <4>1 DEF Reported
    <3>2. CASE r \in reviews
      BY <1>3, <3>2 DEF SpendingInv, Rows
    <3> QED
      BY <1>2, <3>1, <3>2
  <2>3. \A m \in DOMAIN runs : runs'[m].pc \in Reported => \E r \in reviews' : r.run = m
    BY <1>2, <1>6 DEF SpendingInv, Rows
  <2> QED
    BY <1>1, <1>6, <2>1, <2>2, <2>3 DEF Rows
<1>9. CommitCapKept'
  <2> SUFFICES ASSUME NEW r \in reviews', ~runs'[r.run].force, CommitCap > 0
               PROVE  CommitCap >= Cardinality(
                          {q \in reviews' : /\ q.commit = r.commit /\ ~runs'[q.run].force
                                            /\ q.at \in r.at - CommitWindow .. r.at})
    BY DEF CommitCapKept, Automatic
  <2> DEFINE d == r.commit
             S == {q \in reviews : q.commit = d /\ ~runs[q.run].force}
             T == {q \in reviews' : q.commit = d /\ ~runs'[q.run].force}
             g == [q \in reviews' |-> q.at]
             seen == {q \in T : g[q] \in g[r] - CommitWindow .. g[r]}
  <2>1. S \subseteq T /\ T \subseteq S \cup {row} /\ IsFiniteSet(S) /\ r \in T
        /\ (row \in T => d = c /\ ~runs[n].force)
    BY <1>1, <1>2, <1>3, FS_Subset
  <2>2. Fitting(CommitCap, S, g, CommitWindow)
    <3> SUFFICES ASSUME NEW m \in S
                 PROVE  Cardinality({k \in S : g[k] \in g[m] - CommitWindow .. g[m]})
                        <= CommitCap
      BY DEF Fitting
    <3> DEFINE old == {q \in reviews : /\ q.commit = m.commit /\ Automatic(q.run)
                                       /\ q.at \in m.at - CommitWindow .. m.at}
               now1 == {k \in S : g[k] \in g[m] - CommitWindow .. g[m]}
    <3>1. CommitCap >= Cardinality(old)
      BY DEF SpendingInv, CommitCapKept, Automatic
    <3>2. now1 = old
      BY <1>2 DEF Automatic
    <3>3. IsFiniteSet(old)
      BY <1>3, FS_Subset
    <3>4. Cardinality(old) \in Nat
      BY <3>3, FS_CardinalityType
    <3> HIDE DEF old, now1
    <3>5. Cardinality(now1) <= CommitCap
      BY <3>1, <3>2, <3>4, Numbers
    <3> QED
      BY <3>5 DEF now1
  <2>3. Fitting(CommitCap, T, g, CommitWindow)
    <3>1. CASE row \notin T
      <4>1. T \in SUBSET S
        BY <2>1, <3>1
      <4> HIDE DEF S, T, g
      <4> QED
        BY <2>1, <2>2, <4>1, Numbers, PartFits
    <3>2. CASE row \in T
      <4> DEFINE late == {q \in T : Within(g[q], now, CommitWindow)}
                 earlier == {q \in reviews : /\ q.commit = c
                                             /\ Within(q.at, now, CommitWindow)}
      <4>1. n \in Stage(Passed)
        BY <1>1, <2>1, <3>2 DEF Stage, Passed, Automatic
      <4>2. Cardinality(earlier) < CommitCap
        BY <4>1 DEF SpendingInv, Room
      <4>3. late \in SUBSET (earlier \cup {row})
        BY <1>2, <2>1, <3>2
      <4>4. IsFiniteSet(earlier)
        BY <1>3, FS_Subset
      <4>5. \A m \in T : /\ g[m] \in Int /\ g[m] <= now
                         /\ g[m] = now \/ (m \in S /\ g[m] = g[m])
        BY <1>1, <1>2, <1>3, <2>1
      <4> HIDE DEF earlier, S, T, g
      <4>6. /\ Cardinality(late) \in Nat /\ Cardinality(earlier) \in Nat
            /\ Cardinality(late) <= Cardinality(earlier) + 1
        BY <4>3, <4>4, OneElementMore
      <4>7. Cardinality(late) <= CommitCap
        BY <4>2, <4>6, Numbers
      <4> QED
        BY <1>1, <2>1, <2>2, <4>5, <4>7, Numbers, GrownFits
    <3> QED
      BY <3>1, <3>2
  <2>4. Cardinality(seen) <= CommitCap
    BY <2>1, <2>3 DEF Fitting
  <2>5. IsFiniteSet(T)
    BY <2>1, FS_AddElement, FS_Subset
  <2>6. Cardinality(seen) \in Nat
    <3> HIDE DEF T
    <3> QED
      BY <2>5, FewerElements
  <2>7. seen = {q \in reviews' : /\ q.commit = r.commit /\ ~runs'[q.run].force
                                 /\ q.at \in r.at - CommitWindow .. r.at}
    OBVIOUS
  <2> HIDE DEF seen
  <2> QED
    BY <2>4, <2>6, <2>7, Numbers
<1>10. Room'
  <2> SUFFICES ASSUME NEW m \in Stage(Passed)', CommitCap > 0
               PROVE  Cardinality({r \in reviews' : /\ r.commit = runs'[m].commit
                                                    /\ Within(r.at, now, CommitWindow)})
                      < CommitCap
    BY <1>1 DEF Room
  <2>1. m # n /\ m \in DOMAIN runs
    BY <1>1, <1>6 DEF Stage, Passed
  <2>2. m \in Stage(Passed) /\ runs'[m] = runs[m]
    BY <1>6, <2>1 DEF Stage, Automatic
  <2>3. runs[m].commit # c
    BY <1>1, <2>1, <2>2, RunFields
       DEF SpendingInv, Exclusive, Stage, Passed, Steps, BeforeAgents
  <2>4. {r \in reviews' : r.commit = runs'[m].commit /\ Within(r.at, now, CommitWindow)}
        = {r \in reviews : r.commit = runs[m].commit /\ Within(r.at, now, CommitWindow)}
    BY <1>2, <2>2, <2>3
  <2> QED
    BY <2>2, <2>4 DEF SpendingInv, Room
<1>11. Repository'
  <2> SUFFICES ASSUME RepoCap > 0
               PROVE  /\ Fitting(RepoCap + Workers - 1, AutoRows', RowTimes', RepoWindow)
                      /\ Cardinality({r \in AutoRows' : Within(r.at, now, RepoWindow)})
                            + Cardinality(Stage(Passed)') <= RepoCap + Workers - 1
    BY <1>1 DEF Repository
  <2> DEFINE limit == RepoCap + Workers - 1
             old == {r \in AutoRows : Within(r.at, now, RepoWindow)}
             late == {r \in AutoRows' : Within(r.at, now, RepoWindow)}
  <2>1. /\ Fitting(limit, AutoRows, RowTimes, RepoWindow) /\ limit \in Int
        /\ Cardinality(old) + Cardinality(Stage(Passed)) <= limit
    BY Numbers DEF SpendingInv, Repository
  <2>2. IsFiniteSet(AutoRows) /\ IsFiniteSet(old) /\ IsFiniteSet(Stage(Passed))
    BY <1>1, <1>3, RunNumbers, FS_Subset DEF AutoRows
  <2>3. Stage(Passed)' \in SUBSET (Stage(Passed) \ {n})
    BY <1>1, <1>6 DEF Stage, Passed, Automatic
  <2>4. Cardinality(late) + Cardinality(Stage(Passed)') <= limit
    <3>1. CASE runs[n].force
      <4>1. late \in SUBSET old /\ Stage(Passed)' \in SUBSET Stage(Passed)
        BY <1>1, <1>2, <1>3, <2>3, <3>1 DEF AutoRows, Automatic
      <4> HIDE DEF old, late, limit
      <4>2. /\ Cardinality(late) \in Nat /\ Cardinality(old) \in Nat
            /\ Cardinality(late) <= Cardinality(old)
        BY <2>2, <4>1, FewerElements
      <4>3. /\ Cardinality(Stage(Passed)') \in Nat /\ Cardinality(Stage(Passed)) \in Nat
            /\ Cardinality(Stage(Passed)') <= Cardinality(Stage(Passed))
        BY <2>2, <4>1, FewerElements
      <4> QED
        BY <2>1, <4>2, <4>3
    <3>2. CASE ~runs[n].force
      <4>1. n \in Stage(Passed)
        BY <1>1, <3>2 DEF Stage, Passed, Automatic
      <4>2. late \in SUBSET (old \cup {row})
        BY <1>1, <1>2, <1>3, <3>2 DEF AutoRows, Automatic
      <4> HIDE DEF old, late, limit
      <4>3. /\ Cardinality(late) \in Nat /\ Cardinality(old) \in Nat
            /\ Cardinality(late) <= Cardinality(old) + 1
        BY <2>2, <4>2, OneElementMore
      <4>4. /\ Cardinality(Stage(Passed)') \in Nat /\ Cardinality(Stage(Passed)) \in Nat
            /\ Cardinality(Stage(Passed)') + 1 <= Cardinality(Stage(Passed))
        BY <2>2, <2>3, <4>1, OneElementLess
      <4> QED
        BY <2>1, <4>3, <4>4
    <3> QED
      BY <1>1, <3>1, <3>2, RunFields
  <2>5. AutoRows \subseteq AutoRows' /\ AutoRows' \subseteq AutoRows \cup {row}
        /\ AutoRows' \subseteq reviews'
    BY <1>1, <1>2, <1>3 DEF AutoRows, Automatic
  <2>6. Cardinality(late) <= limit
    <3>1. IsFiniteSet(AutoRows')
      BY <2>2, <2>5, FS_AddElement, FS_Subset
    <3>2. IsFiniteSet(late) /\ IsFiniteSet(Stage(Passed)')
      BY <2>2, <2>3, <3>1, FS_Subset
    <3> HIDE DEF late, limit
    <3>3. Cardinality(late) \in Nat /\ Cardinality(Stage(Passed)') \in Nat
      BY <3>2, FS_CardinalityType
    <3> QED
      BY <2>1, <2>4, <3>3
  <2>7. \A m \in AutoRows' : RowTimes'[m] = m.at
    BY <2>5 DEF RowTimes
  <2>8. late = {m \in AutoRows' : Within(RowTimes'[m], now, RepoWindow)}
    BY <2>7
  <2>9. \A m \in AutoRows' :
            /\ RowTimes'[m] \in Int /\ RowTimes'[m] <= now
            /\ RowTimes'[m] = now \/ (m \in AutoRows /\ RowTimes'[m] = RowTimes[m])
    BY <1>1, <1>2, <1>3, <2>5, <2>7 DEF RowTimes, AutoRows
  <2> HIDE DEF late, limit
  <2>10. Fitting(limit, AutoRows', RowTimes', RepoWindow)
    BY <1>1, <2>1, <2>2, <2>6, <2>8, <2>9, Numbers, GrownFits
  <2> QED
    BY <2>4, <2>10 DEF late, limit
<1>12. AgentRoom'
  <2> SUFFICES ASSUME NEW a \in Agents, AgentLimit[a] > 0
               PROVE  Fitting(AgentLimit[a] + Workers - 1, Candidates(a)', Starts',
                              AgentWindow)
    BY DEF AgentRoom
  <2>1. Candidates(a)' \in SUBSET Candidates(a)
    <3> SUFFICES ASSUME NEW m \in Candidates(a)'
                 PROVE  m \in Candidates(a)
      OBVIOUS
    <3>1. /\ m \in DOMAIN runs /\ ~runs'[m].force
          /\ \/ runs'[m].pc \in Bidding /\ Among(a, runs'[m].agents)
             \/ \E r \in reviews' : r.run = m /\ r.cli = a
      BY <1>6 DEF Candidates, Automatic
    <3>2. CASE m # n
      BY <1>2, <1>6, <3>1, <3>2 DEF Candidates, Automatic
    <3>3. CASE m = n
      <4>1. \E r \in reviews' : r.run = n /\ r.cli = a
        BY <1>1, <3>1, <3>3 DEF Bidding
      <4>2. row.cli = a
        BY <1>2, <4>1
      <4> QED
        BY <1>1, <1>2, <3>1, <3>3, <4>2 DEF Candidates, Automatic, Bidding
    <3> QED
      BY <3>2, <3>3
  <2>2. \A m \in DOMAIN runs : runs'[m].start = runs[m].start
    <3>1. runs'[n].start = runs[n].start
      BY <1>1, Back DEF Moving
    <3> QED
      BY <1>6, <3>1
  <2>3. \A m \in Candidates(a)' : runs'[m].start = runs[m].start
    BY <1>6, <2>2 DEF Candidates
  <2> QED
    BY <1>1, <2>1, <2>3, FewerCandidates
<1> QED
  BY <1>4, <1>5, <1>7, <1>8, <1>9, <1>10, <1>11, <1>12 DEF SpendingInv, TicketsKept

-----------------------------------------------------------------------------
(* Admission *)

\* The run that is added stands at the start; nothing else moves.
Joined(n) ==
    /\ n \in Nat /\ n \notin DOMAIN runs /\ n <= MaxRuns /\ n = Len(runs')
    /\ runs' \in Seq(Runs) /\ DOMAIN runs' = DOMAIN runs \cup {n}
    /\ \A m \in DOMAIN runs : runs'[m] = runs[m]
    /\ runs'[n].pc = "select" /\ runs'[n].start = now /\ runs'[n].agents # <<>>
    /\ UNCHANGED <<now, reviews, cooldown, attempts, faults>>

\* An admission adds the next run.
LEMMA AdmitJoins ==
    ASSUME SpendingInv, NEW c \in Commits, NEW force \in BOOLEAN, Admit(c, force)
    PROVE  /\ Joined(Len(runs) + 1)
           /\ runs'[Len(runs) + 1].commit = c /\ runs'[Len(runs) + 1].force = force
<1> DEFINE n == Len(runs) + 1
           new == [pc |-> "select", commit |-> c, force |-> force,
                   start |-> now, prior |-> 0, agents |-> Flow]
<1>1. /\ Len(runs) \in Nat /\ runs \in Seq(Runs) /\ now \in 0 .. MaxTime
      /\ DOMAIN runs = 1 .. Len(runs)
  BY RunNumbers DEF SpendingInv, Types, TypeOK
<1>2. Flow \in Seq(Agents) /\ Flow # <<>> /\ 0 \in 0 .. MaxRuns
  BY Numbers, LimitsAssumption
<1>3. /\ new \in Runs /\ new.pc = "select" /\ new.start = now /\ new.agents # <<>>
      /\ new.commit = c /\ new.force = force
  BY <1>1, <1>2 DEF Runs, Steps, BeforeAgents
<1>4. /\ n <= MaxRuns /\ runs' = Append(runs, new)
      /\ UNCHANGED <<now, reviews, cooldown, attempts, faults>>
  BY DEF Admit
<1> HIDE DEF new
<1>5. /\ runs' \in Seq(Runs) /\ DOMAIN runs' = DOMAIN runs \cup {n} /\ runs'[n] = new
      /\ \A m \in DOMAIN runs : runs'[m] = runs[m]
      /\ Len(runs') = n /\ n \in Nat /\ n \notin DOMAIN runs
  BY <1>1, <1>3, <1>4
<1> QED
  BY <1>3, <1>4, <1>5 DEF Joined

\* What the runs that were there already satisfy they still do.
LEMMA JoinedKeeps ==
    ASSUME SpendingInv, NEW n, Joined(n)
    PROVE  /\ Clock' /\ Rows' /\ Tried' /\ Counted' /\ Failures'
           /\ CommitCapKept' /\ Room' /\ Repository' /\ AgentRoom'
<1>1. /\ TypeOK /\ IsFiniteSet(DOMAIN runs) /\ now \in Nat
      /\ reviews \subseteq [run : DOMAIN runs, commit : Commits, cli : Agents, at : 0 .. MaxTime]
      /\ \A m \in DOMAIN runs : m # n /\ Automatic(m)' = Automatic(m)
  BY RunNumbers, RunFields DEF SpendingInv, Types, TypeOK, Joined, Automatic
<1>2. \A r \in reviews : r.run \in DOMAIN runs /\ r.run # n /\ runs'[r.run] = runs[r.run]
                         /\ Automatic(r.run)' = Automatic(r.run)
  BY <1>1 DEF Joined
<1>3. Clock'
  BY <1>1 DEF SpendingInv, Clock, Joined
<1>4. Rows'
  <2>1. runs'[n].pc \notin Reported
    BY DEF Joined, Reported
  <2> QED
    BY <1>2, <2>1 DEF SpendingInv, Rows, Joined
<1>5. Tried'
  <2>1. runs'[n].pc \notin Vain
    BY DEF Joined, Vain
  <2> QED
    BY <2>1 DEF SpendingInv, Tried, Joined
<1>6. Counted'
  <2>1. {m \in DOMAIN runs' : runs'[m].pc \notin BeforeAgents}
            = {m \in DOMAIN runs : runs[m].pc \notin BeforeAgents}
    BY DEF Joined, BeforeAgents
  <2> QED
    BY <2>1 DEF SpendingInv, Counted, Joined
<1>7. Failures'
  <2>1. Stage(Vain)' = Stage(Vain) /\ \A m \in Stage(Vain) : Starts'[m] = Starts[m]
    BY <1>1 DEF Stage, Joined, Starts, Vain
  <2>2. IsFiniteSet(Stage(Vain)) /\ FailureLimit \in Int
    BY <1>1, RunNumbers, Numbers
  <2>3. Fitting(FailureLimit, Stage(Vain), Starts, FailureWindow)
    BY DEF SpendingInv, Failures
  <2>4. Fitting(FailureLimit, Stage(Vain)', Starts', FailureWindow)
    <3>1. Stage(Vain)' \in SUBSET Stage(Vain) /\ \A m \in Stage(Vain)' : Starts'[m] = Starts[m]
      BY <2>1
    <3> QED
      BY <2>2, <2>3, <3>1, PartFits
  <2> QED
    BY <2>4 DEF Failures
<1>8. CommitCapKept'
  BY <1>2 DEF SpendingInv, CommitCapKept, Joined
<1>9. Stage(Passed)' = Stage(Passed)
  BY <1>1 DEF Stage, Joined, Passed
<1>10. Room'
  <2>1. \A m \in Stage(Passed) : runs'[m] = runs[m]
    BY DEF Stage, Joined
  <2>2. Room /\ UNCHANGED <<reviews, now>>
    BY DEF SpendingInv, Joined
  <2> QED
    BY <1>9, <2>1, <2>2 DEF Room
<1>11. Repository'
  <2>1. AutoRows' = AutoRows /\ RowTimes' = RowTimes
    BY <1>2 DEF AutoRows, RowTimes, Joined
  <2> QED
    BY <1>9, <2>1 DEF SpendingInv, Repository, Joined
<1>12. AgentRoom'
  <2> SUFFICES ASSUME NEW a \in Agents, AgentLimit[a] > 0
               PROVE  Fitting(AgentLimit[a] + Workers - 1, Candidates(a)', Starts', AgentWindow)
    BY DEF AgentRoom
  <2>1. Candidates(a)' = Candidates(a)
    <3>1. runs'[n].pc \notin Bidding /\ \A r \in reviews' : r.run # n
      BY <1>2 DEF Joined, Bidding
    <3> QED
      BY <1>1, <3>1 DEF Candidates, Joined
  <2>2. \A m \in Candidates(a) : Starts'[m] = Starts[m]
    BY DEF Candidates, Starts, Joined
  <2>3. IsFiniteSet(Candidates(a))
    BY <1>1, FS_Subset DEF Candidates
  <2>4. AgentLimit[a] + Workers - 1 \in Int
    BY Numbers, LimitsAssumption
  <2>5. Fitting(AgentLimit[a] + Workers - 1, Candidates(a), Starts, AgentWindow)
    BY DEF SpendingInv, AgentRoom
  <2> QED
    BY <2>1, <2>2, <2>3, <2>4, <2>5, PartFits
<1> QED
  BY <1>3, <1>4, <1>5, <1>6, <1>7, <1>8, <1>10, <1>11, <1>12

\* Every run in the window has its ticket or its row, so an automatic run that
\* is admitted leaves the budget kept.
LEMMA AdmitBudget ==
    ASSUME SpendingInv, NEW c \in Commits, NEW force \in BOOLEAN, Admit(c, force)
    PROVE  Budget'
<1> DEFINE n == Len(runs) + 1
<1>1. /\ Joined(n) /\ runs'[n].force = force
  BY AdmitJoins
<1>2. /\ TypeOK /\ now \in Nat /\ IsFiniteSet(Stage(Charged))
      /\ \A m \in DOMAIN runs : m # n /\ runs'[m] = runs[m] /\ runs[m].start \in Nat
  BY <1>1, RunNumbers, RunFields DEF SpendingInv, Types, Joined
<1>3. BudgetLimit \in Nat /\ BudgetWindow \in Nat
  BY Numbers
<1> SUFFICES ASSUME BudgetLimit > 0
             PROVE  Fitting(BudgetLimit, Stage(Charged)', Starts', BudgetWindow)
  BY DEF Budget
<1>4. Fitting(BudgetLimit, Stage(Charged), Starts, BudgetWindow)
  BY DEF SpendingInv, Budget
<1>5. \A m \in DOMAIN runs : /\ Starts'[m] = Starts[m] /\ Starts[m] = runs[m].start
                             /\ m \in Stage(Charged)' <=> m \in Stage(Charged)
  BY <1>1, <1>2 DEF Starts, Stage, Joined, Automatic
<1>6. Stage(Charged)' \subseteq Stage(Charged) \cup {n} /\ Stage(Charged) \subseteq DOMAIN runs
      /\ (n \in Stage(Charged)' => ~force)
  <2>1. Stage(Charged)' \subseteq DOMAIN runs \cup {n}
    BY <1>1 DEF Stage, Joined
  <2>2. n \in Stage(Charged)' => ~force
    BY <1>1 DEF Stage, Automatic
  <2> QED
    BY <1>5, <2>1, <2>2 DEF Stage
<1>7. CASE force
  <2>1. Stage(Charged)' \in SUBSET Stage(Charged)
    BY <1>6, <1>7
  <2>2. \A m \in Stage(Charged)' : Starts'[m] = Starts[m]
    BY <1>5, <1>6, <2>1
  <2> QED
    BY <1>2, <1>3, <1>4, <2>1, <2>2, PartFits
<1>8. CASE ~force
  <2> DEFINE rows == {r \in reviews : Within(r.at, now, BudgetWindow)}
             tickets == {t \in pending : t.run # n /\ Within(t.at, now, BudgetWindow)}
             last == {m \in Stage(Charged) : Within(Starts[m], now, BudgetWindow)}
             more == {m \in Stage(Charged)' : Within(Starts'[m], now, BudgetWindow)}
  <2>1. Cardinality(rows) + Cardinality(tickets) < BudgetLimit
    BY <1>8 DEF Admit, RepoSpend
  <2>2. IsFiniteSet(rows) /\ IsFiniteSet(tickets)
    BY FS_Subset DEF SpendingInv, Types
  <2>3. ASSUME NEW m \in last
        PROVE  (\E r \in rows : r.run = m) \/ (\E t \in tickets : t.run = m)
    <3>1. m \in DOMAIN runs /\ runs[m].pc \in Charged /\ Starts[m] = runs[m].start
          /\ Within(runs[m].start, now, BudgetWindow)
      BY <1>5, <1>6 DEF Stage
    <3>2. CASE runs[m].pc = "stored"
      <4>1. PICK r \in reviews : r.run = m
        BY <3>1, <3>2 DEF SpendingInv, Rows, Reported
      <4>2. runs[m].start <= r.at /\ r.at \in Int
        BY <4>1 DEF SpendingInv, Types, TypeOK, Rows
      <4>3. Within(r.at, now, BudgetWindow)
        BY <1>2, <1>3, <3>1, <4>2 DEF Within
      <4> QED
        BY <4>1, <4>3
    <3>3. CASE runs[m].pc \in Steps
      <4>1. m \in InProgress
        BY <1>2, <3>1, <3>3, RunFields
      <4>2. PICK t \in pending : t.run = m /\ t.at = runs[m].start
        BY <4>1 DEF SpendingInv, Tickets
      <4> QED
        BY <1>2, <3>1, <4>2
    <3> QED
      BY <3>1, <3>2, <3>3 DEF Charged
  <2>4. more \in SUBSET (last \cup {n})
    BY <1>5, <1>6
  <2>5. Cardinality(more) <= BudgetLimit
    <3> HIDE DEF rows, tickets, last, more
    <3>1. /\ IsFiniteSet(last) /\ Cardinality(last) \in Nat
          /\ Cardinality(rows) \in Nat /\ Cardinality(tickets) \in Nat
          /\ Cardinality(last) <= Cardinality(rows) + Cardinality(tickets)
      BY <2>2, <2>3, RepresentedByBoth
    <3>2. Cardinality(more) \in Nat /\ Cardinality(more) <= Cardinality(last) + 1
      BY <2>4, <3>1, OneElementMore
    <3> QED
      BY <1>3, <2>1, <3>1, <3>2
  <2>6. \A m \in Stage(Charged)' : /\ Starts'[m] \in Int /\ Starts'[m] <= now
                                   /\ Starts'[m] = now \/ (m \in Stage(Charged)
                                                           /\ Starts'[m] = Starts[m])
    <3> SUFFICES ASSUME NEW m \in Stage(Charged)'
                 PROVE  /\ Starts'[m] \in Int /\ Starts'[m] <= now
                        /\ Starts'[m] = now \/ (m \in Stage(Charged) /\ Starts'[m] = Starts[m])
      OBVIOUS
    <3>1. CASE m = n
      <4>1. Starts'[n] = now
        BY <1>1 DEF Starts, Joined
      <4> QED
        BY <1>2, <3>1, <4>1
    <3>2. CASE m # n
      <4>1. m \in Stage(Charged) /\ m \in DOMAIN runs
        BY <1>6, <3>2
      <4>2. runs[m].start <= now
        BY <4>1 DEF SpendingInv, Clock
      <4> QED
        BY <1>2, <1>5, <4>1, <4>2
    <3> QED
      BY <3>1, <3>2
  <2> HIDE DEF more
  <2>7. Cardinality({m \in Stage(Charged)' : Within(Starts'[m], now, BudgetWindow)})
            <= BudgetLimit
    BY <2>5 DEF more
  <2> QED
    BY <1>2, <1>3, <1>4, <2>6, <2>7, GrownFits
<1> QED
  BY <1>7, <1>8

\* An admission.
LEMMA AdmitInv ==
    ASSUME SpendingInv, NEW c \in Commits, NEW force \in BOOLEAN, Admit(c, force)
    PROVE  SpendingInv'
<1> DEFINE n == Len(runs) + 1
           ticket == [run |-> n, cli |-> "none", at |-> now]
<1>1. Joined(n) /\ runs'[n].commit = c
  BY AdmitJoins
<1>2. /\ Clock' /\ Rows' /\ Tried' /\ Counted' /\ Failures' /\ Budget'
      /\ CommitCapKept' /\ Room' /\ Repository' /\ AgentRoom'
  BY <1>1, JoinedKeeps, AdmitBudget
<1>3. TypeOK /\ IsFiniteSet(reviews) /\ IsFiniteSet(attempts) /\ IsFiniteSet(pending)
  BY DEF SpendingInv, Types
<1>4. InProgress' = InProgress \cup {n} /\ IsFiniteSet(InProgress)
  <2>1. runs'[n].pc \notin Ended
    BY <1>1 DEF Joined, Ended
  <2> QED
    BY <1>1, <1>3, <2>1, RunNumbers, FS_Subset DEF InProgress, Joined
<1>5. /\ Cardinality(InProgress) < Workers /\ ~Claimed(c)
      /\ pending' = pending \cup {ticket}
  BY DEF Admit
<1>6. Types'
  <2>1. /\ pending \subseteq [run : InProgress, cli : Agents \cup {"none"}, at : 0 .. MaxTime]
        /\ now \in 0 .. MaxTime
    BY <1>3 DEF TypeOK
  <2>2. /\ pending' \subseteq [run : InProgress', cli : Agents \cup {"none"},
                               at : 0 .. MaxTime]
        /\ IsFiniteSet(pending')
    <3>1. ticket \in [run : InProgress', cli : Agents \cup {"none"}, at : 0 .. MaxTime]
      BY <1>4, <2>1
    <3>2. pending \subseteq [run : InProgress', cli : Agents \cup {"none"},
                             at : 0 .. MaxTime]
      BY <1>4, <2>1
    <3> HIDE DEF ticket
    <3>3. IsFiniteSet(pending')
      BY <1>3, <1>5, FS_AddElement
    <3> QED
      BY <1>5, <3>1, <3>2, <3>3
  <2>3. /\ reviews \subseteq [run : DOMAIN runs', commit : Commits, cli : Agents,
                              at : 0 .. MaxTime]
        /\ attempts \subseteq [run : DOMAIN runs', at : 0 .. MaxTime]
    BY <1>1, <1>3 DEF TypeOK, Joined
  <2> QED
    BY <1>1, <1>3, <2>2, <2>3 DEF Types, TypeOK, Joined
<1>7. Tickets'
  <2> SUFFICES ASSUME NEW m \in InProgress'
               PROVE  \E t \in pending' : t.run = m /\ t.at = runs'[m].start
    BY DEF Tickets
  <2>1. CASE m = n
    <3>1. ticket.run = n /\ ticket.at = now /\ ticket \in pending'
      BY <1>5
    <3> QED
      BY <1>1, <2>1, <3>1 DEF Joined
  <2>2. CASE m # n
    <3>1. m \in InProgress /\ runs'[m] = runs[m]
      BY <1>1, <1>4, <2>2 DEF Joined, InProgress
    <3> QED
      BY <1>5, <3>1 DEF SpendingInv, Tickets
  <2> QED
    BY <2>1, <2>2
<1>8. Exclusive'
  <2>1. \A m \in InProgress : runs'[m] = runs[m] /\ runs[m].commit # c
    BY <1>1, <1>5 DEF InProgress, Joined, Claimed
  <2> QED
    BY <1>1, <1>4, <2>1 DEF SpendingInv, Exclusive
<1>9. Concurrency'
  <2>1. /\ Cardinality(InProgress') \in Nat /\ Cardinality(InProgress) \in Nat
        /\ Cardinality(InProgress') <= Cardinality(InProgress) + 1
    BY <1>4, OneElementMore
  <2> QED
    BY <1>5, <2>1, Numbers DEF Concurrency
<1> QED
  BY <1>2, <1>6, <1>7, <1>8, <1>9 DEF SpendingInv

-----------------------------------------------------------------------------
(* The invariant is one *)

\* It holds in the beginning, when there is no run and no row,
LEMMA InitSpending == Init => SpendingInv
<1> SUFFICES ASSUME Init
             PROVE  SpendingInv
  OBVIOUS
<1>1. /\ now = 0 /\ reviews = {} /\ cooldown = [c \in Commits |-> NoRow]
      /\ attempts = {} /\ pending = {} /\ runs = <<>> /\ faults = 0 /\ DOMAIN runs = {}
  BY DEF Init
<1>2. InProgress = {} /\ AutoRows = {} /\ \A P : Stage(P) = {}
  BY <1>1 DEF InProgress, AutoRows, Stage
<1>3. Cardinality({}) = 0 /\ IsFiniteSet({})
  BY FS_EmptySet
<1>4. Types
  <2>1. NoRow \in CooldownRows
    BY Numbers DEF NoRow, CooldownRows
  <2>2. cooldown \in [Commits -> CooldownRows]
    BY <1>1, <2>1
  <2>3. now \in 0 .. MaxTime /\ faults \in 0 .. MaxTroubles /\ runs \in Seq(Runs)
    BY <1>1, Numbers
  <2> QED
    BY <1>1, <1>3, <2>2, <2>3 DEF Types, TypeOK, CooldownRows
<1>5. Clock /\ Rows /\ Tickets /\ Exclusive /\ Tried /\ Room /\ CommitCapKept
  BY <1>1, <1>2 DEF Clock, Rows, Tickets, Exclusive, Tried, Room, CommitCapKept
<1>6. Concurrency
  BY <1>2, <1>3, Numbers DEF Concurrency
<1>7. Counted
  <2>1. {m \in DOMAIN runs : runs[m].pc \notin BeforeAgents} = {} /\ Len(runs) = 0
    BY <1>1
  <2>2. \A c \in Commits : cooldown[c].count = 0
    BY <1>1 DEF NoRow
  <2> QED
    BY <1>3, <2>1, <2>2, Numbers DEF Counted
<1>8. Budget /\ Failures
  BY <1>2 DEF Budget, Failures, Fitting
<1>9. Repository
  <2> SUFFICES ASSUME RepoCap > 0
               PROVE  /\ Fitting(RepoCap + Workers - 1, AutoRows, RowTimes, RepoWindow)
                      /\ Cardinality({r \in AutoRows : Within(r.at, now, RepoWindow)})
                            + Cardinality(Stage(Passed)) <= RepoCap + Workers - 1
    BY DEF Repository
  <2>1. /\ Cardinality({r \in AutoRows : Within(r.at, now, RepoWindow)}) = 0
        /\ Cardinality(Stage(Passed)) = 0
    <3>1. {r \in AutoRows : Within(r.at, now, RepoWindow)} = {} /\ Stage(Passed) = {}
      BY <1>2
    <3> QED
      BY <1>3, <3>1
  <2>2. Fitting(RepoCap + Workers - 1, AutoRows, RowTimes, RepoWindow)
    BY <1>2 DEF Fitting
  <2> QED
    BY <2>1, <2>2, Numbers
<1>10. AgentRoom
  <2>1. \A a \in Agents : Candidates(a) = {}
    BY <1>1 DEF Candidates
  <2> QED
    BY <2>1 DEF AgentRoom, Fitting
<1> QED
  BY <1>4, <1>5, <1>6, <1>7, <1>8, <1>9, <1>10 DEF SpendingInv

\* and every step keeps it.
LEMMA NextSpending == SpendingInv /\ [Next]_vars => SpendingInv'
<1> SUFFICES ASSUME SpendingInv, [Next]_vars
             PROVE  SpendingInv'
  OBVIOUS
<1>1. ASSUME NEW c \in Commits, NEW force \in BOOLEAN, Admit(c, force)
      PROVE  SpendingInv'
  BY <1>1, AdmitInv
<1>2. ASSUME NEW n \in DOMAIN runs, RunStep(n)
      PROVE  SpendingInv'
  <2>1. CASE SelectCLIs(n)
    BY <2>1, SelectInv
  <2>2. CASE Check(n)
    BY <2>2, CheckInv
  <2>3. CASE ReserveRetryAttempt(n)
    BY <2>3, ReserveInv
  <2>4. CASE InsertReview(n)
    BY <2>4, InsertReviewInv
  <2>5. ASSUME NEW kind \in {"quota", "error", "final"}, ExecuteFails(n, kind)
        PROVE  SpendingInv'
    BY <2>5, ExecuteFailsInv
  <2>6. CASE ClearRetry(n)
    BY <2>6, ClearRetryInv
  <2>7. CASE MarkRetryFailure(n)
    BY <2>7, MarkFailureInv
  <2> QED
    BY <1>2, <2>1, <2>2, <2>3, <2>4, <2>5, <2>6, <2>7 DEF RunStep
<1>3. CASE Prune
  BY <1>3, PruneInv
<1>4. CASE Tick
  BY <1>4, TickInv
<1>5. CASE Crash
  BY <1>5, CrashInv
<1>6. CASE UNCHANGED vars
  <2>1. /\ UNCHANGED <<now, reviews, cooldown, attempts, pending, runs, faults>>
    BY <1>6 DEF vars
  <2>2. Quiet /\ TicketsKept
    BY <2>1, Standing
  <2>3. /\ now \in Int /\ cooldown' \in Cooldowns /\ faults' \in 0 .. MaxTroubles
        /\ \A c \in Commits : cooldown'[c].count <= cooldown[c].count
    BY <2>1, Typed
  <2>4. Tried'
    BY <2>1, <2>2, <2>3, QuietStep
  <2> QED
    BY <2>1, <2>2, <2>3, <2>4, QuietInv
<1> QED
  BY <1>1, <1>2, <1>3, <1>4, <1>5, <1>6 DEF Next

\* The invariant holds in every reachable state.
THEOREM SpendingInvariance == Spec => []SpendingInv
<1>1. Init => SpendingInv
  BY InitSpending
<1>2. SpendingInv /\ [Next]_vars => SpendingInv'
  BY NextSpending
<1> QED
  BY <1>1, <1>2, PTL DEF Spec

-----------------------------------------------------------------------------
(* What it implies *)

\* Every variable keeps its type.
THEOREM TypeCorrect == Spec => []TypeOK
<1>1. SpendingInv => TypeOK
  BY DEF SpendingInv, Types
<1> QED
  BY <1>1, SpendingInvariance, PTL

\* A run has its row from the moment it has produced a review.
LEMMA StoredReported ==
    ASSUME SpendingInv, NEW n \in DOMAIN runs
    PROVE  Stored(n) <=> runs[n].pc \in Reported
BY DEF SpendingInv, Rows, Stored

\* The automatic reviews that run or were stored never exceed the budget of
\* the repository in any window of their starts.
THEOREM BudgetRespected == Spec => []BudgetKept
<1>1. ASSUME SpendingInv
      PROVE  BudgetKept
  <2>1. Spent = Stage(Charged)
    <3>1. ASSUME NEW n \in DOMAIN runs
          PROVE  (n \in InProgress \/ Stored(n)) <=> runs[n].pc \in Charged
      <4>1. n \in InProgress <=> runs[n].pc \in Steps
        BY <1>1, RunFields DEF SpendingInv, Types
      <4> QED
        BY <1>1, <4>1, StoredReported DEF Charged, Reported, Steps
    <3> QED
      BY <3>1 DEF Spent, Stage
  <2>2. \A m \in Stage(Charged) : m \in DOMAIN runs
    BY DEF Stage
  <2>3. ASSUME BudgetLimit > 0, NEW n \in Spent
        PROVE  Cardinality({m \in Spent : runs[m].start
                               \in runs[n].start - BudgetWindow .. runs[n].start}) <= BudgetLimit
    <3>1. Cardinality({m \in Stage(Charged) :
                           Starts[m] \in Starts[n] - BudgetWindow .. Starts[n]}) <= BudgetLimit
      BY <1>1, <2>1, <2>3 DEF SpendingInv, Budget, Fitting
    <3>2. {m \in Stage(Charged) : Starts[m] \in Starts[n] - BudgetWindow .. Starts[n]}
              = {m \in Spent : runs[m].start
                                   \in runs[n].start - BudgetWindow .. runs[n].start}
      BY <2>1, <2>2, <2>3 DEF Starts
    <3> QED
      BY <3>1, <3>2
  <2> QED
    BY <2>3 DEF BudgetKept, AtMost
<1> QED
  BY <1>1, SpendingInvariance, PTL

\* The automatic executions that produced no review never exceed the limit of
\* the repository in any window.
THEOREM FailuresLimited == Spec => []FailuresBounded
<1>1. ASSUME SpendingInv
      PROVE  FailuresBounded
  <2> DEFINE S == {n \in Ran : Automatic(n) /\ ~ Stored(n)}
  <2>1. S = Stage(Vain)
    <3>1. ASSUME NEW n \in DOMAIN runs
          PROVE  (runs[n].pc \notin BeforeAgents \cup {"deferred"} /\ ~ Stored(n))
                     <=> runs[n].pc \in Vain
      <4>1. runs[n].pc \in Steps \cup Ended
        BY <1>1, RunFields DEF SpendingInv, Types
      <4> QED
        BY <1>1, <4>1, StoredReported DEF Vain, Reported, Steps, Ended, BeforeAgents
    <3> QED
      BY <3>1 DEF Ran, Stage
  <2>2. ASSUME NEW n \in S
        PROVE  Cardinality({m \in S : runs[m].start
                               \in runs[n].start - FailureWindow .. runs[n].start}) <= FailureLimit
    <3>1. Cardinality({m \in Stage(Vain) :
                           Starts[m] \in Starts[n] - FailureWindow .. Starts[n]}) <= FailureLimit
      BY <1>1, <2>1, <2>2 DEF SpendingInv, Failures, Fitting
    <3>2. {m \in Stage(Vain) : Starts[m] \in Starts[n] - FailureWindow .. Starts[n]}
              = {m \in S : runs[m].start
                               \in runs[n].start - FailureWindow .. runs[n].start}
      BY <2>1, <2>2 DEF Starts, Stage
    <3> QED
      BY <3>1, <3>2
  <2> QED
    BY <2>2 DEF FailuresBounded, AtMost
<1> QED
  BY <1>1, SpendingInvariance, PTL

\* No commit gets more automatic reviews than its cap.
THEOREM CommitCapRespected == Spec => []CommitCapKept
<1>1. SpendingInv => CommitCapKept
  BY DEF SpendingInv
<1> QED
  BY <1>1, SpendingInvariance, PTL

\* The rows of the repository are, in no window, more than its cap and the
\* other workers.
THEOREM RepoOverrunLimited == Spec => []RepoOverrunBounded
<1>1. ASSUME SpendingInv
      PROVE  RepoOverrunBounded
  <2> DEFINE row(n) == CHOOSE r \in reviews : r.run = n
             S == {n \in DOMAIN runs : Automatic(n) /\ Stored(n)}
  <2>1. ASSUME NEW n \in S
        PROVE  row(n) \in AutoRows /\ row(n).run = n /\ RowTimes[row(n)] = row(n).at
    <3>1. \E r \in reviews : r.run = n
      BY DEF Stored
    <3>2. row(n) \in reviews /\ row(n).run = n
      BY <3>1
    <3> HIDE DEF row
    <3> QED
      BY <3>2 DEF AutoRows, RowTimes
  <2> HIDE DEF row
  <2>2. IsFiniteSet(AutoRows)
    BY <1>1, FS_Subset DEF AutoRows, SpendingInv, Types
  <2>3. ASSUME RepoCap > 0, NEW n \in S
        PROVE  Cardinality({m \in S : row(m).at \in row(n).at - RepoWindow .. row(n).at})
                   <= RepoCap + Workers - 1
    <3> DEFINE seen == {m \in S : row(m).at \in row(n).at - RepoWindow .. row(n).at}
               r == row(n)
               T == {q \in AutoRows : RowTimes[q] \in RowTimes[r] - RepoWindow .. RowTimes[r]}
    <3>1. Cardinality(T) <= RepoCap + Workers - 1
      BY <1>1, <2>1, <2>3 DEF SpendingInv, Repository, Fitting
    <3>2. \A m \in seen : \E t \in T : t.run = m
      BY <2>1, <2>3
    <3>3. IsFiniteSet(T)
      BY <2>2, FS_Subset
    <3> HIDE DEF T, seen, S
    <3>4. /\ Cardinality(seen) \in Nat /\ Cardinality(T) \in Nat
          /\ Cardinality(seen) <= Cardinality(T)
      BY <3>2, <3>3, Represented
    <3>5. Cardinality(seen) <= RepoCap + Workers - 1
      BY <3>1, <3>4, Numbers
    <3> QED
      BY <3>5 DEF seen
  <2> QED
    BY <2>3 DEF RepoOverrunBounded, AtMost, row
<1> QED
  BY <1>1, SpendingInvariance, PTL

\* The reviews an agent gives are, in no window, more than its limit and the
\* other workers.
THEOREM AgentOverrunLimited == Spec => []AgentOverrunBounded
<1>1. ASSUME SpendingInv
      PROVE  AgentOverrunBounded
  <2>1. ASSUME NEW a \in Agents
        PROVE  OfAgent(a) \in SUBSET Candidates(a)
    <3> SUFFICES ASSUME NEW n \in OfAgent(a)
                 PROVE  n \in Candidates(a)
      OBVIOUS
    <3>1. n \in DOMAIN runs /\ Automatic(n) /\ (n \in InProgress \/ Stored(n))
      BY DEF OfAgent, Spent
    <3>2. CASE Stored(n)
      <4> DEFINE r == CHOOSE r \in reviews : r.run = n
      <4>1. r \in reviews /\ r.run = n
        BY <3>2 DEF Stored
      <4>2. r.cli = a
        BY <3>2 DEF OfAgent, AgentOf
      <4> HIDE DEF r
      <4> QED
        BY <3>1, <4>1, <4>2 DEF Candidates
    <3>3. CASE ~Stored(n)
      <4>1. n \in InProgress /\ n \in Ran /\ Agent(n) = a
        BY <3>1, <3>3 DEF OfAgent
      <4>2. runs[n].pc \in Bidding
        <5>1. runs[n].pc \in Steps /\ runs[n].pc \notin Reported
          BY <1>1, <3>1, <3>3, <4>1, RunFields, StoredReported DEF SpendingInv, Types
        <5>2. runs[n].pc \notin BeforeAgents
          BY <4>1 DEF Ran
        <5> QED
          BY <5>1, <5>2 DEF Steps, Reported, Bidding
      <4>3. Among(a, runs[n].agents)
        <5>1. runs[n].agents \in Seq(Agents) /\ runs[n].agents # <<>>
          BY <1>1, <3>1, RunNumbers DEF SpendingInv, Types, Clock, Runs
        <5>2. Agent(n) = runs[n].agents[1] /\ 1 \in DOMAIN runs[n].agents
          BY <5>1 DEF Agent
        <5> QED
          BY <4>1, <5>2 DEF Among
      <4> QED
        BY <3>1, <4>2, <4>3 DEF Candidates
    <3> QED
      BY <3>2, <3>3
  <2>2. ASSUME NEW a \in Agents, AgentLimit[a] > 0, NEW n \in OfAgent(a)
        PROVE  Cardinality({m \in OfAgent(a) : runs[m].start
                               \in runs[n].start - AgentWindow .. runs[n].start})
                   <= AgentLimit[a] + Workers - 1
    <3> DEFINE limit == AgentLimit[a] + Workers - 1
    <3>1. Fitting(limit, Candidates(a), Starts, AgentWindow)
      BY <1>1, <2>2 DEF SpendingInv, AgentRoom
    <3>2. limit \in Int /\ IsFiniteSet(Candidates(a))
      BY <1>1, Numbers, LimitsAssumption, RunNumbers, FS_Subset
         DEF Candidates, SpendingInv, Types
    <3>3. \A m \in OfAgent(a) : m \in DOMAIN runs /\ Starts[m] = runs[m].start
      BY DEF OfAgent, Spent, Starts
    <3> HIDE DEF limit
    <3>4. Fitting(limit, OfAgent(a), Starts, AgentWindow)
      BY <2>1, <3>1, <3>2, PartFits
    <3>5. Cardinality({m \in OfAgent(a) :
                          Starts[m] \in Starts[n] - AgentWindow .. Starts[n]}) <= limit
      BY <2>2, <3>4 DEF Fitting
    <3>6. {m \in OfAgent(a) : Starts[m] \in Starts[n] - AgentWindow .. Starts[n]}
              = {m \in OfAgent(a) : runs[m].start
                                        \in runs[n].start - AgentWindow .. runs[n].start}
      BY <2>2, <3>3
    <3>7. Cardinality({m \in OfAgent(a) : runs[m].start
                          \in runs[n].start - AgentWindow .. runs[n].start}) <= limit
      BY <3>5, <3>6
    <3> QED
      BY <3>7 DEF limit
  <2> QED
    BY <2>2 DEF AgentOverrunBounded, AtMost
<1> QED
  BY <1>1, SpendingInvariance, PTL

-----------------------------------------------------------------------------
(* The cooldown *)

\* The delay is computed by a loop, which never shrinks it.
LEMMA DelayGrows ==
    ASSUME NEW j \in 0 .. MaxRuns, NEW i \in 0 .. j
    PROVE  RetryDelay(i) \in Nat /\ RetryDelay(j) \in Nat /\ RetryDelay(i) <= RetryDelay(j)
<1> DEFINE half == MaxDelay \div 2
           next(d) == IF d >= half THEN MaxDelay ELSE 2 * d
           D == 0 .. MaxDelay
           values(f) == [k \in 1 .. MaxRuns + 1 |->
                            IF k = 1 THEN BaseDelay ELSE next(f[k - 1])]
           delay == CHOOSE f : f = values(f)
           step == [p \in Nat \X D |-> next(p[2])]
<1>1. /\ MaxRuns \in Nat /\ MaxDelay \in Nat /\ BaseDelay \in Nat /\ BaseDelay <= MaxDelay
      /\ BaseDelay \in D
  BY LimitsAssumption
<1>2. half \in Nat /\ 2 * half <= MaxDelay
  <2>1. \A n \in Nat : n \div 2 \in Nat /\ 2 * (n \div 2) <= n
    OBVIOUS
  <2> QED
    BY <1>1, <2>1
<1> HIDE DEF half
<1>3. \A d \in D : next(d) \in D /\ d <= next(d)
  BY <1>1, <1>2
<1> HIDE DEF next
<1>4. step \in [Nat \X D -> D]
  BY <1>3
<1> HIDE DEF D
<1>5. PICK f \in [0 .. MaxRuns -> D] :
          f[0] = BaseDelay /\ \A k \in 1 .. MaxRuns : f[k] = step[<<k, f[k - 1]>>]
  <2> HIDE DEF step
  <2>1. Loops(D, BaseDelay, step, MaxRuns)
    BY <1>1, <1>4, LoopValues
  <2> QED
    BY <2>1 DEF Loops
<1>6. \A k \in 1 .. MaxRuns : f[k] = next(f[k - 1])
  <2> TAKE k \in 1 .. MaxRuns
  <2>1. <<k, f[k - 1]>> \in Nat \X D
    BY <1>1
  <2> QED
    BY <1>5, <2>1
<1> HIDE DEF step
<1> DEFINE g == [k \in 1 .. MaxRuns + 1 |-> f[k - 1]]
<1>7. g = values(g)
  <2>1. ASSUME NEW k \in 1 .. MaxRuns + 1
        PROVE  g[k] = IF k = 1 THEN BaseDelay ELSE next(g[k - 1])
    <3>1. CASE k = 1
      BY <1>5, <3>1
    <3>2. CASE k # 1
      <4>1. k - 1 \in 1 .. MaxRuns /\ k - 1 \in 1 .. MaxRuns + 1
        BY <1>1, <3>2
      <4>2. f[k - 1] = next(f[k - 1 - 1])
        BY <1>6, <4>1
      <4> QED
        BY <3>2, <4>1, <4>2
    <3> QED
      BY <3>1, <3>2
  <2> QED
    BY <2>1
<1>8. delay = values(delay)
  <2> HIDE DEF values, g
  <2> QED
    BY <1>7
<1>9. \A n : RetryDelay(n) = IF n = 0 THEN 0 ELSE delay[n]
  BY DEF RetryDelay, next, half
<1> HIDE DEF delay
<1>10. /\ delay[1] = BaseDelay
       /\ \A k \in 2 .. MaxRuns + 1 : delay[k] = next(delay[k - 1])
  BY <1>1, <1>8
<1> HIDE DEF values, g
<1> DEFINE Grown(k) == delay[k] \in D /\ \A m \in 1 .. k : delay[m] <= delay[k]
           bad == {k \in 1 .. MaxRuns + 1 : ~ Grown(k)}
<1>11. bad = {}
  <2>1. SUFFICES ASSUME bad # {}
                 PROVE  FALSE
    OBVIOUS
  <2>2. PICK k \in bad : \A m \in bad : k <= m
    <3>1. bad \in SUBSET Nat
      OBVIOUS
    <3> HIDE DEF bad
    <3> QED
      BY <2>1, <3>1, LeastNatural
  <2>3. k # 1
    BY <1>1, <1>10, <2>2 DEF D
  <2>4. k \in 2 .. MaxRuns + 1 /\ k - 1 \in 1 .. MaxRuns + 1 /\ k - 1 \notin bad
    BY <1>1, <2>2, <2>3
  <2>5. Grown(k - 1)
    BY <2>4
  <2>6. delay[k] \in D /\ delay[k - 1] <= delay[k] /\ delay[k - 1] \in D
    BY <1>3, <1>10, <2>4, <2>5
  <2>7. \A m \in 1 .. k : delay[m] <= delay[k]
    <3> TAKE m \in 1 .. k
    <3>1. CASE m = k
      BY <2>6, <3>1 DEF D
    <3>2. CASE m # k
      <4>1. m \in 1 .. k - 1 /\ m \in 1 .. MaxRuns + 1
        BY <1>1, <2>4, <3>2
      <4>2. m \notin bad
        BY <2>2, <2>4, <4>1
      <4>3. delay[m] \in D /\ delay[m] <= delay[k - 1]
        BY <2>5, <4>1, <4>2
      <4> QED
        BY <2>6, <4>3 DEF D
    <3> QED
      BY <3>1, <3>2
  <2> QED
    BY <2>2, <2>6, <2>7
<1>12. \A k \in 1 .. MaxRuns + 1 : Grown(k)
  BY <1>11
<1> HIDE DEF bad
<1>13. CASE i = 0
  <2>1. CASE j = 0
    BY <1>9, <1>13, <2>1
  <2>2. CASE j # 0
    <3>1. delay[j] \in D
      BY <1>1, <1>12, <2>2
    <3> QED
      BY <1>9, <1>13, <2>2, <3>1 DEF D
  <2> QED
    BY <2>1, <2>2
<1>14. CASE i # 0
  <2>1. j \in 1 .. MaxRuns + 1 /\ i \in 1 .. j /\ i \in 1 .. MaxRuns + 1 /\ j # 0
    BY <1>1, <1>14
  <2>2. delay[j] \in D /\ delay[i] \in D /\ delay[i] <= delay[j]
    BY <1>12, <2>1
  <2> QED
    BY <1>9, <1>14, <2>1, <2>2 DEF D
<1> QED
  BY <1>13, <1>14

\* What a cooldown stands for: no fewer attempts than have failed since the last
\* review, none of them later than the time it holds.
Remembered(c) ==
    /\ Cardinality(Fruitless(c, now)) <= cooldown[c].count
    /\ \A m \in Fruitless(c, now) : runs[m].start <= cooldown[c].last

\* A run in progress is the last of its commit.
Latest ==
    \A n \in InProgress : \A m \in DOMAIN runs :
        runs[m].commit = runs[n].commit => m <= n

\* A run that is to start an agent has waited as long as its commit's cooldown.
Waited ==
    \A n \in DOMAIN runs :
        runs[n].pc = "reserve" /\ Automatic(n) => ~ CoolingDown(runs[n].commit)

CooldownInv == Latest /\ Waited /\ \A c \in Commits : Remembered(c)

Begun == {"execute", "settle", "mark", "stored", "failed", "dead"}

\* The runs that have begun.
LEMMA RunsBegun ==
    ASSUME TypeOK
    PROVE  \A c, t : Fruitless(c, t) = {m \in DOMAIN runs :
                          /\ runs[m].pc \in Begun /\ runs[m].commit = c
                          /\ runs[m].start >= t - Retention
                          /\ \A r \in reviews : r.commit = c => r.run < m}
<1>1. \A m \in DOMAIN runs : runs[m].pc \in Steps \cup Ended
  BY RunFields
<1>2. Ran = {m \in DOMAIN runs : runs[m].pc \in Begun}
  BY <1>1 DEF Ran, Begun, Steps, Ended, BeforeAgents
<1> QED
  BY <1>2 DEF Fruitless

\* No run of c begins, and those that have keep what counts of them.
NoneBegins(c) ==
    \A m \in DOMAIN runs' :
        runs'[m].pc \in Begun /\ runs'[m].commit = c =>
            /\ m \in DOMAIN runs /\ runs[m].pc \in Begun
            /\ runs[m].commit = c /\ runs'[m].start = runs[m].start

\* Then its cooldown still stands for what it did if it grows, or was idle.
LEMMA StillRemembered ==
    ASSUME TypeOK, TypeOK', Clock, NEW c \in Commits, NoneBegins(c), Remembered(c),
           now <= now', reviews \subseteq reviews',
           \/ /\ cooldown[c].count <= cooldown'[c].count
              /\ cooldown[c].last <= cooldown'[c].last \/ now <= cooldown'[c].last
           \/ Fruitless(c, now) = {}
    PROVE  Remembered(c)'
<1> DEFINE old == Fruitless(c, now)
           new == Fruitless(c, now)'
<1>1. old = {m \in DOMAIN runs : /\ runs[m].pc \in Begun /\ runs[m].commit = c
                                 /\ runs[m].start >= now - Retention
                                 /\ \A r \in reviews : r.commit = c => r.run < m}
  BY RunsBegun
<1>2. new = {m \in DOMAIN runs' : /\ runs'[m].pc \in Begun /\ runs'[m].commit = c
                                  /\ runs'[m].start >= now' - Retention
                                  /\ \A r \in reviews' : r.commit = c => r.run < m}
  <2>1. \A m \in DOMAIN runs' : runs'[m].pc \in Steps \cup Ended
    <3>1. runs' \in Seq(Runs)
      BY DEF TypeOK
    <3>2. \A m \in DOMAIN runs' : runs'[m] \in Runs
      BY <3>1
    <3> QED
      BY <3>2 DEF Runs
  <2>2. Ran' = {m \in DOMAIN runs' : runs'[m].pc \in Begun}
    BY <2>1 DEF Ran, Begun, Steps, Ended, BeforeAgents
  <2> QED
    BY <2>2 DEF Fruitless
<1> HIDE DEF old, new
<1>3. /\ now \in Int /\ now' \in Int /\ Retention \in Int
      /\ \A m \in DOMAIN runs : runs[m].start \in Int /\ runs[m].start <= now
  <2>1. now' \in 0 .. MaxTime
    BY DEF TypeOK
  <2>2. now' \in Int /\ Retention \in Int
    BY <2>1, Numbers
  <2> QED
    BY <2>2, RunFields DEF Clock
<1>4. new \in SUBSET old /\ \A m \in new : runs'[m].start = runs[m].start /\ m \in DOMAIN runs
  BY <1>1, <1>2, <1>3 DEF NoneBegins
<1>5. IsFiniteSet(old)
  BY <1>1, RunNumbers, FS_Subset
<1>6. Cardinality(new) \in Nat /\ Cardinality(old) \in Nat /\ Cardinality(new) <= Cardinality(old)
  BY <1>4, <1>5, FewerElements
<1>7. /\ cooldown[c].count \in Int /\ cooldown'[c].count \in Int
      /\ cooldown[c].last \in Int /\ cooldown'[c].last \in Int
  <2>1. cooldown[c] \in CooldownRows /\ cooldown'[c] \in CooldownRows
    BY DEF TypeOK, CooldownRows
  <2> QED
    BY <2>1, Numbers DEF CooldownRows
<1>8. Cardinality(old) <= cooldown[c].count /\ \A m \in old : runs[m].start <= cooldown[c].last
  BY DEF Remembered, old
<1>9. Cardinality(new) <= cooldown'[c].count /\ \A m \in new : runs'[m].start <= cooldown'[c].last
  <2>1. CASE /\ cooldown[c].count <= cooldown'[c].count
             /\ cooldown[c].last <= cooldown'[c].last \/ now <= cooldown'[c].last
    <3>1. Cardinality(new) <= cooldown'[c].count
      BY <1>6, <1>7, <1>8, <2>1
    <3>2. \A m \in new : runs'[m].start <= cooldown'[c].last
      BY <1>3, <1>4, <1>7, <1>8, <2>1
    <3> QED
      BY <3>1, <3>2
  <2>2. CASE old = {}
    <3>1. new = {} /\ cooldown'[c].count \in Nat
      BY <1>4, <2>2, Numbers DEF TypeOK
    <3> QED
      BY <3>1, FS_EmptySet
  <2> QED
    BY <2>1, <2>2 DEF old
<1> QED
  BY <1>9 DEF Remembered, new

\* What n does leaves the other runs alone and its own commit and sort.
Alone(n) ==
    /\ DOMAIN runs' = DOMAIN runs /\ Others(n)
    /\ runs'[n].commit = runs[n].commit /\ runs'[n].force = runs[n].force
    /\ runs'[n].pc # "deferred" => runs'[n].start = runs[n].start

\* The steps of a run but for the reservation.
LEMMA StepsAlone ==
    ASSUME SpendingInv, NEW n \in DOMAIN runs,
           \/ SelectCLIs(n) \/ Check(n) \/ InsertReview(n) \/ ClearRetry(n) \/ MarkRetryFailure(n)
           \/ \E kind \in {"quota", "error", "final"} : ExecuteFails(n, kind)
           \/ ReserveRetryAttempt(n) /\ UNCHANGED cooldown /\ Deferred(n)
    PROVE  /\ Alone(n) /\ runs[n].pc \notin Ended
           /\ runs'[n].pc \in Begun => runs[n].pc \in Begun
           /\ runs'[n].pc = "reserve" => Check(n) /\ ~ Deferred(n)
<1>1. runs \in Seq(Runs) /\ runs[n] \in Runs
  BY Typed, RunNumbers DEF TypeOK
<1>2. ASSUME NEW p, Goto(n, p) \/ End(n, p)
      PROVE  Alone(n) /\ runs'[n].pc = p
  <2>1. CASE Goto(n, p)
    BY <1>1, <2>1 DEF Goto, Alone, Others, Runs
  <2>2. CASE End(n, p)
    <3> DEFINE x == [runs[n] EXCEPT !.pc = p, !.agents = Flow, !.prior = 0,
                                    !.start = IF p = "deferred" THEN 0 ELSE @]
    <3>1. /\ x.pc = p /\ x.commit = runs[n].commit /\ x.force = runs[n].force
          /\ p # "deferred" => x.start = runs[n].start
      BY <1>1 DEF Runs
    <3>2. runs' = [runs EXCEPT ![n] = x]
      BY <2>2 DEF End, Over
    <3> HIDE DEF x
    <3> QED
      BY <1>1, <3>1, <3>2 DEF Alone, Others
  <2> QED
    BY <1>2, <2>1, <2>2
<1>3. ASSUME Deferred(n)
      PROVE  Alone(n) /\ runs'[n].pc = "deferred"
  BY <1>2, <1>3 DEF Deferred
<1>4. CASE SelectCLIs(n)
  <2> DEFINE usable == Usable(n)
  <2>1. /\ runs[n].pc = "select"
        /\ Deferred(n) \/ runs' = [runs EXCEPT ![n].pc = "check", ![n].agents = usable]
    BY <1>4 DEF SelectCLIs
  <2> HIDE DEF usable
  <2>2. CASE runs' = [runs EXCEPT ![n].pc = "check", ![n].agents = usable]
    BY <1>1, <2>1, <2>2 DEF Alone, Others, Runs, Ended, Begun
  <2> QED
    BY <1>3, <2>1, <2>2 DEF Ended, Begun
<1>5. CASE Check(n)
  <2> DEFINE prior == IF runs[n].force THEN 0 ELSE cooldown[runs[n].commit].count
  <2>1. /\ runs[n].pc = "check"
        /\ Deferred(n) \/ runs' = [runs EXCEPT ![n].pc = "reserve", ![n].prior = prior]
    BY <1>5 DEF Check
  <2> HIDE DEF prior
  <2>2. CASE runs' = [runs EXCEPT ![n].pc = "reserve", ![n].prior = prior]
    <3>1. Alone(n) /\ runs'[n].pc = "reserve"
      BY <1>1, <2>1, <2>2 DEF Alone, Others, Runs
    <3> QED
      BY <1>3, <1>5, <2>1, <3>1 DEF Ended, Begun
  <2> QED
    BY <1>3, <2>1, <2>2 DEF Ended, Begun
<1>6. CASE InsertReview(n)
  BY <1>2, <1>6 DEF InsertReview, Ended, Begun
<1>7. CASE ClearRetry(n) \/ MarkRetryFailure(n)
  BY <1>2, <1>7 DEF ClearRetry, MarkRetryFailure, Ended, Begun
<1>8. ASSUME NEW kind \in {"quota", "error", "final"}, ExecuteFails(n, kind)
      PROVE  /\ Alone(n) /\ runs[n].pc \notin Ended
             /\ runs'[n].pc \in Begun => runs[n].pc \in Begun
             /\ runs'[n].pc # "reserve"
  <2>1. /\ runs[n].pc = "execute"
        /\ Goto(n, "mark") \/ runs' = [runs EXCEPT ![n].agents = Tail(@)]
    BY <1>8 DEF ExecuteFails
  <2>2. CASE runs' = [runs EXCEPT ![n].agents = Tail(@)]
    BY <1>1, <2>1, <2>2 DEF Alone, Others, Runs, Ended, Begun
  <2> QED
    BY <1>2, <2>1, <2>2 DEF Ended, Begun
<1>9. CASE ReserveRetryAttempt(n) /\ Deferred(n)
  BY <1>3, <1>9 DEF ReserveRetryAttempt, Ended, Begun
<1> QED
  BY <1>4, <1>5, <1>6, <1>7, <1>8, <1>9

\* A run that goes on or ends is still the last of its commit if it goes on.
LEMMA StillLatest ==
    ASSUME CooldownInv, NEW n \in DOMAIN runs, Alone(n), runs[n].pc \notin Ended
    PROVE  Latest'
<1> SUFFICES ASSUME NEW k \in InProgress', NEW m \in DOMAIN runs',
                    runs'[m].commit = runs'[k].commit
             PROVE  m <= k
  BY DEF Latest
<1>1. k \in DOMAIN runs /\ runs'[k].pc \notin Ended /\ m \in DOMAIN runs
  BY DEF InProgress, Alone
<1>2. k \in InProgress
  BY <1>1 DEF InProgress, Alone, Others
<1>3. runs[m].commit = runs[k].commit
  BY <1>1 DEF Alone, Others
<1> QED
  BY <1>1, <1>2, <1>3 DEF CooldownInv, Latest

\* Others that are to start an agent are of other commits.
LEMMA StillWaited ==
    ASSUME SpendingInv, CooldownInv, NEW n \in DOMAIN runs, Alone(n), runs[n].pc \notin Ended,
           now' = now, \A d \in Commits : d # runs[n].commit => cooldown'[d] = cooldown[d],
           runs'[n].pc = "reserve" /\ Automatic(n) => ~ CoolingDown(runs[n].commit)',
           runs[n].force \in BOOLEAN
    PROVE  Waited'
<1> SUFFICES ASSUME NEW k \in DOMAIN runs', runs'[k].pc = "reserve", ~ runs'[k].force
             PROVE  ~ CoolingDown(runs[k].commit)'
  BY DEF Waited, Automatic
<1>1. CASE k = n
  BY <1>1 DEF Alone, Automatic
<1>2. CASE k # n
  <2>1. k \in DOMAIN runs /\ runs'[k] = runs[k] /\ runs[k].commit \in Commits
    BY <1>2, Typed, RunFields DEF Alone, Others
  <2>2. runs[k].commit # runs[n].commit
    BY <1>2, <2>1 DEF SpendingInv, Exclusive, InProgress, Ended
  <2>3. ~ CoolingDown(runs[k].commit)
    BY <2>1 DEF CooldownInv, Waited, Automatic
  <2> QED
    BY <2>1, <2>2, <2>3 DEF CoolingDown
<1> QED
  BY <1>1, <1>2

\* If n begins nothing, no run begins.
LEMMA AloneBegins ==
    ASSUME NEW n \in DOMAIN runs, Alone(n), runs'[n].pc \in Begun => runs[n].pc \in Begun
    PROVE  \A c : NoneBegins(c)
BY DEF Alone, Others, NoneBegins, Begun

\* The steps of a run that leave the cooldowns alone.
LEMMA PlainCooldown ==
    ASSUME SpendingInv, SpendingInv', CooldownInv, NEW n \in DOMAIN runs,
           \/ SelectCLIs(n) \/ Check(n) \/ InsertReview(n)
           \/ \E kind \in {"quota", "error", "final"} : ExecuteFails(n, kind)
           \/ ReserveRetryAttempt(n) /\ UNCHANGED cooldown /\ Deferred(n)
    PROVE  CooldownInv'
<1>1. /\ Alone(n) /\ runs[n].pc \notin Ended
      /\ runs'[n].pc \in Begun => runs[n].pc \in Begun
      /\ runs'[n].pc = "reserve" => Check(n) /\ ~ Deferred(n)
  BY StepsAlone
<1>2. UNCHANGED <<now, cooldown>> /\ reviews \subseteq reviews'
  BY DEF SelectCLIs, Check, InsertReview, ExecuteFails, ReserveRetryAttempt
<1>3. /\ TypeOK /\ TypeOK' /\ Clock /\ now \in Int
      /\ \A c \in Commits : cooldown[c].count \in Int /\ cooldown[c].last \in Int
  <2>1. TypeOK'
    BY DEF SpendingInv, Types
  <2> QED
    BY <2>1, Typed, Numbers DEF CooldownRows
<1>4. ASSUME NEW c \in Commits
      PROVE  Remembered(c)'
  <2>1. NoneBegins(c) /\ Remembered(c)
    BY <1>1, AloneBegins DEF CooldownInv
  <2>2. /\ now <= now' /\ cooldown[c].count <= cooldown'[c].count
        /\ cooldown[c].last <= cooldown'[c].last
    BY <1>2, <1>3
  <2> QED
    BY <1>2, <1>3, <2>1, <2>2, StillRemembered
<1>5. Latest'
  BY <1>1, StillLatest
<1>6. Waited'
  <2>1. runs'[n].pc = "reserve" /\ Automatic(n) => ~ CoolingDown(runs[n].commit)'
    <3> SUFFICES ASSUME runs'[n].pc = "reserve", Automatic(n)
                 PROVE  ~ CoolingDown(runs[n].commit)'
      OBVIOUS
    <3>1. ~ CoolingDown(runs[n].commit)
      BY <1>1 DEF Check, Automatic
    <3>2. runs'[n].commit = runs[n].commit
      BY <1>1 DEF Alone
    <3> QED
      BY <1>2, <3>1, <3>2 DEF CoolingDown
  <2>2. runs[n].force \in BOOLEAN
    BY <1>3, RunFields
  <2> QED
    BY <1>1, <1>2, <2>1, <2>2, StillWaited
<1> QED
  BY <1>4, <1>5, <1>6 DEF CooldownInv

\* The end of a run that was stored: it is the last of its commit, so nothing
\* has failed since.
LEMMA ClearCooldown ==
    ASSUME SpendingInv, SpendingInv', CooldownInv, NEW n \in DOMAIN runs, ClearRetry(n)
    PROVE  CooldownInv'
<1> DEFINE c == runs[n].commit
           cleared == [cooldown EXCEPT ![c] = NoRow]
<1>1. /\ Alone(n) /\ runs[n].pc \notin Ended /\ runs'[n].pc = "stored"
      /\ runs'[n].pc \in Begun => runs[n].pc \in Begun
  <2>1. /\ Alone(n) /\ runs[n].pc \notin Ended
        /\ runs'[n].pc \in Begun => runs[n].pc \in Begun
    BY StepsAlone
  <2>2. runs[n] \in Runs /\ runs \in Seq(Runs) /\ End(n, "stored")
    BY Typed, RunNumbers DEF ClearRetry, TypeOK
  <2>3. runs'[n].pc = "stored"
    <3>1. Over(runs[n], "stored").pc = "stored" /\ runs'[n] = Over(runs[n], "stored")
      BY <2>2, IsOver DEF End, Ended
    <3> QED
      BY <3>1
  <2> QED
    BY <2>1, <2>3
<1>2. /\ runs[n].pc = "settle" /\ UNCHANGED <<now, reviews>> /\ cooldown' \in {cleared, cooldown}
  BY DEF ClearRetry
<1>3. /\ TypeOK /\ TypeOK' /\ Clock /\ now \in Int /\ cooldown \in Cooldowns
      /\ \A d \in Commits : cooldown[d].count \in Int /\ cooldown[d].last \in Int
      /\ runs[n].force \in BOOLEAN /\ c \in Commits
  <2>1. TypeOK'
    BY DEF SpendingInv, Types
  <2> QED
    BY <2>1, Typed, RunFields, Numbers DEF CooldownRows
<1>4. Fruitless(c, now) = {}
  <2>1. PICK r \in reviews : r.run = n /\ r.commit = c
    BY <1>2 DEF SpendingInv, Rows, Reported
  <2>2. ASSUME NEW m \in Fruitless(c, now)
        PROVE  FALSE
    <3>1. m \in DOMAIN runs /\ runs[m].commit = c /\ n < m
      BY <2>1, RunsBegun, <1>3
    <3>2. n \in InProgress /\ m <= n
      BY <1>1, <3>1 DEF CooldownInv, Latest, InProgress
    <3>3. m \in Int /\ n \in Int
      BY <1>3, <3>1, RunNumbers
    <3> QED
      BY <3>1, <3>2, <3>3
  <2> QED
    BY <2>2
<1>5. \A d \in Commits : d # c => cooldown'[d] = cooldown[d]
  BY <1>2, <1>3 DEF Cooldowns
<1> HIDE DEF cleared
<1>6. ASSUME NEW d \in Commits
      PROVE  Remembered(d)'
  <2>1. NoneBegins(d) /\ Remembered(d) /\ now <= now' /\ reviews \subseteq reviews'
    BY <1>1, <1>2, <1>3, AloneBegins DEF CooldownInv
  <2>2. \/ /\ cooldown[d].count <= cooldown'[d].count
           /\ cooldown[d].last <= cooldown'[d].last
        \/ Fruitless(d, now) = {}
    BY <1>3, <1>4, <1>5
  <2> QED
    BY <1>3, <2>1, <2>2, StillRemembered
<1>7. Latest' /\ Waited'
  BY <1>1, <1>2, <1>3, <1>5, StillLatest, StillWaited
<1> QED
  BY <1>6, <1>7 DEF CooldownInv

\* The end of a run without a review starts the cooldown anew.
LEMMA MarkCooldown ==
    ASSUME SpendingInv, SpendingInv', CooldownInv, NEW n \in DOMAIN runs, MarkRetryFailure(n)
    PROVE  CooldownInv'
<1> DEFINE c == runs[n].commit
           row == cooldown[c]
           failed == IF row.count = 0 THEN row ELSE [row EXCEPT !.last = now, !.active = FALSE]
           marked == [cooldown EXCEPT ![c] = failed]
<1>1. /\ Alone(n) /\ runs[n].pc \notin Ended /\ runs'[n].pc = "failed"
      /\ runs'[n].pc \in Begun => runs[n].pc \in Begun
  <2>1. /\ Alone(n) /\ runs[n].pc \notin Ended
        /\ runs'[n].pc \in Begun => runs[n].pc \in Begun
    BY StepsAlone
  <2>2. runs[n] \in Runs /\ runs \in Seq(Runs) /\ End(n, "failed")
    BY Typed, RunNumbers DEF MarkRetryFailure, TypeOK
  <2>3. runs'[n].pc = "failed"
    <3>1. Over(runs[n], "failed").pc = "failed" /\ runs'[n] = Over(runs[n], "failed")
      BY <2>2, IsOver DEF End, Ended
    <3> QED
      BY <3>1
  <2> QED
    BY <2>1, <2>3
<1>2. UNCHANGED <<now, reviews>> /\ cooldown' \in {marked, cooldown}
  BY DEF MarkRetryFailure
<1>3. /\ TypeOK /\ TypeOK' /\ Clock /\ now \in Int /\ cooldown \in Cooldowns
      /\ \A d \in Commits : /\ cooldown[d].count \in Int /\ cooldown[d].last \in Int
                            /\ cooldown[d] \in CooldownRows
      /\ runs[n].force \in BOOLEAN /\ c \in Commits
  <2>1. TypeOK'
    BY DEF SpendingInv, Types
  <2> QED
    BY <2>1, Typed, RunFields, Numbers DEF CooldownRows
<1>4. failed.count = row.count /\ (failed.last = row.last \/ failed.last = now)
  BY <1>3 DEF CooldownRows
<1> HIDE DEF failed
<1>5. /\ \A d \in Commits : d # c => cooldown'[d] = cooldown[d]
      /\ cooldown'[c] \in {failed, row}
  BY <1>2, <1>3 DEF Cooldowns
<1> HIDE DEF marked
<1>6. ASSUME NEW d \in Commits
      PROVE  Remembered(d)'
  <2>1. NoneBegins(d) /\ Remembered(d) /\ now <= now' /\ reviews \subseteq reviews'
    BY <1>1, <1>2, <1>3, AloneBegins DEF CooldownInv
  <2>2. /\ cooldown[d].count <= cooldown'[d].count
        /\ cooldown[d].last <= cooldown'[d].last \/ now <= cooldown'[d].last
    BY <1>3, <1>4, <1>5
  <2> QED
    BY <1>3, <2>1, <2>2, StillRemembered
<1>7. Latest' /\ Waited'
  BY <1>1, <1>2, <1>3, <1>5, StillLatest, StillWaited
<1> QED
  BY <1>6, <1>7 DEF CooldownInv

\* The reservation records the execution that begins.
LEMMA ReserveCooldown ==
    ASSUME SpendingInv, SpendingInv', CooldownInv, NEW n \in DOMAIN runs,
           ReserveRetryAttempt(n)
    PROVE  CooldownInv'
<1>0. PICK c : c = runs[n].commit
  OBVIOUS
<1> DEFINE row == [count |-> cooldown[c].count + 1, last |-> runs[n].start, active |-> TRUE]
           old == Fruitless(c, now)
           new == Fruitless(c, now)'
<1>1. /\ runs[n].pc = "reserve" /\ UNCHANGED <<now, reviews>>
      /\ \/ Deferred(n) /\ UNCHANGED cooldown
         \/ AdvanceRetryBackoff(n) /\ Rotate(n)
  BY DEF ReserveRetryAttempt
<1>2. CASE Deferred(n) /\ UNCHANGED cooldown
  BY <1>2, PlainCooldown
<1>3. CASE AdvanceRetryBackoff(n) /\ Rotate(n)
  <2>1. /\ TypeOK /\ TypeOK' /\ Clock /\ now \in Int /\ cooldown \in Cooldowns
        /\ \A d \in Commits : cooldown[d].count \in Int /\ cooldown[d].last \in Int
        /\ runs[n].force \in BOOLEAN /\ c \in Commits /\ runs[n].start = now
    <3>1. TypeOK'
      BY DEF SpendingInv, Types
    <3> QED
      BY <1>0, <1>1, <3>1, Typed, RunFields, Numbers DEF CooldownRows, Clock, BeforeAgents
  <2>2. Moving /\ Others(n) /\ runs'[n].pc = "execute"
    BY <1>1, <1>3, RotateMoves
  <2>3. runs'[n].commit = c /\ runs'[n].force = runs[n].force /\ runs'[n].start = now
    BY <1>0, <2>1, <2>2, Back DEF Moving
  <2>4. Alone(n) /\ runs[n].pc \notin Ended
    BY <1>0, <1>1, <2>1, <2>2, <2>3 DEF Alone, Moving, Ended
  <2>5. /\ row.count = cooldown[c].count + 1 /\ row.last = now
        /\ cooldown' = [cooldown EXCEPT ![c] = row]
    <3>1. cooldown' = [cooldown EXCEPT ![c] = row]
      BY <1>0, <1>3, <2>1 DEF AdvanceRetryBackoff, Cooldowns
    <3> QED
      BY <2>1, <3>1
  <2> HIDE DEF row
  <2>6. cooldown'[c] = row /\ \A d \in Commits : d # c => cooldown'[d] = cooldown[d]
    BY <2>1, <2>5 DEF Cooldowns
  <2>7. ASSUME NEW d \in Commits, d # c
        PROVE  Remembered(d)'
    <3>1. NoneBegins(d)
      BY <1>0, <2>2, <2>3, <2>7 DEF NoneBegins, Moving, Others
    <3>2. /\ Remembered(d) /\ now <= now' /\ reviews \subseteq reviews'
          /\ cooldown[d].count <= cooldown'[d].count
          /\ cooldown[d].last <= cooldown'[d].last
      BY <1>1, <2>1, <2>6, <2>7 DEF CooldownInv
    <3> QED
      BY <2>1, <3>1, <3>2, StillRemembered
  <2>8. Remembered(c)'
    <3>1. old = {m \in DOMAIN runs : /\ runs[m].pc \in Begun /\ runs[m].commit = c
                                     /\ runs[m].start >= now - Retention
                                     /\ \A r \in reviews : r.commit = c => r.run < m}
      BY <2>1, RunsBegun
    <3>2. new \subseteq {m \in DOMAIN runs' :
                            /\ runs'[m].pc \in Begun /\ runs'[m].commit = c
                            /\ runs'[m].start >= now - Retention
                            /\ \A r \in reviews : r.commit = c => r.run < m}
      <4>1. \A m \in DOMAIN runs' : runs'[m].pc \in Steps \cup Ended
        <5>1. runs' \in Seq(Runs)
          BY <2>1 DEF TypeOK
        <5>2. \A m \in DOMAIN runs' : runs'[m] \in Runs
          BY <5>1
        <5> QED
          BY <5>2 DEF Runs
      <4>2. Ran' = {m \in DOMAIN runs' : runs'[m].pc \in Begun}
        BY <4>1 DEF Ran, Begun, Steps, Ended, BeforeAgents
      <4> QED
        BY <1>1, <4>2 DEF Fruitless
    <3> HIDE DEF old, new
    <3>3. ASSUME NEW m \in new, m # n
          PROVE  m \in old /\ runs'[m] = runs[m]
      BY <2>2, <3>1, <3>2, <3>3 DEF Moving, Others
    <3>4. IsFiniteSet(old)
      BY <2>1, <3>1, RunNumbers, FS_Subset
    <3>5. /\ Cardinality(new) \in Nat /\ Cardinality(old) \in Nat
          /\ Cardinality(new) <= Cardinality(old) + 1
      <4>1. new \in SUBSET (old \cup {n})
        BY <3>3
      <4>2. /\ IsFiniteSet(old \cup {n}) /\ Cardinality(old \cup {n}) \in Nat
            /\ Cardinality(old) \in Nat /\ Cardinality(old \cup {n}) <= Cardinality(old) + 1
        BY <3>4, OneElementMore, FS_AddElement
      <4>3. Cardinality(new) \in Nat /\ Cardinality(new) <= Cardinality(old \cup {n})
        BY <4>1, <4>2, FewerElements
      <4> QED
        BY <4>2, <4>3
    <3>6. Cardinality(old) <= cooldown[c].count
      BY <2>1 DEF CooldownInv, Remembered, old
    <3>7. Cardinality(new) <= cooldown'[c].count
      BY <2>1, <2>5, <2>6, <3>5, <3>6
    <3>8. ASSUME NEW m \in new
          PROVE  runs'[m].start <= cooldown'[c].last
      <4>1. runs'[m].start <= now
        <5>1. CASE m = n
          BY <2>1, <2>3, <5>1
        <5>2. CASE m # n
          BY <2>1, <3>1, <3>3, <5>2 DEF Clock
        <5> QED
          BY <5>1, <5>2
      <4> QED
        BY <2>5, <2>6, <4>1
    <3> QED
      BY <3>7, <3>8 DEF Remembered, new
  <2>9. Latest' /\ Waited'
    BY <1>0, <1>1, <2>1, <2>2, <2>4, <2>6, StillLatest, StillWaited
  <2>10. \A d \in Commits : Remembered(d)'
    BY <2>7, <2>8
  <2> QED
    BY <2>9, <2>10 DEF CooldownInv
<1> QED
  BY <1>1, <1>2, <1>3

\* The sweep forgets a cooldown when nothing it stands for counts any more.
LEMMA PruneCooldown ==
    ASSUME SpendingInv, SpendingInv', CooldownInv, Prune
    PROVE  CooldownInv'
<1> DEFINE old(at) == at < now - Retention
<1>1. /\ UNCHANGED <<now, reviews, runs>>
      /\ \A c \in Commits :
             cooldown'[c] = IF old(cooldown[c].last) THEN NoRow ELSE cooldown[c]
  BY DEF Prune
<1>2. /\ TypeOK /\ TypeOK' /\ Clock /\ now \in Nat
      /\ \A d \in Commits : cooldown[d].count \in Int /\ cooldown[d].last \in Int
  <2>1. TypeOK'
    BY DEF SpendingInv, Types
  <2> QED
    BY <2>1, Typed, RunFields, Numbers DEF CooldownRows
<1>3. ASSUME NEW c \in Commits
      PROVE  Remembered(c)'
  <2>1. NoneBegins(c) /\ Remembered(c) /\ now <= now' /\ reviews \subseteq reviews'
    BY <1>1, <1>2 DEF CooldownInv, NoneBegins
  <2>2. CASE old(cooldown[c].last)
    <3>1. ASSUME NEW m \in Fruitless(c, now)
          PROVE  FALSE
      <4>1. /\ m \in DOMAIN runs /\ runs[m].start >= now - Retention
            /\ runs[m].start <= cooldown[c].last
        BY <1>2, <2>1, RunsBegun DEF Remembered
      <4> QED
        BY <1>2, <2>2, <4>1, RunFields, Numbers
    <3>2. Fruitless(c, now) = {}
      BY <3>1
    <3> QED
      BY <1>2, <2>1, <3>2, StillRemembered
  <2>3. CASE ~ old(cooldown[c].last)
    <3>1. cooldown'[c] = cooldown[c]
      BY <1>1, <2>3
    <3>2. /\ cooldown[c].count <= cooldown'[c].count
          /\ cooldown[c].last <= cooldown'[c].last
      BY <1>2, <3>1
    <3> QED
      BY <1>2, <2>1, <3>2, StillRemembered
  <2> QED
    BY <2>2, <2>3
<1>4. Latest'
  BY <1>1 DEF CooldownInv, Latest, InProgress
<1>5. Waited'
  <2> SUFFICES ASSUME NEW k \in DOMAIN runs', runs'[k].pc = "reserve", ~ runs'[k].force
               PROVE  ~ CoolingDown(runs[k].commit)'
    BY DEF Waited, Automatic
  <2>1. k \in DOMAIN runs /\ runs[k].commit \in Commits /\ ~ CoolingDown(runs[k].commit)
    BY <1>1, <1>2, RunFields DEF CooldownInv, Waited, Automatic
  <2>2. CASE old(cooldown[runs[k].commit].last)
    <3>1. cooldown'[runs[k].commit] = NoRow
      BY <1>1, <2>1, <2>2
    <3>2. NoRow.last = 0 /\ NoRow.count = 0 /\ RetryDelay(0) = 0
      BY DEF NoRow, RetryDelay
    <3>3. ~ (now < NoRow.last + RetryDelay(NoRow.count))
      BY <1>2, <3>2
    <3>4. runs'[k].commit = runs[k].commit /\ now' = now
      BY <1>1
    <3> QED
      BY <3>1, <3>3, <3>4 DEF CoolingDown
  <2>3. CASE ~ old(cooldown[runs[k].commit].last)
    <3>1. /\ cooldown'[runs[k].commit] = cooldown[runs[k].commit]
          /\ runs'[k].commit = runs[k].commit /\ now' = now
      BY <1>1, <2>1, <2>3
    <3> QED
      BY <2>1, <3>1 DEF CoolingDown
  <2> QED
    BY <2>2, <2>3
<1> QED
  BY <1>3, <1>4, <1>5 DEF CooldownInv

\* Time passes when no run is about to start an agent.
LEMMA TickCooldown ==
    ASSUME SpendingInv, SpendingInv', CooldownInv, Tick
    PROVE  CooldownInv'
<1>1. UNCHANGED <<reviews, cooldown, runs>> /\ now' = now + 1 /\ Prompt
  BY DEF Tick
<1>2. /\ TypeOK /\ TypeOK' /\ Clock /\ now \in Nat
      /\ \A d \in Commits : cooldown[d].count \in Int /\ cooldown[d].last \in Int
  <2>1. TypeOK'
    BY DEF SpendingInv, Types
  <2> QED
    BY <2>1, Typed, RunFields, Numbers DEF CooldownRows
<1>3. ASSUME NEW c \in Commits
      PROVE  Remembered(c)'
  <2>1. /\ NoneBegins(c) /\ Remembered(c) /\ now <= now' /\ reviews \subseteq reviews'
        /\ cooldown[c].count <= cooldown'[c].count /\ cooldown[c].last <= cooldown'[c].last
    BY <1>1, <1>2 DEF CooldownInv, NoneBegins
  <2> QED
    BY <1>2, <2>1, StillRemembered
<1>4. Latest'
  BY <1>1 DEF CooldownInv, Latest, InProgress
<1>5. Waited'
  <2>1. \A k \in DOMAIN runs' : runs'[k].pc # "reserve"
    BY <1>1 DEF Prompt, InProgress, Ended
  <2> QED
    BY <2>1 DEF Waited
<1> QED
  BY <1>3, <1>4, <1>5 DEF CooldownInv

\* What a dead daemon had begun keeps counting.
LEMMA CrashCooldown ==
    ASSUME SpendingInv, SpendingInv', CooldownInv, Crash
    PROVE  CooldownInv'
<1> DEFINE over(n) == CASE runs[n].pc \in Ended -> runs[n].pc
                        [] Stored(n) -> "stored"
                        [] runs[n].pc \in BeforeAgents -> "deferred"
                        [] OTHER -> "dead"
<1>1. /\ UNCHANGED <<now, reviews>>
      /\ runs' = [n \in DOMAIN runs |-> Over(runs[n], over(n))]
      /\ cooldown' = [c \in Commits |-> [cooldown[c] EXCEPT !.active = FALSE]]
  BY DEF Crash
<1>2. /\ TypeOK /\ TypeOK' /\ Clock /\ now \in Int
      /\ \A d \in Commits : /\ cooldown[d].count \in Int /\ cooldown[d].last \in Int
                            /\ cooldown[d] \in CooldownRows
  <2>1. TypeOK'
    BY DEF SpendingInv, Types
  <2> QED
    BY <2>1, Typed, RunFields, Numbers DEF CooldownRows
<1>3. ASSUME NEW m \in DOMAIN runs
      PROVE  over(m) \in Ended /\ (over(m) \in Begun => runs[m].pc \in Begun)
  <2>1. Stored(m) <=> runs[m].pc \in Reported
    BY StoredReported
  <2>2. runs[m].pc \in Steps \cup Ended
    BY <1>2, RunFields
  <2> QED
    BY <2>1, <2>2 DEF Reported, Steps, Ended, BeforeAgents, Begun
<1> HIDE DEF over
<1>4. DOMAIN runs' = DOMAIN runs
  BY <1>1
<1>5. ASSUME NEW m \in DOMAIN runs
      PROVE  /\ runs'[m].pc = over(m) /\ runs'[m].commit = runs[m].commit
             /\ over(m) \in Begun => runs'[m].start = runs[m].start
  <2>1. runs[m] \in Runs /\ runs'[m] = Over(runs[m], over(m))
    BY <1>1, <1>2, RunNumbers
  <2>2. over(m) \in Begun => over(m) # "deferred"
    BY DEF Begun
  <2> QED
    BY <1>3, <2>1, <2>2 DEF Over, Runs
<1>6. ASSUME NEW c \in Commits
      PROVE  Remembered(c)'
  <2>1. NoneBegins(c)
    BY <1>3, <1>4, <1>5 DEF NoneBegins
  <2>2. cooldown'[c].count = cooldown[c].count /\ cooldown'[c].last = cooldown[c].last
    BY <1>1, <1>2 DEF CooldownRows
  <2>3. /\ Remembered(c) /\ now <= now' /\ reviews \subseteq reviews'
        /\ cooldown[c].count <= cooldown'[c].count /\ cooldown[c].last <= cooldown'[c].last
    BY <1>1, <1>2, <2>2 DEF CooldownInv
  <2> QED
    BY <1>2, <2>1, <2>3, StillRemembered
<1>7. \A m \in DOMAIN runs' : runs'[m].pc \in Ended
  BY <1>3, <1>4, <1>5
<1>8. Latest' /\ Waited'
  BY <1>7 DEF Latest, Waited, InProgress, Ended
<1> QED
  BY <1>6, <1>8 DEF CooldownInv

\* A new run is the last of its commit, as none of it is in progress.
LEMMA AdmitCooldown ==
    ASSUME SpendingInv, SpendingInv', CooldownInv,
           NEW c \in Commits, NEW force \in BOOLEAN, Admit(c, force)
    PROVE  CooldownInv'
<1> DEFINE n == Len(runs) + 1
<1>1. Joined(n) /\ runs'[n].commit = c
  BY AdmitJoins
<1>2. ~ Claimed(c)
  BY DEF Admit
<1>3. /\ TypeOK /\ TypeOK' /\ Clock /\ now \in Int
      /\ \A d \in Commits : cooldown[d].count \in Int /\ cooldown[d].last \in Int
  <2>1. TypeOK'
    BY DEF SpendingInv, Types
  <2> QED
    BY <2>1, Typed, RunFields, Numbers DEF CooldownRows
<1>4. Len(runs) \in Nat /\ DOMAIN runs = 1 .. Len(runs)
  BY <1>3, RunNumbers
<1>5. /\ \A m \in DOMAIN runs : m <= n /\ runs'[m] = runs[m]
      /\ DOMAIN runs' = DOMAIN runs \cup {n} /\ n <= n
      /\ runs'[n].pc = "select" /\ UNCHANGED <<now, reviews, cooldown>>
  BY <1>1, <1>4 DEF Joined
<1> HIDE DEF n
<1>6. ASSUME NEW d \in Commits
      PROVE  Remembered(d)'
  <2>1. NoneBegins(d) /\ Remembered(d) /\ now <= now' /\ reviews \subseteq reviews'
    BY <1>3, <1>5 DEF CooldownInv, NoneBegins, Begun
  <2>2. cooldown[d].count <= cooldown'[d].count /\ cooldown[d].last <= cooldown'[d].last
    BY <1>3, <1>5
  <2> QED
    BY <1>3, <2>1, <2>2, StillRemembered
<1>7. Latest'
  <2> SUFFICES ASSUME NEW k \in InProgress', NEW m \in DOMAIN runs',
                      runs'[m].commit = runs'[k].commit
               PROVE  m <= k
    BY DEF Latest
  <2>1. CASE k = n
    BY <1>5, <2>1
  <2>2. CASE k # n
    <3>1. k \in InProgress /\ runs'[k] = runs[k] /\ runs[k].commit # c
      BY <1>2, <1>5, <2>2 DEF InProgress, Claimed
    <3>2. m # n
      BY <1>1, <3>1
    <3> QED
      BY <1>5, <3>1, <3>2 DEF CooldownInv, Latest
  <2> QED
    BY <2>1, <2>2
<1>8. Waited'
  <2> SUFFICES ASSUME NEW k \in DOMAIN runs', runs'[k].pc = "reserve", ~ runs'[k].force
               PROVE  ~ CoolingDown(runs[k].commit)'
    BY DEF Waited, Automatic
  <2>1. k \in DOMAIN runs /\ runs'[k] = runs[k]
    BY <1>5
  <2>2. ~ CoolingDown(runs[k].commit)
    BY <2>1 DEF CooldownInv, Waited, Automatic
  <2> QED
    BY <1>5, <2>1, <2>2 DEF CoolingDown
<1> QED
  BY <1>6, <1>7, <1>8 DEF CooldownInv

\* In the beginning nothing has failed,
LEMMA InitCooldown == Init => CooldownInv
<1> SUFFICES ASSUME Init
             PROVE  CooldownInv
  OBVIOUS
<1>1. /\ cooldown = [c \in Commits |-> NoRow] /\ runs = <<>> /\ DOMAIN runs = {}
  BY DEF Init
<1>2. Latest /\ Waited
  BY <1>1 DEF Latest, Waited
<1>3. ASSUME NEW c \in Commits
      PROVE  Remembered(c)
  <2>1. Fruitless(c, now) = {} /\ cooldown[c].count = 0
    BY <1>1 DEF Fruitless, Ran, NoRow
  <2> QED
    BY <2>1, FS_EmptySet DEF Remembered
<1> QED
  BY <1>2, <1>3 DEF CooldownInv

\* and every step keeps what the cooldowns stand for.
LEMMA NextCooldown ==
    ASSUME SpendingInv, SpendingInv', CooldownInv, [Next]_vars
    PROVE  CooldownInv'
<1>1. ASSUME NEW c \in Commits, NEW force \in BOOLEAN, Admit(c, force)
      PROVE  CooldownInv'
  BY <1>1, AdmitCooldown
<1>2. ASSUME NEW n \in DOMAIN runs, RunStep(n)
      PROVE  CooldownInv'
  <2>1. CASE SelectCLIs(n) \/ Check(n) \/ InsertReview(n)
    BY <2>1, PlainCooldown
  <2>2. ASSUME NEW kind \in {"quota", "error", "final"}, ExecuteFails(n, kind)
        PROVE  CooldownInv'
    BY <2>2, PlainCooldown
  <2>3. CASE ReserveRetryAttempt(n)
    BY <2>3, ReserveCooldown
  <2>4. CASE ClearRetry(n)
    BY <2>4, ClearCooldown
  <2>5. CASE MarkRetryFailure(n)
    BY <2>5, MarkCooldown
  <2> QED
    BY <1>2, <2>1, <2>2, <2>3, <2>4, <2>5 DEF RunStep
<1>3. CASE Prune
  BY <1>3, PruneCooldown
<1>4. CASE Tick
  BY <1>4, TickCooldown
<1>5. CASE Crash
  BY <1>5, CrashCooldown
<1>6. CASE UNCHANGED vars
  <2>1. UNCHANGED <<now, reviews, cooldown, runs>>
    BY <1>6 DEF vars
  <2>2. Latest' /\ Waited'
    BY <2>1 DEF CooldownInv, Latest, Waited, InProgress, Automatic, CoolingDown
  <2>3. ASSUME NEW c \in Commits
        PROVE  Remembered(c)'
    <3>1. Fruitless(c, now)' = Fruitless(c, now)
      BY <2>1 DEF Fruitless, Ran
    <3> QED
      BY <2>1, <3>1 DEF CooldownInv, Remembered
  <2> QED
    BY <2>2, <2>3 DEF CooldownInv
<1> QED
  BY <1>1, <1>2, <1>3, <1>4, <1>5, <1>6 DEF Next

\* An automatic execution starts no sooner after the previous one of its commit
\* than the delay for as many executions as have ended without a review.
THEOREM CooldownRespected == Spec => CooldownHonoured
<1>1. ASSUME SpendingInv, CooldownInv, Next
      PROVE  \A n \in DOMAIN runs :
                 /\ Automatic(n) /\ runs[n].pc = "reserve" /\ runs'[n].pc = "execute"
                 => InTime(n)
  <2> SUFFICES ASSUME NEW n \in DOMAIN runs, Automatic(n), runs[n].pc = "reserve"
               PROVE  InTime(n)
    OBVIOUS
  <2> DEFINE c == runs[n].commit
             earlier == Fruitless(c, now)
             row == cooldown[c]
  <2>1. /\ TypeOK /\ runs[n].start = now /\ now \in Int /\ c \in Commits
        /\ row.count \in 0 .. MaxRuns /\ row.last \in Int
    BY <1>1, Typed, RunFields, Numbers DEF CooldownRows, Clock, BeforeAgents
  <2>2. ~ (now < row.last + RetryDelay(row.count))
    BY <1>1 DEF CooldownInv, Waited, CoolingDown
  <2>3. Cardinality(earlier) <= row.count /\ \A m \in earlier : runs[m].start <= row.last
    BY <1>1, <2>1 DEF CooldownInv, Remembered
  <2>4. Cardinality(earlier) \in Nat
    <3>1. earlier \in SUBSET DOMAIN runs
      BY DEF Fruitless, Ran
    <3> QED
      BY <2>1, <3>1, RunNumbers, FewerElements
  <2>5. \A m \in earlier : runs[m].start \in Int
    BY <2>1, RunFields DEF Fruitless, Ran
  <2> HIDE DEF earlier, row
  <2>6. row.count \in 0 .. MaxRuns /\ Cardinality(earlier) \in 0 .. row.count
    BY <2>1, <2>3, <2>4
  <2>7. /\ RetryDelay(Cardinality(earlier)) \in Nat /\ RetryDelay(row.count) \in Nat
        /\ RetryDelay(Cardinality(earlier)) <= RetryDelay(row.count)
    BY <2>6, DelayGrows
  <2>8. \A m \in earlier : now >= runs[m].start + RetryDelay(Cardinality(earlier))
    BY <2>1, <2>2, <2>3, <2>5, <2>7
  <2> QED
    BY <2>1, <2>8 DEF InTime, earlier
<1>2. ASSUME SpendingInv, CooldownInv, [Next]_vars
      PROVE  [\A n \in DOMAIN runs :
                 /\ Automatic(n) /\ runs[n].pc = "reserve" /\ runs'[n].pc = "execute"
                 => InTime(n)]_vars
  BY <1>1, <1>2
<1>3. SpendingInv /\ CooldownInv /\ [Next]_vars => SpendingInv' /\ CooldownInv'
  BY NextSpending, NextCooldown
<1>4. Init => SpendingInv /\ CooldownInv
  BY InitSpending, InitCooldown
<1> QED
  BY <1>2, <1>3, <1>4, PTL DEF Spec, CooldownHonoured
=============================================================================
