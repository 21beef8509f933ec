------------------------ MODULE MergeTrackingProofs ------------------------
(***************************************************************************)
(* Proofs about one pull request on its way to being merged, for every set *)
(* of dry runs and configurations and every bound: its type invariant, and *)
(* that a direct merge lands the commit that was decided about.            *)
(***************************************************************************)
EXTENDS MergeTracking, TLAPS

\* What evaluation e can be: only the loop's goes on to act, for the action it
\* decided, and a merge that was checked again is asked for the commit it was
\* decided for.
Fits(e, r) ==
    /\ r \in Runs
    /\ e # Tick => r.pc \in Evaluating \cup {"idle"}
    /\ r.pc \in {"claim", "claimed"} => r.action \in Mutating
    /\ r.pc \in {"ready", "disarmed"} => r.expected = r.st.head

AllFit(runs) ==
    /\ runs = [e \in Evaluators |-> runs[e]]
    /\ \A e \in Evaluators : Fits(e, runs[e])

\* The inductive invariant.
Inv == TypeOK /\ AllFit(run)

-----------------------------------------------------------------------------
(* Typing of the statements of the store and of the decision.              *)

\* The bounds and the strings are of their sets.
LEMMA Bounds ==
    ASSUME TypeOK
    PROVE  /\ cfg.commits \in Nat \ {0} /\ MaxAttempts \in Nat \ {0}
           /\ MaxWaits \in Nat \ {0} /\ MaxSkips \in Nat
           /\ 0 \in 0 .. cfg.commits /\ 0 \in 0 .. MaxWaits + 1 /\ 0 \in 0 .. MaxSkips
           /\ [k \in Kinds |-> 0] \in [Kinds -> 0 .. MaxAttempts + 1]
<1>1. /\ cfg.commits \in Nat \ {0} /\ MaxAttempts \in Nat \ {0}
      /\ MaxWaits \in Nat \ {0} /\ MaxSkips \in Nat
  BY MergeAssumption DEF TypeOK
<1>2. /\ 0 \in 0 .. cfg.commits /\ 0 \in 0 .. MaxWaits + 1 /\ 0 \in 0 .. MaxSkips
      /\ 0 \in 0 .. MaxAttempts + 1
  BY <1>1
<1> QED
  BY <1>1, <1>2

\* So are the values everything starts from.
LEMMA Values ==
    ASSUME TypeOK
    PROVE  Absent \in Rows /\ Fresh \in Rows /\ Idle \in Runs
<1>1. Absent \in Rows
  BY Bounds DEF Absent, Rows, Phases, Prints
<1>2. Fresh \in Rows
  BY <1>1 DEF Fresh, Rows, Phases
<1>3. Idle \in Runs
  BY Bounds DEF Idle, None, Runs, Prints, Decisions, Phases
<1> QED
  BY <1>1, <1>2, <1>3

\* The head and the status of a snapshot are of those the configuration names.
LEMMA SnapshotFields ==
    ASSUME TypeOK, NEW s \in Snapshots
    PROVE  /\ s.head \in 1 .. cfg.commits /\ s.head \in 0 .. cfg.commits
           /\ s.state \in {"open", "closed", "merged"}
           /\ s.status \in Statuses /\ s.auto \in BOOLEAN
BY Bounds DEF Snapshots, TypeOK

\* Each statement of the store leaves a row of the table.
LEMMA Statements ==
    ASSUME TypeOK, NEW r \in Rows
    PROVE  /\ Ensured(r) \in Rows
           /\ \A h \in 0 .. cfg.commits : ResetForNewHead(r, h) \in Rows
           /\ \A h \in 0 .. cfg.commits : ArmNative(r, h) \in Rows
           /\ ClearNative(r) \in Rows
           /\ \A p \in Phases, c \in BOOLEAN : Release(r, p, c) \in Rows
           /\ UpdatePending(r) \in Rows
           /\ \A p \in Phases, h \in 0 .. cfg.commits, c \in BOOLEAN : \A a :
                RecordDecision(r, p, h, c, a) \in Rows
           /\ \A k : Bump(r, k) \in Rows
           /\ \A p \in Phases : MarkTerminal(r, p) \in Rows
           /\ \A s \in Rows : Update(r, s) \in Rows
           /\ AgedRow \in Rows
<1>0. /\ r.phase \in Phases /\ r.head \in 0 .. cfg.commits /\ r.armed \in 0 .. cfg.commits
      /\ r.cooling \in BOOLEAN /\ r.attempts \in [Kinds -> 0 .. MaxAttempts + 1]
      /\ r.print \in Prints
  BY DEF Rows
<1>p. {"idle", "update_pending", "auto_merge_armed"} \subseteq Phases
  BY DEF Phases
<1> USE <1>0, <1>p, Bounds DEF Rows
<1>1. Ensured(r) \in Rows
  BY Values DEF Ensured
<1>2. \A h \in 0 .. cfg.commits : ResetForNewHead(r, h) \in Rows
  <2> TAKE h \in 0 .. cfg.commits
  <2> DEFINE a == IF r.armed = h THEN r.armed ELSE 0
             p == IF \/ r.phase = "auto_merge_armed" /\ r.armed = h
                     \/ r.phase \in Terminal \cup InFlight
                  THEN r.phase ELSE "idle"
  <2>1. a \in 0 .. cfg.commits /\ p \in Phases
    OBVIOUS
  <2>2. ResetForNewHead(r, h) =
          [r EXCEPT !.head = h, !.waits = 0, !.attempts = [k \in Kinds |-> 0],
                    !.cooling = FALSE, !.armed = a, !.phase = p]
    BY Zenon DEF ResetForNewHead
  <2> HIDE DEF a, p
  <2> QED
    BY <2>1, <2>2
<1>3. \A h \in 0 .. cfg.commits : ArmNative(r, h) \in Rows
  BY DEF ArmNative
<1>4. ClearNative(r) \in Rows
  BY DEF ClearNative
<1>5. \A p \in Phases, c \in BOOLEAN : Release(r, p, c) \in Rows
  BY DEF Release
<1>6. UpdatePending(r) \in Rows
  BY DEF UpdatePending
<1>7. \A p \in Phases, h \in 0 .. cfg.commits, c \in BOOLEAN : \A a :
        RecordDecision(r, p, h, c, a) \in Rows
  <2> TAKE p \in Phases, h \in 0 .. cfg.commits, c \in BOOLEAN
  <2> TAKE a
  <2> DEFINE q == IF r.phase \in InFlight THEN r.phase ELSE p
             d == IF a = "none" THEN "none" ELSE "other"
             t == IF r.phase \in InFlight THEN r.cooling ELSE c
  <2>1. q \in Phases /\ d \in {"nothing", "none", "other"} /\ t \in BOOLEAN
    OBVIOUS
  <2>2. RecordDecision(r, p, h, c, a) =
          [r EXCEPT !.phase = q, !.head = h, !.decided = d, !.skips = 0, !.cooling = t]
    BY Zenon DEF RecordDecision
  <2> HIDE DEF q, d, t
  <2> QED
    BY <2>1, <2>2
<1>8. \A k : Bump(r, k) \in Rows
  <2> TAKE k
  <2> DEFINE f == [j \in Kinds |-> IF j = k /\ r.attempts[j] <= MaxAttempts
                                   THEN r.attempts[j] + 1 ELSE r.attempts[j]]
  <2>1. f \in [Kinds -> 0 .. MaxAttempts + 1]
    OBVIOUS
  <2>2. Bump(r, k) = [r EXCEPT !.attempts = f, !.cooling = TRUE]
    BY Zenon DEF Bump
  <2> HIDE DEF f
  <2> QED
    BY <2>1, <2>2
<1>9. \A p \in Phases : MarkTerminal(r, p) \in Rows
  BY DEF MarkTerminal
<1>10. \A s \in Rows : Update(r, s) \in Rows
  BY DEF Update
<1>11. AgedRow \in Rows
  BY DEF AgedRow, TypeOK, Aged, Update, Prints
<1> QED
  BY <1>1, <1>2, <1>3, <1>4, <1>5, <1>6, <1>7, <1>8, <1>9, <1>10, <1>11

\* The decision is one of the actions.
LEMMA OneDecision ==
    ASSUME NEW s, NEW r, NEW just, NEW dry
    PROVE  Decide(s, r, just, dry) \in Decisions
<1>1. \A a : Attempt(a, r) \in {a, "none"}
  BY DEF Attempt
<1>2. WhenReady(s, r, just) \in Decisions
  BY DEF WhenReady, ArmOrRest, Decisions, Mutating
<1>3. ArmOrRest(s) \in Decisions
  BY DEF ArmOrRest, Decisions, Mutating
<1> QED
  BY <1>1, <1>2, <1>3 DEF Decide, Decisions, Mutating

-----------------------------------------------------------------------------
(* The evaluations: what a step makes of them.                             *)

\* A state is as it should be when its parts are.
LEMMA Parts ==
    ASSUME Inv, cfg' = cfg, github' \in Snapshots, updating' \in BOOLEAN,
           row' \in Rows, AllFit(run'), up' \in BOOLEAN,
           changes' \in 0 .. MaxChanges, faults' \in 0 .. MaxFaults
    PROVE  Inv'
<1>1. Snapshots' = Snapshots /\ Rows' = Rows /\ Runs' = Runs
  BY DEF Snapshots, Rows, Runs
<1>2. run' \in [Evaluators -> Runs]
  BY DEF AllFit, Fits
<1>3. AllFit(run)'
  BY <1>1 DEF AllFit, Fits
<1> QED
  BY <1>1, <1>2, <1>3 DEF Inv, TypeOK, AllFit, Fits

\* One evaluation changes,
LEMMA OneRun ==
    ASSUME Inv, NEW e \in Evaluators, NEW r, Fits(e, r), run' = [run EXCEPT ![e] = r]
    PROVE  AllFit(run')
BY DEF Inv, TypeOK, AllFit

\* goes on to a later place,
LEMMA Going ==
    ASSUME Inv, NEW e \in Evaluators, NEW pc, Go(e, pc),
           \/ pc \in Evaluating
           \/ /\ run[e].pc \notin Evaluating \cup {"idle"}
              /\ pc \in (Acting \cup {"arm", "armed"}) \ {"ready", "disarmed"}
           \/ pc = "disarmed" /\ run[e].pc = "ready"
           \/ pc \in {"claim", "claimed"} /\ e = Tick /\ run[e].action \in Mutating
    PROVE  AllFit(run')
<1> DEFINE r == [run[e] EXCEPT !.pc = pc]
<1>1. run[e] \in Runs /\ Fits(e, run[e])
  BY DEF Inv, TypeOK, AllFit
<1>2. /\ r \in Runs /\ r.pc = pc /\ r.expected = run[e].expected /\ r.st = run[e].st
      /\ r.action = run[e].action
  BY <1>1 DEF Runs, Evaluating, Acting
<1> HIDE DEF r
<1>3. Fits(e, r)
  BY <1>1, <1>2 DEF Fits, Evaluating, Acting
<1>4. run' = [run EXCEPT ![e] = r]
  BY Zenon DEF Go, r
<1> QED
  BY <1>3, <1>4, OneRun

\* or ends.
LEMMA Ending ==
    ASSUME Inv, NEW e \in Evaluators, NEW r \in Rows, NEW rested, Ends(e, r, rested)
    PROVE  /\ row' \in Rows
           /\ AllFit(run')
<1>1. Fits(e, Idle)
  BY Values DEF Fits, Inv, Idle
<1>2. run' = [run EXCEPT ![e] = Idle]
  BY DEF Ends
<1>3. row' \in Rows
  <2>1. run[e].print \in Prints
    BY DEF Inv, TypeOK, Runs
  <2>2. \A p \in Prints : [r EXCEPT !.print = p] \in Rows
    BY DEF Rows
  <2>3. (IF rested THEN run[e].print ELSE "none") \in Prints
    BY <2>1 DEF Prints
  <2> QED
    BY <2>2, <2>3, Zenon DEF Ends, Update
<1> QED
  BY <1>1, <1>2, <1>3, OneRun

\* A row is armed: the passes under way see that, and one goes on.
LEMMA Seeing ==
    ASSUME Inv, NEW e \in Evaluators, NEW r, Fits(e, r),
           run' = SeeArmed(e, [run EXCEPT ![e] = r])
    PROVE  AllFit(run')
<1>1. ASSUME NEW f \in Evaluators
      PROVE  Fits(f, [run[f] EXCEPT !.justArmed = TRUE]) /\ Fits(f, run[f])
  <2> DEFINE s == [run[f] EXCEPT !.justArmed = TRUE]
  <2>1. Fits(f, run[f]) /\ run[f] \in Runs
    BY DEF Inv, AllFit, Fits
  <2>2. s \in Runs
    BY <2>1 DEF Runs
  <2>3. s.pc = run[f].pc /\ s.action = run[f].action /\ s.expected = run[f].expected
        /\ s.st = run[f].st
    BY <2>1 DEF Runs
  <2> HIDE DEF s
  <2>4. Fits(f, s)
    BY <2>1, <2>2, <2>3 DEF Fits
  <2> QED
    BY <2>1, <2>4 DEF s
<1> DEFINE runs == [run EXCEPT ![e] = r]
<1>2. /\ runs[e] = r
      /\ \A f \in Evaluators : f # e => runs[f] = run[f]
  BY DEF Inv, TypeOK
<1>3. run' = SeeArmed(e, runs)
  OBVIOUS
<1> HIDE DEF runs
<1>4. ASSUME NEW f \in Evaluators
      PROVE  Fits(f, run'[f])
  <2>1. CASE f = e
    BY <1>2, <1>3, <2>1 DEF SeeArmed
  <2>2. CASE f # e
    <3>1. run'[f] \in {[run[f] EXCEPT !.justArmed = TRUE], run[f]}
      BY <1>2, <1>3, <2>2 DEF SeeArmed
    <3> QED
      BY <1>1, <3>1
  <2> QED
    BY <2>1, <2>2
<1> QED
  BY <1>3, <1>4 DEF SeeArmed, AllFit

\* GitHub's changes age the fingerprints, and leave the rest.
LEMMA Moving ==
    ASSUME Inv, NEW g, Moves(g)
    PROVE  /\ github' = g /\ row' \in Rows
           /\ AllFit(run') /\ \A f \in Evaluators : run'[f].pc = run[f].pc
<1>1. \A p \in Prints : Aged(p) \in Prints
  BY DEF Aged, Prints
<1>2. ASSUME NEW f \in Evaluators
      PROVE  Fits(f, run'[f]) /\ run'[f].pc = run[f].pc
  <2>1. run'[f] = [run[f] EXCEPT !.print = Aged(@)]
    BY DEF Moves
  <2>2. Fits(f, run[f]) /\ run[f] \in Runs
    BY DEF Inv, TypeOK, AllFit
  <2>3. Aged(run[f].print) \in Prints
    BY <1>1, <2>2 DEF Runs
  <2> QED
    BY <2>1, <2>2, <2>3 DEF Fits, Runs
<1>3. github' = g /\ row' \in Rows
  BY Statements DEF Moves, Inv, TypeOK
<1>4. AllFit(run')
  BY <1>2 DEF Moves, AllFit
<1> QED
  BY <1>2, <1>3, <1>4

\* Counting a change or a fault keeps the count within its bound.
LEMMA Counts ==
    ASSUME Inv
    PROVE  /\ Change => changes' \in 0 .. MaxChanges
           /\ Fault => faults' \in 0 .. MaxFaults
           /\ \A failed : MaybeFault(failed) => faults' \in 0 .. MaxFaults
BY MergeAssumption DEF Inv, TypeOK, Change, Fault, MaybeFault

-----------------------------------------------------------------------------
(* The steps of an evaluation.                                             *)

\* Load
LEMMA LoadInv ==
    ASSUME Inv, NEW e \in Evaluators, Load(e)
    PROVE  Inv'
<1> DEFINE r == IF row.phase = "absent" THEN Idle
                ELSE [Idle EXCEPT !.pc = "loaded", !.print = run[e].print,
                                  !.justArmed = run[e].justArmed,
                                  !.head = row.head, !.armed = row.armed]
<1>1. Idle \in Runs /\ run[e] \in Runs /\ row \in Rows
  BY Values DEF Inv, TypeOK
<1>2. r \in Runs /\ r.pc \in {"idle", "loaded"}
  BY <1>1 DEF Runs, Rows, Idle, Evaluating
<1>3. AllFit(run')
  <2>1. run' = [run EXCEPT ![e] = r]
    BY DEF Load
  <2> HIDE DEF r
  <2> QED
    BY <1>2, <2>1, OneRun DEF Fits, Evaluating
<1>4. changes' \in 0 .. MaxChanges
  BY Counts DEF Load, Inv, TypeOK
<1> QED
  BY <1>3, <1>4, Parts, Zenon DEF Load, Inv, TypeOK

\* Fetch
LEMMA FetchInv ==
    ASSUME Inv, NEW e \in Evaluators, Fetch(e)
    PROVE  Inv'
<1>1. TypeOK /\ row \in Rows /\ github \in Snapshots /\ run[e] \in Runs
  BY DEF Inv, TypeOK
<1>2. row' \in Rows /\ AllFit(run') /\ faults' \in 0 .. MaxFaults
  <2>1. CASE UNCHANGED <<row, faults>> /\ run' = [run EXCEPT ![e].pc = "fetched", ![e].st = github]
    <3> DEFINE r == [run[e] EXCEPT !.pc = "fetched", !.st = github]
    <3>1. r \in Runs /\ r.pc = "fetched"
      <4>1. github \in [head : 0 .. cfg.commits, state : {"none", "open", "closed", "merged"},
                         status : Statuses \cup {"none"}, auto : BOOLEAN]
        BY <1>1, Bounds DEF Snapshots
      <4> QED
        BY <1>1, <4>1 DEF Runs, Evaluating
    <3>2. run' = [run EXCEPT ![e] = r]
      BY <2>1, Zenon
    <3> HIDE DEF r
    <3>3. AllFit(run')
      BY <3>1, <3>2, OneRun DEF Fits, Evaluating
    <3> QED
      BY <1>1, <2>1, <3>3 DEF Inv, TypeOK
  <2>2. CASE Fault /\ Ends(e, row, FALSE)
    BY <1>1, <2>2, Ending, Counts
  <2>3. CASE Fault /\ Ends(e, Update(row, MarkTerminal(row, "abandoned")), TRUE)
    <3>1. Update(row, MarkTerminal(row, "abandoned")) \in Rows
      BY <1>1, Statements DEF Phases, Terminal
    <3> QED
      BY <2>3, <3>1, Ending, Counts
  <2> QED
    BY <2>1, <2>2, <2>3 DEF Fetch
<1> QED
  BY <1>1, <1>2, Parts, Zenon DEF Fetch, Inv, TypeOK

\* Claim and Admit
LEMMA ClaimInv ==
    ASSUME Inv, NEW e \in Evaluators, Claim(e) \/ Admit(e)
    PROVE  Inv'
<1>1. TypeOK /\ row \in Rows /\ run[e] \in Runs /\ run[e].pc \in {"claim", "claimed"}
      /\ run[e].action \in Mutating /\ e = Tick
  BY DEF Inv, TypeOK, Claim, Admit, Evaluating
<1>2. [row EXCEPT !.phase = PhaseFor(run[e].action)] \in Rows
  <2>1. PhaseFor(run[e].action) \in Phases
    BY <1>1 DEF PhaseFor, Mutating, Phases, InFlight
  <2> QED
    BY <1>1, <2>1 DEF Rows
<1>3. row' \in Rows /\ AllFit(run') /\ faults' \in 0 .. MaxFaults
  <2>1. CASE Ends(e, row, TRUE) /\ UNCHANGED faults
    BY <1>1, <2>1, Ending DEF Inv, TypeOK
  <2>2. CASE /\ row' = [row EXCEPT !.phase = PhaseFor(run[e].action)]
             /\ Go(e, "claimed") /\ UNCHANGED faults
    BY <1>1, <1>2, <2>2, Going DEF Inv, TypeOK
  <2>3. CASE Go(e, run[e].action) /\ UNCHANGED <<row, faults>>
    <3>1. run[e].action \in (Acting \cup {"arm", "armed"}) \ {"ready", "disarmed"}
      BY <1>1 DEF Mutating, Acting
    <3>2. run[e].pc \notin Evaluating \cup {"idle"}
      BY <1>1 DEF Evaluating
    <3>3. AllFit(run')
      BY <2>3, <3>1, <3>2, Going
    <3> QED
      BY <1>1, <2>3, <3>3 DEF Inv, TypeOK
  <2>4. CASE Fault /\ Ends(e, Update(row, Release(row, "idle", FALSE)), TRUE)
    <3>1. Update(row, Release(row, "idle", FALSE)) \in Rows
      BY <1>1, Statements DEF Phases
    <3> QED
      BY <2>4, <3>1, Ending, Counts
  <2> QED
    BY <2>1, <2>2, <2>3, <2>4 DEF Claim, Admit
<1> QED
  BY <1>1, <1>3, Parts, Zenon DEF Claim, Admit, Inv, TypeOK

\* Arm
LEMMA ArmInv ==
    ASSUME Inv, NEW e \in Evaluators, Arm(e)
    PROVE  Inv'
<1>1. TypeOK /\ row \in Rows /\ run[e] \in Runs /\ run[e].pc = "arm" /\ github \in Snapshots
      /\ faults \in 0 .. MaxFaults
  BY DEF Inv, TypeOK, Arm
<1>2. AgedRow \in Rows /\ Update(row, Release(row, "blocked", TRUE)) \in Rows
  BY <1>1, Statements DEF Phases
<1>3. [github EXCEPT !.auto = TRUE] \in Snapshots /\ [row EXCEPT !.phase = "merging"] \in Rows
  BY <1>1 DEF Snapshots, Rows, Phases, InFlight
<1>4. Go(e, "armed") \/ Go(e, "failed") => AllFit(run')
  BY <1>1, Going DEF Evaluating, Acting
<1>5. github' \in Snapshots /\ row' \in Rows /\ AllFit(run') /\ faults' \in 0 .. MaxFaults
  <2>1. CASE /\ github' = [github EXCEPT !.auto = TRUE] /\ row' = AgedRow
             /\ Go(e, "armed") /\ UNCHANGED faults
    BY <1>1, <1>2, <1>3, <1>4, <2>1
  <2>2. CASE Blocked(e) /\ UNCHANGED <<github, faults>>
    BY <1>1, <1>2, <2>2, Ending DEF Blocked
  <2>3. CASE /\ row' = [row EXCEPT !.phase = "merging"]
             /\ run' = [run EXCEPT ![e].pc = "merge", ![e].action = "merge"]
             /\ UNCHANGED <<github, faults>>
    <3> DEFINE r == [run[e] EXCEPT !.pc = "merge", !.action = "merge"]
    <3>1. r \in Runs /\ r.pc = "merge"
      BY <1>1 DEF Runs, Mutating, Decisions, Acting
    <3>2. e = Tick
      BY <1>1 DEF Inv, TypeOK, Evaluating
    <3>3. run' = [run EXCEPT ![e] = r]
      BY <2>3, Zenon
    <3> HIDE DEF r
    <3>4. AllFit(run')
      BY <3>1, <3>2, <3>3, OneRun DEF Fits
    <3> QED
      BY <1>1, <1>3, <2>3, <3>4
  <2>4. CASE Ends(e, row, FALSE) /\ UNCHANGED <<github, faults>>
    BY <1>1, <2>4, Ending
  <2>5. CASE Go(e, "armed") /\ UNCHANGED <<github, row, faults>>
    BY <1>1, <1>4, <2>5
  <2>6. CASE MaybeFault(AtHead(e)) /\ Go(e, "failed") /\ UNCHANGED <<github, row>>
    BY <1>1, <1>4, <2>6, Counts
  <2> QED
    BY <2>1, <2>2, <2>3, <2>4, <2>5, <2>6, Zenon DEF Arm
<1> QED
  BY <1>1, <1>5, Parts, Zenon DEF Arm, Inv, TypeOK

\* SyncHead and SyncAutoMerge
LEMMA SyncInv ==
    ASSUME Inv, NEW e \in Evaluators, SyncHead(e) \/ SyncAutoMerge(e)
    PROVE  Inv'
<1>1. TypeOK /\ row \in Rows /\ run[e] \in Runs /\ run[e].st.head \in 0 .. cfg.commits
      /\ Fits(e, run[e])
  BY DEF Inv, TypeOK, Runs, AllFit
<1>2. /\ Update(row, ResetForNewHead(row, run[e].st.head)) \in Rows
      /\ Update(row, ClearNative(row)) \in Rows
      /\ Update(row, ArmNative(row, run[e].st.head)) \in Rows
  BY <1>1, Statements
<1>3. AllFit(run')
  <2>1. CASE Go(e, "reset") \/ Go(e, "synced")
    BY <2>1, Going DEF Evaluating
  <2>2. ASSUME NEW sameSecond \in BOOLEAN,
               run' = SeeArmed(e, [run EXCEPT ![e].pc = "synced",
                                              ![e].justArmed = @ \/ ~sameSecond])
        PROVE  AllFit(run')
    <3> DEFINE just == run[e].justArmed \/ ~sameSecond
               r == [run[e] EXCEPT !.pc = "synced", !.justArmed = just]
    <3>1. just \in BOOLEAN
      BY Zenon
    <3>2. run' = SeeArmed(e, [run EXCEPT ![e] = r])
      BY <2>2, Zenon
    <3>3. Fits(e, r)
      <4> HIDE DEF just
      <4> QED
        BY <1>1, <3>1 DEF Fits, Runs, Evaluating
    <3> HIDE DEF r
    <3> QED
      BY <3>2, <3>3, Seeing
  <2> QED
    BY <2>1, <2>2, Zenon DEF SyncHead, SyncAutoMerge
<1>4. row' \in Rows
  BY <1>2, Zenon DEF SyncHead, SyncAutoMerge
<1> QED
  BY <1>3, <1>4, Parts, Zenon DEF SyncHead, SyncAutoMerge, Inv, TypeOK

\* Consider
LEMMA ConsiderInv ==
    ASSUME Inv, NEW e \in Evaluators, Consider(e)
    PROVE  Inv'
<1> DEFINE st == run[e].st
           action == Decide(st, row, run[e].justArmed, e # Tick)
           acts == action \in Mutating
           head == [None EXCEPT !.head = st.head]
           phase == IF acts THEN row.phase ELSE RestPhase(action, st, row)
           cools == acts => row.cooling
           waited == row.waits > 0
           decided == [Idle EXCEPT !.pc = "decided", !.print = run[e].print,
                         !.st = head, !.action = action, !.phase = phase,
                         !.cools = cools, !.waited = waited]
           next == IF row.phase = "absent" THEN Idle ELSE decided
<1>1. TypeOK /\ row \in Rows /\ run[e] \in Runs /\ Idle \in Runs
  BY Values DEF Inv, TypeOK
<1>2. st.head \in 0 .. cfg.commits /\ run[e].print \in Prints
  BY <1>1 DEF Runs
<1>3. phase \in Phases
  <2>1. RestPhase(action, st, row) \in Phases
    BY DEF RestPhase, Phases, Terminal
  <2> HIDE DEF action, st
  <2> QED
    BY <1>1, <2>1 DEF Rows
<1>4. action \in Decisions /\ cools \in BOOLEAN /\ waited \in BOOLEAN
  <2>1. action \in Decisions
    BY OneDecision
  <2> HIDE DEF action
  <2>2. waited \in BOOLEAN
    BY <1>1 DEF Rows
  <2>3. cools \in BOOLEAN
    BY Zenon
  <2> QED
    BY <2>1, <2>2, <2>3
<1>5. head \in [head : 0 .. cfg.commits, state : {"none", "open", "closed", "merged"},
                 status : Statuses \cup {"none"}, auto : BOOLEAN]
  <2> HIDE DEF st
  <2> QED
    BY <1>2 DEF None
<1>6. Fits(e, next)
  <2>1. decided \in Runs /\ decided.pc = "decided"
    <3> HIDE DEF st, head, phase, action, cools, waited
    <3> QED
      BY <1>1, <1>2, <1>3, <1>4, <1>5 DEF Runs, Evaluating
  <2>2. Fits(e, decided)
    <3> HIDE DEF decided
    <3> QED
      BY <2>1 DEF Fits, Evaluating
  <2>3. Fits(e, Idle)
    BY <1>1 DEF Fits, Idle
  <2> QED
    BY <2>2, <2>3
<1>7. run' = [run EXCEPT ![e] = next]
  BY Zenon DEF Consider
<1> HIDE DEF next
<1>8. AllFit(run')
  BY <1>6, <1>7, OneRun
<1> QED
  BY <1>1, <1>8, Parts, Zenon DEF Consider, Inv, TypeOK

\* Record, TrackWaits and Mark
LEMMA RecordInv ==
    ASSUME Inv, NEW e \in Evaluators, Record(e) \/ TrackWaits(e) \/ Mark(e)
    PROVE  Inv'
<1> DEFINE recorded == RecordDecision(row, run[e].phase, run[e].st.head,
                                      run[e].cools, run[e].action)
           more == IF row.waits <= MaxWaits THEN row.waits + 1 ELSE row.waits
           waited == IF run[e].action = "wait"
                     THEN [row EXCEPT !.cooling = TRUE, !.waits = more]
                     ELSE [row EXCEPT !.waits = 0]
           marked == MarkTerminal(row, IF run[e].action = "markMerged"
                                       THEN "merged" ELSE "abandoned")
<1>1. TypeOK /\ row \in Rows /\ run[e] \in Runs
  BY DEF Inv, TypeOK
<1>2. recorded \in Rows
  <2>1. /\ run[e].phase \in Phases /\ run[e].st.head \in 0 .. cfg.commits
        /\ run[e].cools \in BOOLEAN
    BY <1>1 DEF Runs
  <2> QED
    BY <1>1, <2>1, Statements
<1>3. waited \in Rows
  <2>1. more \in 0 .. MaxWaits + 1 /\ 0 \in 0 .. MaxWaits + 1
    BY <1>1, Bounds DEF Rows
  <2> HIDE DEF more
  <2> QED
    BY <1>1, <2>1 DEF Rows
<1>4. marked \in Rows
  BY <1>1, Statements DEF Phases, Terminal
<1>5. Update(row, recorded) \in Rows /\ Update(row, waited) \in Rows
      /\ Update(row, marked) \in Rows
  <2> HIDE DEF recorded, waited, marked
  <2> QED
    BY <1>1, <1>2, <1>3, <1>4, Statements
<1>6. \/ /\ row' \in {Update(row, recorded), Update(row, waited)}
         /\ Go(e, "waits") \/ Go(e, "mark") \/ (Acts(e) /\ Go(e, "claim"))
      \/ \E r \in {Update(row, recorded), Update(row, waited), Update(row, marked)} :
            Ends(e, r, TRUE)
  <2>1. CASE Record(e)
    <3> HIDE DEF waited, marked
    <3> QED
      BY <2>1, Zenon DEF Record
  <2>2. CASE TrackWaits(e)
    <3> HIDE DEF recorded, marked
    <3> QED
      BY <2>2, Zenon DEF TrackWaits
  <2>3. CASE Mark(e)
    <3> HIDE DEF recorded, waited
    <3> QED
      BY <2>3, Zenon DEF Mark
  <2> QED
    BY <2>1, <2>2, <2>3
<1> HIDE DEF recorded, waited, marked
<1>7. row' \in Rows /\ AllFit(run')
  <2>1. CASE Go(e, "waits") \/ Go(e, "mark")
    <3>1. AllFit(run')
      BY <2>1, Going DEF Evaluating
    <3> QED
      BY <1>5, <1>6, <3>1, Ending
  <2>2. CASE Acts(e) /\ Go(e, "claim")
    <3>1. AllFit(run')
      BY <2>2, Going DEF Acts
    <3> QED
      BY <1>5, <1>6, <3>1, Ending
  <2>3. CASE \E r \in Rows : Ends(e, r, TRUE)
    BY <2>3, Ending
  <2> QED
    BY <1>5, <1>6, <2>1, <2>2, <2>3
<1> QED
  BY <1>7, Parts, Zenon DEF Record, TrackWaits, Mark, Inv, TypeOK

\* Revalidate
LEMMA RevalidateInv ==
    ASSUME Inv, NEW e \in Evaluators, Revalidate(e)
    PROVE  Inv'
<1>1. TypeOK /\ row \in Rows /\ run[e] \in Runs /\ run[e].pc = "merge" /\ github \in Snapshots
      /\ faults \in 0 .. MaxFaults
  BY DEF Inv, TypeOK, Revalidate
<1>2. row' \in Rows /\ AllFit(run') /\ faults' \in 0 .. MaxFaults
  <2>1. CASE Go(e, "merged") /\ UNCHANGED <<row, faults>>
    BY <1>1, <2>1, Going DEF Evaluating, Acting
  <2>2. CASE Blocked(e) /\ UNCHANGED faults
    <3>1. Update(row, Release(row, "blocked", TRUE)) \in Rows
      BY <1>1, Statements DEF Phases
    <3> QED
      BY <1>1, <2>2, <3>1, Ending DEF Blocked
  <2>3. CASE /\ SameCommit(e) /\ UNCHANGED <<row, faults>>
             /\ run' = [run EXCEPT ![e].pc = "ready", ![e].expected = github.head]
    <3> DEFINE r == [run[e] EXCEPT !.pc = "ready", !.expected = github.head]
    <3>1. github.head \in 0 .. cfg.commits
      BY <1>1, SnapshotFields
    <3>2. r \in Runs /\ r.pc = "ready" /\ r.expected = github.head /\ r.st = run[e].st
      BY <1>1, <3>1 DEF Runs, Acting
    <3>3. e = Tick
      BY <1>1 DEF Inv, TypeOK, Evaluating
    <3>4. run' = [run EXCEPT ![e] = r]
      BY <2>3, Zenon
    <3> HIDE DEF r
    <3>5. AllFit(run')
      BY <2>3, <3>2, <3>3, <3>4, OneRun DEF Fits, SameCommit
    <3> QED
      BY <1>1, <2>3, <3>5
  <2>4. CASE Fault /\ Go(e, "failed") /\ UNCHANGED row
    BY <1>1, <2>4, Going, Counts DEF Evaluating, Acting
  <2> QED
    BY <2>1, <2>2, <2>3, <2>4, Zenon DEF Revalidate
<1> QED
  BY <1>1, <1>2, Parts, Zenon DEF Revalidate, Inv, TypeOK

\* DisableAutoMerge and Merge
LEMMA MergeInv ==
    ASSUME Inv, NEW e \in Evaluators, DisableAutoMerge(e) \/ Merge(e)
    PROVE  Inv'
<1>1. TypeOK /\ row \in Rows /\ run[e] \in Runs /\ github \in Snapshots
      /\ faults \in 0 .. MaxFaults /\ run[e].pc \in {"ready", "disarmed"}
  BY DEF Inv, TypeOK, DisableAutoMerge, Merge
<1>2. /\ [github EXCEPT !.auto = FALSE] \in Snapshots
      /\ [github EXCEPT !.state = "merged"] \in Snapshots
  BY <1>1 DEF Snapshots
<1>3. AgedRow \in Rows /\ Update(row, Release(row, "blocked", TRUE)) \in Rows
  BY <1>1, Statements DEF Phases
<1>4. faults' \in 0 .. MaxFaults
  BY <1>1, Counts DEF DisableAutoMerge, Merge, Blocked
<1>5. CASE DisableAutoMerge(e)
  <2>1. github' \in Snapshots /\ row' \in Rows
    BY <1>1, <1>2, <1>3, <1>5 DEF DisableAutoMerge
  <2>2. AllFit(run')
    BY <1>1, <1>5, Going DEF DisableAutoMerge
  <2> QED
    BY <1>4, <1>5, <2>1, <2>2, Parts, Zenon DEF DisableAutoMerge, Inv, TypeOK
<1>6. CASE Merge(e)
  <2>1. github' \in Snapshots /\ row' \in Rows /\ AllFit(run')
    <3>1. CASE Blocked(e) /\ UNCHANGED github
      BY <1>1, <1>3, <3>1, Ending DEF Blocked
    <3>2. CASE Go(e, "merged") \/ Go(e, "failed")
      <4>1. AllFit(run')
        BY <1>1, <3>2, Going DEF Evaluating, Acting
      <4>2. CASE github' = [github EXCEPT !.state = "merged"] /\ row' = AgedRow
        BY <1>2, <1>3, <4>1, <4>2
      <4>3. CASE UNCHANGED <<github, row>>
        BY <1>1, <4>1, <4>3
      <4>4. CASE Blocked(e) /\ UNCHANGED github
        BY <3>1, <4>4
      <4> QED
        BY <1>6, <4>2, <4>3, <4>4, Zenon DEF Merge
    <3> QED
      BY <1>6, <3>1, <3>2, Zenon DEF Merge
  <2> QED
    BY <1>4, <1>6, <2>1, Parts, Zenon DEF Merge, Inv, TypeOK
<1> QED
  BY <1>5, <1>6

\* Armed
LEMMA ArmedInv ==
    ASSUME Inv, NEW e \in Evaluators, Armed(e)
    PROVE  Inv'
<1>1. TypeOK /\ row \in Rows /\ run[e] \in Runs /\ Idle \in Runs
  BY Values DEF Inv, TypeOK
<1>2. row' \in Rows
  <2>1. ArmNative(row, run[e].st.head) \in Rows
    BY <1>1, Statements DEF Runs
  <2>2. [ArmNative(row, run[e].st.head) EXCEPT !.print = "none"] \in Rows
    BY <2>1 DEF Rows, Prints
  <2> QED
    BY <1>1, <2>2, Statements DEF Armed
<1>3. AllFit(run')
  <2>1. Fits(e, Idle)
    BY <1>1 DEF Fits, Idle
  <2> QED
    BY <2>1, Seeing DEF Armed
<1> QED
  BY <1>2, <1>3, Parts, Zenon DEF Armed, Inv, TypeOK

\* The steps that end the evaluation and write the row.
LEMMA EndingInv ==
    ASSUME Inv, NEW e \in Evaluators,
           Count(e) \/ Fail(e) \/ MarkPending(e) \/ Pushed(e) \/ MarkMerged(e)
    PROVE  Inv'
<1>1. TypeOK /\ row \in Rows
  BY DEF Inv, TypeOK
<1>2. /\ \A k : Update(row, Bump(row, k)) \in Rows
      /\ Update(row, Release(row, "blocked", TRUE)) \in Rows
      /\ Update(row, UpdatePending(row)) \in Rows
      /\ Update(row, Release(row, "idle", TRUE)) \in Rows
      /\ Update(row, MarkTerminal(row, "merged")) \in Rows
  <2>1. {"blocked", "idle", "merged"} \subseteq Phases
    BY DEF Phases, Terminal
  <2>2. \A k : Bump(row, k) \in Rows
    BY <1>1, Statements
  <2>3. \A r \in Rows, p \in Phases : Release(r, p, TRUE) \in Rows
    BY <1>1, Statements
  <2> QED
    BY <1>1, <2>1, <2>2, <2>3, Statements
<1>3. row' \in Rows /\ AllFit(run')
  <2>1. CASE Count(e)
    BY <1>2, <2>1, Going DEF Count, Evaluating, Acting
  <2> QED
    BY <1>2, <2>1, Ending DEF Fail, MarkPending, Pushed, MarkMerged
<1>4. UNCHANGED <<cfg, github, updating, up, changes, faults>>
  BY DEF Count, Fail, MarkPending, Pushed, MarkMerged
<1> QED
  BY <1>3, <1>4, Parts, Zenon DEF Inv, TypeOK

\* The steps that change the branch.
LEMMA BranchInv ==
    ASSUME Inv, NEW e \in Evaluators, UpdateBranch(e) \/ Checkout(e) \/ Push(e)
    PROVE  Inv'
<1>1. TypeOK /\ row \in Rows /\ github \in Snapshots /\ updating \in BOOLEAN
  BY DEF Inv, TypeOK
<1>2. AllFit(run')
  BY Going DEF UpdateBranch, Checkout, Push, Evaluating, Acting
<1>3. row' \in Rows /\ updating' \in BOOLEAN
  BY <1>1, Statements DEF UpdateBranch, Checkout, Push
<1>4. github' \in Snapshots
  <2>1. CASE github' = github
    BY <1>1, <2>1
  <2>2. CASE github.head < cfg.commits /\ github' = [github EXCEPT !.head = @ + 1, !.status = "pending"]
    <3>1. github.head \in 1 .. cfg.commits /\ cfg.commits \in Nat
      BY <1>1, Bounds, SnapshotFields
    <3>2. github.head + 1 \in 1 .. cfg.commits
      BY <2>2, <3>1
    <3>3. "pending" \in Statuses
      BY DEF Statuses
    <3> QED
      BY <1>1, <2>2, <3>2, <3>3 DEF Snapshots
  <2> QED
    BY <2>1, <2>2 DEF UpdateBranch, Checkout, Push
<1>5. cfg' = cfg /\ UNCHANGED <<up, changes, faults>>
  BY DEF UpdateBranch, Checkout, Push
<1> QED
  BY <1>2, <1>3, <1>4, <1>5, Parts, Zenon DEF Inv, TypeOK

-----------------------------------------------------------------------------
(* The loop's passes, time, the operator, the daemon's life and GitHub's.  *)

\* StartCycle and Skip
LEMMA CycleInv ==
    ASSUME Inv, StartCycle \/ Skip
    PROVE  Inv'
<1>1. TypeOK /\ row \in Rows /\ Idle \in Runs /\ Absent \in Rows
  BY Values DEF Inv, TypeOK
<1>2. Tick \in Evaluators
  BY DEF Evaluators
<1>3. CASE StartCycle
  <2>1. PICK old \in BOOLEAN : StartCycle!2!(old)
    BY <1>3, Zenon DEF StartCycle
  <2> DEFINE pruned == IF old /\ row.phase \in Terminal THEN Absent ELSE row
             found == IF github.state = "open" THEN Ensured(pruned) ELSE pruned
             rests == Resting(found) /\ found.print = "current"
             due == [Idle EXCEPT !.pc = "due", !.print = "current", !.resting = rests]
  <2>2. found \in Rows
    <3>1. pruned \in Rows
      BY <1>1
    <3> HIDE DEF pruned
    <3> QED
      BY <1>1, <3>1, Statements
  <2>3. Fits(Tick, due)
    <3>1. rests \in BOOLEAN
      BY Zenon DEF Resting
    <3> HIDE DEF rests
    <3> QED
      BY <1>1, <3>1 DEF Fits, Runs, Idle, Prints
  <2>4. AllFit(run')
    <3>1. run' = [run EXCEPT ![Tick] = due] \/ run' = run
      BY <2>1, Zenon
    <3> HIDE DEF due
    <3> QED
      BY <1>2, <2>3, <3>1, OneRun DEF Inv
  <2>5. row' \in Rows
    BY <2>1, <2>2, Zenon
  <2> QED
    BY <1>3, <2>4, <2>5, Parts, Zenon DEF StartCycle, Inv, TypeOK
<1>4. CASE Skip
  <2> DEFINE more == IF row.skips < MaxSkips THEN row.skips + 1 ELSE row.skips
  <2>1. more \in 0 .. MaxSkips
    BY <1>1, Bounds DEF Rows
  <2>2. row' = Update(row, [row EXCEPT !.cooling = TRUE, !.skips = more])
    BY <1>4, Zenon DEF Skip
  <2> HIDE DEF more
  <2>3. [row EXCEPT !.cooling = TRUE, !.skips = more] \in Rows
    BY <1>1, <2>1 DEF Rows
  <2>4. row' \in Rows
    BY <1>1, <2>2, <2>3, Statements
  <2>5. AllFit(run')
    <3>1. Fits(Tick, Idle)
      BY <1>1 DEF Fits, Idle
    <3> QED
      BY <1>2, <1>4, <3>1, OneRun DEF Skip
  <2> QED
    BY <1>4, <2>4, <2>5, Parts, Zenon DEF Skip, Inv, TypeOK
<1> QED
  BY <1>3, <1>4

\* CoolingEnds, Operator, Crash and Restart
LEMMA DaemonInv ==
    ASSUME Inv, CoolingEnds \/ Operator \/ Crash \/ Restart
    PROVE  Inv'
<1>1. TypeOK /\ row \in Rows /\ Idle \in Runs /\ AllFit(run)
  BY Values DEF Inv, TypeOK
<1>2. CASE CoolingEnds
  <2>1. [row EXCEPT !.cooling = FALSE] \in Rows
    BY <1>1 DEF Rows
  <2> QED
    BY <1>1, <1>2, <2>1, Parts, Zenon DEF CoolingEnds, Inv, TypeOK
<1>3. CASE Operator
  <2>1. Ensured(row) \in Rows
    BY <1>1, Statements
  <2>2. \A r \in Rows : [r EXCEPT !.cooling = FALSE, !.print = "none"] \in Rows
    BY DEF Rows, Prints
  <2>3. [row EXCEPT !.excluded = ~@] \in Rows
    <3>1. (~row.excluded) \in BOOLEAN
      BY Zenon
    <3> QED
      BY <1>1, <3>1 DEF Rows
  <2>4. row' \in Rows
    BY <1>1, <1>3, <2>1, <2>2, <2>3 DEF Operator
  <2>5. changes' \in 0 .. MaxChanges
    BY <1>3, Counts DEF Operator
  <2> QED
    BY <1>1, <1>3, <2>4, <2>5, Parts, Zenon DEF Operator, Inv, TypeOK
<1>4. CASE Crash
  <2>1. AllFit(run')
    BY <1>1, <1>4 DEF Crash, AllFit, Fits, Idle
  <2>2. faults' \in 0 .. MaxFaults
    BY <1>4, Counts DEF Crash
  <2> QED
    BY <1>1, <1>4, <2>1, <2>2, Parts, Zenon DEF Crash, Inv, TypeOK
<1>5. CASE Restart
  <2>1. [row EXCEPT !.phase = "idle", !.cooling = TRUE] \in Rows
    BY <1>1 DEF Rows, Phases
  <2> QED
    BY <1>1, <1>5, <2>1, Parts, Zenon DEF Restart, Inv, TypeOK
<1> QED
  BY <1>2, <1>3, <1>4, <1>5

\* AuthorPushes, UpdateLands, StatusMoves, AutoMergeFires and UserActs
LEMMA GitHubInv ==
    ASSUME Inv, AuthorPushes \/ UpdateLands \/ StatusMoves \/ AutoMergeFires \/ UserActs
    PROVE  Inv'
<1>1. TypeOK /\ row \in Rows /\ github \in Snapshots /\ AllFit(run)
  BY DEF Inv, TypeOK
<1>2. cfg.statuses \subseteq Statuses /\ "pending" \in Statuses
  BY MergeAssumption DEF Inv, TypeOK
<1>3. github.head < cfg.commits => github.head + 1 \in 1 .. cfg.commits
  BY <1>1, Bounds, SnapshotFields
<1>4. cfg' = cfg /\ up' = up
  BY DEF AuthorPushes, UpdateLands, StatusMoves, AutoMergeFires, UserActs
<1>5. updating' \in BOOLEAN /\ changes' \in 0 .. MaxChanges /\ faults' \in 0 .. MaxFaults
  BY Counts DEF Inv, TypeOK, AuthorPushes, UpdateLands, StatusMoves, AutoMergeFires, UserActs
<1>6. ASSUME NEW g \in Snapshots, Moves(g)
      PROVE  Inv'
  <2>1. github' = g /\ row' \in Rows /\ AllFit(run')
    BY <1>6, Moving
  <2> QED
    BY <1>4, <1>5, <2>1, Parts, Zenon DEF Inv, TypeOK
<1>7. CASE AuthorPushes
  <2>1. \A s \in Statuses : [github EXCEPT !.head = @ + 1, !.status = s] \in Snapshots
    BY <1>1, <1>3, <1>7 DEF Snapshots, AuthorPushes
  <2> QED
    BY <1>2, <1>6, <1>7, <2>1 DEF AuthorPushes
<1>8. CASE UpdateLands
  <2>1. CASE github.state = "open" /\ github.head < cfg.commits
    <3>1. [github EXCEPT !.head = @ + 1, !.status = "pending"] \in Snapshots
      BY <1>1, <1>2, <1>3, <2>1 DEF Snapshots
    <3> QED
      BY <1>6, <1>8, <2>1, <3>1 DEF UpdateLands
  <2>2. CASE UNCHANGED <<github, row, run>>
    BY <1>1, <1>4, <1>5, <2>2, Parts, Zenon DEF Inv, TypeOK
  <2> QED
    BY <1>8, <2>1, <2>2 DEF UpdateLands
<1>9. CASE StatusMoves
  <2>1. \A s \in Statuses : [github EXCEPT !.status = s] \in Snapshots
    BY <1>1 DEF Snapshots
  <2> QED
    BY <1>2, <1>6, <1>9, <2>1 DEF StatusMoves
<1>10. CASE AutoMergeFires
  <2>1. [github EXCEPT !.state = "merged"] \in Snapshots
    BY <1>1 DEF Snapshots
  <2> QED
    BY <1>6, <1>10, <2>1 DEF AutoMergeFires
<1>11. CASE UserActs
  <2>1. \A s \in {"open", "closed"} : [github EXCEPT !.state = s] \in Snapshots
    BY <1>1 DEF Snapshots
  <2>2. [github EXCEPT !.auto = ~@] \in Snapshots
    <3>1. (~github.auto) \in BOOLEAN
      BY Zenon
    <3> QED
      BY <1>1, <3>1 DEF Snapshots
  <2> QED
    BY <1>6, <1>11, <2>1, <2>2 DEF UserActs
<1> QED
  BY <1>7, <1>8, <1>9, <1>10, <1>11

-----------------------------------------------------------------------------
(* The theorems.                                                           *)

\* The invariant holds at first,
LEMMA InitInv == Init => Inv
<1> SUFFICES ASSUME Init
             PROVE  Inv
  OBVIOUS
<1>1. /\ cfg.commits \in Nat \ {0} /\ MaxAttempts \in Nat \ {0}
      /\ MaxWaits \in Nat \ {0} /\ MaxSkips \in Nat /\ MaxChanges \in Nat /\ MaxFaults \in Nat
  BY MergeAssumption DEF Init
<1>2. 0 \in 0 .. cfg.commits /\ 1 \in 1 .. cfg.commits /\ 0 \in 0 .. MaxAttempts + 1
      /\ 0 \in 0 .. MaxWaits + 1 /\ 0 \in 0 .. MaxSkips /\ 0 \in 0 .. MaxChanges
      /\ 0 \in 0 .. MaxFaults
  BY <1>1
<1>3. Idle \in Runs /\ Idle.pc = "idle"
  BY <1>2 DEF Idle, Runs, None, Prints, Decisions, Phases
<1>4. row \in Rows
  BY <1>2 DEF Init, Absent, Rows, Phases, Prints, Kinds
<1>5. github \in Snapshots
  BY <1>2 DEF Init, Snapshots, Statuses
<1>6. AllFit(run)
  BY <1>3 DEF Init, AllFit, Fits
<1>7. run \in [Evaluators -> Runs] /\ \A e \in Evaluators : run[e] = Idle
  BY <1>3 DEF Init
<1> QED
  BY <1>2, <1>3, <1>4, <1>5, <1>6, <1>7, Zenon DEF Init, Inv, TypeOK

\* and every step keeps it.
LEMMA NextInv ==
    ASSUME Inv, [Next]_vars
    PROVE  Inv'
<1>1. ASSUME NEW e \in Evaluators, Evaluation(e)
      PROVE  Inv'
  BY <1>1, LoadInv, FetchInv, SyncInv, ConsiderInv, RecordInv, ClaimInv, ArmInv,
     ArmedInv, BranchInv, EndingInv, RevalidateInv, MergeInv, Zenon DEF Evaluation
<1>2. CASE UNCHANGED vars
  BY <1>2, Parts, Zenon DEF vars, Inv, TypeOK
<1> QED
  BY <1>1, <1>2, CycleInv, DaemonInv, GitHubInv, Zenon DEF Next

\* Every state of the loop, its dry runs and the row of the table is well
\* typed, and only the loop acts.
THEOREM TypeCorrect == Spec => []TypeOK
<1>1. Inv /\ [Next]_vars => Inv'
  BY NextInv
<1>2. Inv => TypeOK
  BY DEF Inv
<1> QED
  BY <1>1, <1>2, InitInv, PTL DEF Spec

\* A direct merge lands the commit it was decided for, whatever the author, the
\* operator and the dry runs do between the decision and the request.
THEOREM DecidedCommitMerged == Spec => MergesDecidedCommit
<1> DEFINE Lands == \A e \in Evaluators :
             run[e].pc = "disarmed" /\ github.state = "open" /\ github'.state = "merged"
             /\ run'[e].pc # "disarmed"
             => github.head = run[e].st.head
<1>1. Inv /\ [Next]_vars => Inv'
  BY NextInv
<1>2. Inv /\ [Next]_vars => [Lands]_vars
  <2> SUFFICES ASSUME Inv, Next, NEW e \in Evaluators, run[e].pc = "disarmed",
                      github.state = "open", github'.state = "merged",
                      run'[e].pc # "disarmed"
               PROVE  github.head = run[e].st.head
    BY Zenon
  <2>1. ASSUME NEW f \in Evaluators, Evaluation(f)
        PROVE  Merge(f)
    <3>1. github \in Snapshots
      BY DEF Inv, TypeOK
    <3>2. github'.state # github.state
      BY Zenon
    <3>3. ~Arm(f) /\ ~Push(f) /\ ~DisableAutoMerge(f)
      BY <3>1, <3>2 DEF Arm, Push, DisableAutoMerge, Snapshots
    <3>4. github' # github
      BY <3>2
    <3> QED
      BY <2>1, <3>3, <3>4, Zenon DEF Evaluation, Load, Fetch, SyncHead, SyncAutoMerge,
         Consider, Record, TrackWaits, Mark, Claim, Admit, Count, Fail, Armed,
         UpdateBranch, MarkPending, Checkout, Pushed, Revalidate, MarkMerged
  <2>2. ASSUME NEW f \in Evaluators, Merge(f), f # e
        PROVE  FALSE
    BY <2>2 DEF Merge, Go, Blocked, Ends, Inv, TypeOK
  <2>3. ~(AuthorPushes \/ UpdateLands \/ StatusMoves \/ AutoMergeFires \/ UserActs)
    <3>1. \A g : Moves(g) => run'[e].pc = run[e].pc
      BY Moving
    <3>2. UpdateLands => github' = github
      BY <3>1 DEF UpdateLands
    <3> QED
      BY <3>1, <3>2 DEF AuthorPushes, StatusMoves, AutoMergeFires, UserActs
  <2>4. github' # github
    BY Zenon
  <2>5. Merge(e)
    <3>1. \E f \in Evaluators : Evaluation(f)
      BY <2>3, <2>4, Zenon DEF Next, StartCycle, Skip, CoolingEnds, Operator, Crash, Restart
    <3> QED
      BY <2>1, <2>2, <3>1
  <2> QED
    BY <2>5 DEF Merge, Inv, AllFit, Fits
<1>3. Spec => []Inv
  BY <1>1, InitInv, PTL DEF Spec
<1> QED
  BY <1>2, <1>3, PTL DEF Spec, MergesDecidedCommit

-----------------------------------------------------------------------------
(* Claims and their owner.                                                 *)

\* No statement of the store but a claim and a recorded decision puts a row into
\* a phase of an action.
LEMMA StatementPhases ==
    ASSUME TypeOK, NEW r \in Rows
    PROVE  /\ Ensured(r).phase \in InFlight => r.phase \in InFlight
           /\ \A h : ResetForNewHead(r, h).phase \in InFlight => r.phase \in InFlight
           /\ \A h : ArmNative(r, h).phase \in InFlight => r.phase \in InFlight
           /\ ClearNative(r).phase \in InFlight => r.phase \in InFlight
           /\ \A p, c : Release(r, p, c).phase = p
           /\ UpdatePending(r).phase = "update_pending"
           /\ \A p, h, c, a : RecordDecision(r, p, h, c, a).phase \in InFlight
                => r.phase \in InFlight \/ p \in InFlight
           /\ \A k : Bump(r, k).phase = r.phase
           /\ \A p : MarkTerminal(r, p).phase = p
           /\ AgedRow.phase = row.phase
<1>1. \A s : r = s => "phase" \in DOMAIN r
  BY DEF Rows
<1>2. Ensured(r).phase \in InFlight => r.phase \in InFlight
  BY DEF Ensured, Fresh, Absent, Rows, InFlight
<1>3. \A h : ResetForNewHead(r, h).phase \in InFlight => r.phase \in InFlight
  <2> TAKE h
  <2> DEFINE a == IF r.armed = h THEN r.armed ELSE 0
             p == IF \/ r.phase = "auto_merge_armed" /\ r.armed = h
                     \/ r.phase \in Terminal \cup InFlight
                  THEN r.phase ELSE "idle"
             z == [k \in Kinds |-> 0]
  <2>1. p \in InFlight => r.phase \in InFlight
    BY DEF InFlight
  <2>2. ResetForNewHead(r, h) =
          [r EXCEPT !.head = h, !.waits = 0, !.attempts = z,
                    !.cooling = FALSE, !.armed = a, !.phase = p]
    BY Zenon DEF ResetForNewHead
  <2> HIDE DEF a, p, z
  <2>3. ResetForNewHead(r, h).phase = p
    BY <2>2 DEF Rows
  <2> QED
    BY <2>1, <2>3
<1>4. \A h : ArmNative(r, h).phase \in InFlight => r.phase \in InFlight
  BY DEF ArmNative, Rows, InFlight
<1>5. ClearNative(r).phase \in InFlight => r.phase \in InFlight
  BY DEF ClearNative, Rows, InFlight
<1>6. \A p, c : Release(r, p, c).phase = p
  BY DEF Release, Rows
<1>7. UpdatePending(r).phase = "update_pending"
  BY DEF UpdatePending, Rows
<1>8. \A p, h, c, a : RecordDecision(r, p, h, c, a).phase \in InFlight
        => r.phase \in InFlight \/ p \in InFlight
  <2> TAKE p, h, c, a
  <2> DEFINE q == IF r.phase \in InFlight THEN r.phase ELSE p
             d == IF a = "none" THEN "none" ELSE "other"
             t == IF r.phase \in InFlight THEN r.cooling ELSE c
  <2>1. RecordDecision(r, p, h, c, a) =
          [r EXCEPT !.phase = q, !.head = h, !.decided = d, !.skips = 0, !.cooling = t]
    BY Zenon DEF RecordDecision
  <2>2. q \in InFlight => r.phase \in InFlight \/ p \in InFlight
    OBVIOUS
  <2> HIDE DEF q, d, t
  <2>3. RecordDecision(r, p, h, c, a).phase = q
    BY <2>1 DEF Rows
  <2> QED
    BY <2>2, <2>3
<1>9. \A k : Bump(r, k).phase = r.phase
  <2> TAKE k
  <2> DEFINE f == [j \in Kinds |-> IF j = k /\ r.attempts[j] <= MaxAttempts
                                   THEN r.attempts[j] + 1 ELSE r.attempts[j]]
  <2>1. Bump(r, k) = [r EXCEPT !.attempts = f, !.cooling = TRUE]
    BY Zenon DEF Bump
  <2> HIDE DEF f
  <2> QED
    BY <2>1 DEF Rows
<1>10. \A p : MarkTerminal(r, p).phase = p
  BY DEF MarkTerminal, Rows
<1>11. AgedRow.phase = row.phase
  BY DEF AgedRow, Update, TypeOK, Rows
<1> QED
  BY <1>2, <1>3, <1>4, <1>5, <1>6, <1>7, <1>8, <1>9, <1>10, <1>11

\* A step that claims nothing and lets no claim go strands no row.
Kept == (row'.phase \in InFlight => row.phase \in InFlight) /\ (Owned => Owned')

\* So does one that leaves the row out of an action's phase, or in its hands.
LEMMA NotStranded ==
    ASSUME up' = up, ~Stranded,
           \/ Kept
           \/ row'.phase \notin InFlight
           \/ Owned'
    PROVE  ~Stranded'
BY DEF Stranded, Kept

\* The last statement leaves the row in the phase it was given, and an
\* evaluation that was not an action's holds nothing before or after.
LEMMA EndsPhase ==
    ASSUME Inv, NEW e \in Evaluators, NEW r \in Rows, NEW rested, Ends(e, r, rested)
    PROVE  row'.phase = r.phase
<1>1. CASE e # Tick
  BY <1>1 DEF Ends
<1>2. CASE e = Tick
  <2> DEFINE p == IF rested THEN run[e].print ELSE "none"
  <2>1. row' = Update(r, [r EXCEPT !.print = p])
    BY <1>2, Zenon DEF Ends
  <2> HIDE DEF p
  <2> QED
    BY <2>1 DEF Update, Rows
<1> QED
  BY <1>1, <1>2

\* What the loop's evaluation is, a step of another leaves.
LEMMA Others ==
    ASSUME Inv, NEW e \in Evaluators, NEW r, run' = [run EXCEPT ![e] = r]
    PROVE  /\ run'[e] = r
           /\ e # Tick => (Owned <=> Owned')
           /\ e = Tick => (Owned' <=> \/ r.pc \in Acting
                                      \/ r.pc = "claimed" /\ r.action # "arm")
BY DEF Inv, TypeOK, Owned, Evaluators

\* Going on, an evaluation is the same but for its place.
LEMMA GoingPlace ==
    ASSUME Inv, NEW e \in Evaluators, NEW pc, Go(e, pc)
    PROVE  /\ run'[e].pc = pc /\ run'[e].action = run[e].action
           /\ e = Tick => (Owned' <=> \/ pc \in Acting
                                      \/ pc = "claimed" /\ run[e].action # "arm")
<1> DEFINE r == [run[e] EXCEPT !.pc = pc]
<1>1. r.pc = pc /\ r.action = run[e].action
  BY DEF Inv, TypeOK, Runs
<1>2. run' = [run EXCEPT ![e] = r]
  BY Zenon DEF Go
<1> HIDE DEF r
<1> QED
  BY <1>1, <1>2, Others

\* A dry run, and the loop until it claims, hold no claim.
LEMMA Unclaimed ==
    ASSUME Inv, NEW e \in Evaluators,
           run[e].pc \in Evaluating \cup {"idle", "due", "claim", "arm", "armed"}
    PROVE  e = Tick => ~Owned
BY DEF Owned, Evaluating, Acting

\* A step of such an evaluation, then, strands no row unless its statement does.
LEMMA Harmless ==
    ASSUME Inv, ~Stranded, up' = up, NEW e \in Evaluators,
           run[e].pc \in Evaluating \cup {"idle", "due", "claim", "arm", "armed"},
           e # Tick => (Owned <=> Owned'),
           row'.phase \in InFlight => row.phase \in InFlight
    PROVE  ~Stranded'
BY Unclaimed, NotStranded DEF Kept

\* The steps of an evaluation up to the claim: only a decision recorded late
\* strands a row.
LEMMA DecidingStrandsNone ==
    ASSUME Inv, ~Stranded, NEW e \in Evaluators,
           \/ Load(e) \/ Fetch(e) \/ SyncHead(e) \/ SyncAutoMerge(e) \/ Consider(e)
           \/ TrackWaits(e) \/ Mark(e)
           \/ Record(e) /\ run[e].phase \notin InFlight
    PROVE  ~Stranded'
<1>1. TypeOK /\ row \in Rows /\ run[e] \in Runs /\ up' = up
  BY DEF Inv, TypeOK, Load, Fetch, SyncHead, SyncAutoMerge, Consider, TrackWaits, Mark, Record
<1>2. run[e].pc \in Evaluating \cup {"idle", "due", "claim", "arm", "armed"}
  BY DEF Load, Fetch, SyncHead, SyncAutoMerge, HeadSynced, Consider, TrackWaits, Mark,
     Record, Evaluating
<1>3. \A s : Update(row, s).phase \in {row.phase, s.phase}
  BY DEF Update
<1>4. ASSUME NEW r, run' = [run EXCEPT ![e] = r],
             row'.phase \in InFlight => row.phase \in InFlight
      PROVE  ~Stranded'
  BY <1>1, <1>2, <1>4, Others, Harmless
<1>5. ASSUME NEW pc, Go(e, pc), row'.phase \in InFlight => row.phase \in InFlight
      PROVE  ~Stranded'
  BY <1>4, <1>5 DEF Go
<1>6. ASSUME NEW r \in Rows, NEW rested, Ends(e, r, rested),
             r.phase \in InFlight => row.phase \in InFlight
      PROVE  ~Stranded'
  BY <1>4, <1>6, EndsPhase DEF Ends
<1>7. CASE Load(e) \/ Consider(e)
  BY <1>4, <1>7 DEF Load, Consider
<1>8. CASE Fetch(e)
  <2>1. Update(row, MarkTerminal(row, "abandoned")) \in Rows
    BY <1>1, Statements DEF Phases, Terminal
  <2>2. Update(row, MarkTerminal(row, "abandoned")).phase \in {row.phase, "abandoned"}
    BY <1>1, <1>3, StatementPhases
  <2>3. "abandoned" \notin InFlight
    BY DEF InFlight
  <2>4. CASE run' = [run EXCEPT ![e].pc = "fetched", ![e].st = github] /\ UNCHANGED <<row, faults>>
    BY <1>4, <2>4
  <2> QED
    BY <1>1, <1>6, <1>8, <2>1, <2>2, <2>3, <2>4, Zenon DEF Fetch
<1>9. CASE SyncHead(e)
  <2>1. row'.phase \in {row.phase, ResetForNewHead(row, run[e].st.head).phase}
    BY <1>3, <1>9 DEF SyncHead
  <2> QED
    BY <1>1, <1>5, <1>9, <2>1, StatementPhases DEF SyncHead
<1>10. CASE SyncAutoMerge(e)
  <2>1. row'.phase \in {row.phase, ClearNative(row).phase,
                        ArmNative(row, run[e].st.head).phase}
    BY <1>3, <1>10, Zenon DEF SyncAutoMerge
  <2>2. row'.phase \in InFlight => row.phase \in InFlight
    BY <1>1, <2>1, StatementPhases
  <2>3. ASSUME NEW r, run' = SeeArmed(e, [run EXCEPT ![e] = r])
        PROVE  e # Tick => (Owned <=> Owned')
    <3>1. e # Tick => run'[Tick].pc = run[Tick].pc /\ run'[Tick].action = run[Tick].action
      BY <2>3 DEF SeeArmed, Inv, TypeOK, Evaluators, Runs
    <3> QED
      BY <3>1 DEF Owned
  <2>4. (e # Tick => (Owned <=> Owned')) \/ Go(e, "synced")
    <3>1. ASSUME NEW sameSecond \in BOOLEAN,
                 run' = SeeArmed(e, [run EXCEPT ![e].pc = "synced",
                                                ![e].justArmed = @ \/ ~sameSecond])
          PROVE  \E r : run' = SeeArmed(e, [run EXCEPT ![e] = r])
      BY <3>1, Zenon
    <3> QED
      BY <1>10, <2>3, <3>1, Zenon DEF SyncAutoMerge
  <2> QED
    BY <1>1, <1>2, <1>5, <2>2, <2>4, Harmless
<1>11. CASE Record(e) /\ run[e].phase \notin InFlight
  <2> DEFINE recorded == RecordDecision(row, run[e].phase, run[e].st.head,
                                        run[e].cools, run[e].action)
  <2>1. recorded.phase \in InFlight => row.phase \in InFlight
    BY <1>1, <1>11, StatementPhases
  <2>2. recorded \in Rows
    <3>1. /\ run[e].phase \in Phases /\ run[e].st.head \in 0 .. cfg.commits
          /\ run[e].cools \in BOOLEAN
      BY <1>1 DEF Runs
    <3> QED
      BY <1>1, <3>1, Statements
  <2>3. \/ /\ row' = Update(row, recorded)
           /\ \E pc : Go(e, pc)
        \/ Ends(e, Update(row, recorded), TRUE)
    BY <1>11, Zenon DEF Record
  <2> HIDE DEF recorded
  <2>4. /\ Update(row, recorded) \in Rows
        /\ Update(row, recorded).phase \in InFlight => row.phase \in InFlight
    BY <1>1, <1>3, <2>1, <2>2, Statements
  <2> QED
    BY <1>5, <1>6, <2>3, <2>4
<1>12. CASE TrackWaits(e)
  <2> DEFINE more == IF row.waits <= MaxWaits THEN row.waits + 1 ELSE row.waits
             waited == IF run[e].action = "wait"
                       THEN [row EXCEPT !.cooling = TRUE, !.waits = more]
                       ELSE [row EXCEPT !.waits = 0]
  <2>1. waited \in Rows /\ waited.phase = row.phase
    <3>1. more \in 0 .. MaxWaits + 1 /\ 0 \in 0 .. MaxWaits + 1
      BY <1>1, Bounds DEF Rows
    <3> HIDE DEF more
    <3> QED
      BY <1>1, <3>1 DEF Rows
  <2>2. \/ /\ row' = Update(row, waited)
           /\ Go(e, "mark")
        \/ Ends(e, Update(row, waited), TRUE)
    BY <1>12, Zenon DEF TrackWaits
  <2> HIDE DEF waited
  <2>3. Update(row, waited) \in Rows /\ Update(row, waited).phase = row.phase
    BY <1>1, <1>3, <2>1, Statements
  <2> QED
    BY <1>5, <1>6, <2>2, <2>3
<1>13. CASE Mark(e)
  <2> PICK p \in {"merged", "abandoned"} : Ends(e, Update(row, MarkTerminal(row, p)), TRUE)
    BY <1>13, Zenon DEF Mark
  <2>1. p \in Phases /\ p \notin InFlight
    BY DEF Phases, Terminal, InFlight
  <2>2. Update(row, MarkTerminal(row, p)) \in Rows
    BY <1>1, <2>1, Statements
  <2>3. Update(row, MarkTerminal(row, p)).phase \in {row.phase, p}
    BY <1>1, <1>3, StatementPhases
  <2> QED
    BY <1>6, <2>1, <2>2, <2>3
<1> QED
  BY <1>7, <1>8, <1>9, <1>10, <1>11, <1>12, <1>13

\* The steps of an action: its claim is its own to the end, and ends with it.
LEMMA ActingStrandsNone ==
    ASSUME Inv, ~Stranded, NEW e \in Evaluators,
           \/ Claim(e) \/ Admit(e) \/ Count(e) \/ Fail(e)
           \/ Arm(e) \/ Armed(e) \/ UpdateBranch(e) \/ MarkPending(e)
           \/ Checkout(e) \/ Push(e) \/ Pushed(e)
           \/ Revalidate(e) \/ DisableAutoMerge(e) \/ Merge(e) \/ MarkMerged(e)
    PROVE  ~Stranded'
<1>1. TypeOK /\ row \in Rows /\ run[e] \in Runs /\ up' = up
  BY DEF Inv, TypeOK, Claim, Admit, Count, Fail, Arm, Armed, UpdateBranch, MarkPending,
     Checkout, Push, Pushed, Revalidate, DisableAutoMerge, Merge, MarkMerged
<1>2. e = Tick
  <2>1. run[e].pc \notin Evaluating \cup {"idle"}
    BY DEF Claim, Admit, Count, Fail, Arm, Armed, UpdateBranch, MarkPending, Checkout,
       Push, Pushed, Revalidate, DisableAutoMerge, Merge, MarkMerged, Evaluating
  <2> QED
    BY <2>1 DEF Inv, TypeOK
<1>3. \A s : Update(row, s).phase = IF row.phase = "absent" THEN "absent" ELSE s.phase
  BY DEF Update
<1>4. ASSUME NEW pc \in Acting, Go(e, pc)
      PROVE  ~Stranded'
  BY <1>1, <1>2, <1>4, GoingPlace, NotStranded
<1>5. ASSUME NEW r \in Rows, NEW rested, Ends(e, r, rested), r.phase \notin InFlight
      PROVE  ~Stranded'
  BY <1>1, <1>5, EndsPhase, NotStranded
<1>6. ASSUME NEW p \in {"blocked", "idle", "merged"}, NEW s \in Rows, s.phase = p, NEW rested,
             Ends(e, Update(row, s), rested)
      PROVE  ~Stranded'
  <2>1. Update(row, s) \in Rows /\ Update(row, s).phase \in {"absent", p}
    BY <1>1, <1>3, <1>6, Statements
  <2> QED
    BY <1>5, <1>6, <2>1 DEF InFlight
<1>7. Blocked(e) => ~Stranded'
  <2>1. Release(row, "blocked", TRUE) \in Rows /\ Release(row, "blocked", TRUE).phase = "blocked"
    BY <1>1, Statements, StatementPhases DEF Phases
  <2> QED
    BY <1>6, <2>1 DEF Blocked
<1>8. ASSUME run[e].pc \in {"claim", "arm", "armed"},
             row'.phase \in InFlight => row.phase \in InFlight
      PROVE  ~Stranded'
  BY <1>1, <1>2, <1>8, Harmless
<1>9. CASE Claim(e)
  <2>1. CASE Ends(e, row, TRUE)
    BY <1>1, <1>8, <1>9, <2>1, EndsPhase DEF Claim
  <2>2. CASE row' = [row EXCEPT !.phase = PhaseFor(run[e].action)] /\ Go(e, "claimed")
    <3>1. CASE run[e].action = "arm"
      <4>1. row'.phase = "auto_merge_armed"
        BY <1>1, <2>2, <3>1 DEF PhaseFor, Rows
      <4> QED
        BY <1>8, <1>9, <4>1 DEF Claim, InFlight
    <3>2. CASE run[e].action # "arm"
      <4>1. Owned'
        BY <1>2, <2>2, <3>2, GoingPlace
      <4> QED
        BY <1>1, <4>1, NotStranded
    <3> QED
      BY <3>1, <3>2
  <2> QED
    BY <1>9, <2>1, <2>2 DEF Claim
<1>10. CASE Admit(e)
  <2>1. CASE Go(e, run[e].action) /\ row' = row
    <3>1. run[e].action \in Mutating
      BY <1>10 DEF Inv, TypeOK, Admit
    <3>2. CASE run[e].action = "arm"
      <4>1. ~Owned
        BY <1>2, <1>10, <3>2 DEF Admit, Owned, Acting
      <4> QED
        BY <1>1, <2>1, <4>1, NotStranded DEF Kept
    <3>3. CASE run[e].action # "arm"
      BY <1>4, <2>1, <3>1, <3>3 DEF Mutating, Acting
    <3> QED
      BY <3>2, <3>3
  <2>2. CASE Ends(e, Update(row, Release(row, "idle", FALSE)), TRUE)
    <3>1. Release(row, "idle", FALSE) \in Rows /\ Release(row, "idle", FALSE).phase = "idle"
      BY <1>1, Statements, StatementPhases DEF Phases
    <3> QED
      BY <1>6, <2>2, <3>1
  <2> QED
    BY <1>10, <2>1, <2>2 DEF Admit
<1>11. CASE Count(e) \/ UpdateBranch(e) \/ Checkout(e) \/ Push(e) \/ DisableAutoMerge(e)
  BY <1>4, <1>11 DEF Count, UpdateBranch, Checkout, Push, DisableAutoMerge, Acting
<1>12. CASE Fail(e)
  BY <1>7, <1>12 DEF Fail, Blocked
<1>13. CASE Arm(e)
  <2>1. CASE Go(e, "armed") /\ row' \in {row, AgedRow}
    BY <1>1, <1>8, <1>13, <2>1, StatementPhases DEF Arm
  <2>2. CASE Ends(e, row, FALSE)
    BY <1>1, <1>8, <1>13, <2>2, EndsPhase DEF Arm
  <2>3. CASE run' = [run EXCEPT ![e].pc = "merge", ![e].action = "merge"]
    <3>1. Owned'
      BY <1>1, <1>2, <2>3 DEF Owned, Acting, Inv, TypeOK, Runs
    <3> QED
      BY <1>1, <3>1, NotStranded
  <2>4. CASE Go(e, "failed")
    BY <1>4, <2>4 DEF Acting
  <2> QED
    BY <1>7, <1>13, <2>1, <2>2, <2>3, <2>4, Zenon DEF Arm
<1>14. CASE Armed(e)
  <2>1. ArmNative(row, run[e].st.head) \in Rows
    BY <1>1, Statements DEF Runs
  <2>2. [ArmNative(row, run[e].st.head) EXCEPT !.print = "none"].phase
          = ArmNative(row, run[e].st.head).phase
    BY <2>1 DEF Rows
  <2>3. row'.phase \in {"absent", ArmNative(row, run[e].st.head).phase}
    BY <1>3, <1>14, <2>2, Zenon DEF Armed
  <2>4. row'.phase \in InFlight => row.phase \in InFlight
    BY <1>1, <2>3, StatementPhases DEF InFlight
  <2> QED
    BY <1>8, <1>14, <2>4 DEF Armed
<1>15. CASE MarkPending(e)
  <2>1. UpdatePending(row) \in Rows /\ UpdatePending(row).phase = "update_pending"
    BY <1>1, Statements, StatementPhases
  <2>2. Update(row, UpdatePending(row)) \in Rows
        /\ Update(row, UpdatePending(row)).phase \in {"absent", "update_pending"}
    BY <1>1, <1>3, <2>1, Statements
  <2> QED
    BY <1>5, <1>15, <2>2 DEF MarkPending, InFlight
<1>16. CASE Pushed(e)
  <2>1. Release(row, "idle", TRUE) \in Rows /\ Release(row, "idle", TRUE).phase = "idle"
    BY <1>1, Statements, StatementPhases DEF Phases
  <2> QED
    BY <1>6, <1>16, <2>1 DEF Pushed
<1>17. CASE Revalidate(e)
  <2>1. CASE run' = [run EXCEPT ![e].pc = "ready", ![e].expected = github.head]
    <3>1. Owned'
      BY <1>1, <1>2, <2>1 DEF Owned, Acting, Inv, TypeOK, Runs
    <3> QED
      BY <1>1, <3>1, NotStranded
  <2>2. CASE Go(e, "merged") \/ Go(e, "failed")
    BY <1>4, <2>2 DEF Acting
  <2> QED
    BY <1>7, <1>17, <2>1, <2>2, Zenon DEF Revalidate
<1>18. CASE Merge(e)
  <2>1. Go(e, "merged") \/ Go(e, "failed") \/ Blocked(e)
    BY <1>18, Zenon DEF Merge
  <2> QED
    BY <1>4, <1>7, <2>1 DEF Acting
<1>19. CASE MarkMerged(e)
  <2>1. MarkTerminal(row, "merged") \in Rows /\ MarkTerminal(row, "merged").phase = "merged"
    BY <1>1, Statements, StatementPhases DEF Phases, Terminal
  <2> QED
    BY <1>6, <1>19, <2>1 DEF MarkMerged
<1> QED
  BY <1>9, <1>10, <1>11, <1>12, <1>13, <1>14, <1>15, <1>16, <1>17, <1>18, <1>19

\* The other steps: the loop's cycle, time, the operator, GitHub, and the daemon,
\* which starts with no row in an action's phase.
LEMMA OthersStrandNone ==
    ASSUME Inv, ~Stranded,
           \/ StartCycle \/ Skip \/ CoolingEnds \/ Operator \/ Crash \/ Restart
           \/ AuthorPushes \/ UpdateLands \/ StatusMoves \/ AutoMergeFires \/ UserActs
    PROVE  ~Stranded'
<1>1. TypeOK /\ row \in Rows /\ Tick \in Evaluators
  BY DEF Inv, TypeOK, Evaluators
<1>2. CASE StartCycle
  <2>1. PICK old \in BOOLEAN : StartCycle!2!(old)
    BY <1>2, Zenon DEF StartCycle
  <2> DEFINE pruned == IF old /\ row.phase \in Terminal THEN Absent ELSE row
             found == IF github.state = "open" THEN Ensured(pruned) ELSE pruned
  <2>2. pruned \in Rows /\ (pruned.phase \in InFlight => row.phase \in InFlight)
    BY <1>1, Values DEF Absent, InFlight
  <2>3. found.phase \in InFlight => row.phase \in InFlight
    <3> HIDE DEF pruned
    <3> QED
      BY <1>1, <2>2, StatementPhases
  <2>4. row' = found
    BY <2>1, Zenon
  <2> HIDE DEF found
  <2> QED
    BY <1>1, <1>2, <2>3, <2>4, Harmless DEF StartCycle
<1>3. CASE Skip
  <2> DEFINE more == IF row.skips < MaxSkips THEN row.skips + 1 ELSE row.skips
  <2>1. row' = Update(row, [row EXCEPT !.cooling = TRUE, !.skips = more])
    BY <1>3, Zenon DEF Skip
  <2> HIDE DEF more
  <2>2. row'.phase = row.phase
    BY <1>1, <2>1 DEF Update, Rows
  <2> QED
    BY <1>1, <1>3, <2>2, Harmless DEF Skip
<1>4. CASE CoolingEnds
  <2>1. row'.phase = row.phase
    BY <1>1, <1>4 DEF CoolingEnds, Rows
  <2> QED
    BY <1>4, <2>1, NotStranded DEF CoolingEnds, Kept, Owned
<1>5. CASE Operator
  <2>1. /\ [row EXCEPT !.excluded = ~@].phase = row.phase
        /\ [row EXCEPT !.cooling = FALSE, !.print = "none"].phase = row.phase
    BY <1>1 DEF Rows
  <2>2. [Ensured(row) EXCEPT !.cooling = FALSE, !.print = "none"].phase = Ensured(row).phase
    <3>1. Ensured(row) \in Rows
      BY <1>1, Statements
    <3> QED
      BY <3>1 DEF Rows
  <2>3. row'.phase \in {row.phase, Ensured(row).phase}
    BY <1>5, <2>1, <2>2, Zenon DEF Operator
  <2> QED
    BY <1>1, <1>5, <2>3, StatementPhases, NotStranded DEF Operator, Kept, Owned
<1>6. CASE Crash
  BY <1>6 DEF Crash, Stranded
<1>7. CASE Restart
  <2>1. row'.phase \notin InFlight
    BY <1>1, <1>7 DEF Restart, Rows, InFlight
  <2> QED
    BY <2>1 DEF Stranded
<1>8. ASSUME NEW g, Moves(g), up' = up
      PROVE  ~Stranded'
  <2>1. row'.phase = row.phase
    BY <1>1, <1>8, StatementPhases DEF Moves
  <2>2. run'[Tick].pc = run[Tick].pc /\ run'[Tick].action = run[Tick].action
    BY <1>1, <1>8 DEF Moves, Inv, TypeOK, Runs
  <2> QED
    BY <1>8, <2>1, <2>2, NotStranded DEF Kept, Owned
<1>9. CASE UpdateLands
  <2>1. CASE UNCHANGED <<github, row, run>>
    BY <1>9, <2>1, NotStranded DEF UpdateLands, Kept, Owned
  <2> QED
    BY <1>8, <1>9, <2>1 DEF UpdateLands
<1> QED
  BY <1>2, <1>3, <1>4, <1>5, <1>6, <1>7, <1>8, <1>9
     DEF AuthorPushes, StatusMoves, AutoMergeFires, UserActs

\* Whatever fails, is refused or dies, and however many dry runs there are: a row
\* is left in an action's phase without an action only by an evaluation that
\* records a decision made while there was one.
THEOREM RowsStrandedByRecords == Spec => ClaimsOwned
<1> DEFINE Late == \E e \in Evaluators : /\ run[e].pc = "decided" /\ run[e].phase \in InFlight
                                         /\ run'[e].pc # "decided"
<1>1. Inv /\ [Next]_vars => Inv'
  BY NextInv
<1>2. Inv /\ [Next]_vars => [~Stranded /\ Stranded' => Late]_vars
  <2> SUFFICES ASSUME Inv, Next, ~Stranded, Stranded'
               PROVE  Late
    BY Zenon
  <2>1. PICK e \in Evaluators : Record(e) /\ run[e].phase \in InFlight
    BY DecidingStrandsNone, ActingStrandsNone, OthersStrandNone, Zenon DEF Next, Evaluation
  <2>2. run'[e].pc # "decided"
    <3>1. ASSUME NEW pc \in {"claim", "waits", "mark"}, Go(e, pc)
          PROVE  run'[e].pc # "decided"
      BY <3>1, GoingPlace
    <3>2. ASSUME NEW r, NEW rested, Ends(e, r, rested)
          PROVE  run'[e].pc # "decided"
      <4>1. run'[e] = Idle
        BY <3>2 DEF Ends, Inv, TypeOK
      <4> QED
        BY <4>1 DEF Idle
    <3> QED
      BY <2>1, <3>1, <3>2, Zenon DEF Record
  <2> QED
    BY <2>1, <2>2 DEF Record
<1>3. Spec => []Inv
  BY <1>1, InitInv, PTL DEF Spec
<1> QED
  BY <1>2, <1>3, PTL DEF Spec, ClaimsOwned
=============================================================================
