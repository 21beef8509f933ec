---------------------------- MODULE MergeTracking ----------------------------
(***************************************************************************)
(* One pull request on its way to being merged: its row in the table       *)
(* merge_tracking (store/merge_tracking.go), the daemon's reconciliation   *)
(* loop that decides and acts (mergetrack/), the dry runs an operator asks *)
(* for over HTTP meanwhile, the author and GitHub on the other side, and a *)
(* daemon that dies and restarts.  An evaluation holds no lock: its steps  *)
(* are the statements of the store and the calls to GitHub, one by one; a  *)
(* call that changes nothing there is taken with the statement after it.   *)
(***************************************************************************)
EXTENDS Naturals, FiniteSets

CONSTANTS
    DryRuns,        \* concurrent POST /merge-tracking/{id}/evaluate?dry_run
    Configs,        \* effective configurations of the repository, each with
                    \* the statuses its pull request goes through and the
                    \* commits its head branch ever has
    MaxAttempts,    \* max_update, max_resolve and max_merge_attempts
    MaxWaits,       \* maxUnknownWaits
    MaxSkips,       \* unchanged passes within fingerprintRevalidate
    MaxChanges,     \* what the operator asks for and the author does
    MaxFaults       \* failed requests, refused admissions, crashes

\* "draft" stands for the blocks that rule out arming too, "pending" for the
\* others: checks, reviews, threads, protection.
Statuses == {"unknown", "conflicts", "behind", "draft", "pending", "clean"}

ASSUME MergeAssumption ==
    /\ MaxAttempts \in Nat \ {0}
    /\ MaxWaits \in Nat \ {0} /\ MaxSkips \in Nat
    /\ MaxChanges \in Nat /\ MaxFaults \in Nat
    /\ \A c \in Configs :
        /\ {c.merge, c.autoMerge, c.update, c.resolve, c.watchOnly, c.queue,
            c.linear} \subseteq BOOLEAN
        /\ "pending" \in c.statuses /\ c.statuses \subseteq Statuses
        /\ c.commits \in Nat \ {0}

VARIABLES
    cfg,            \* the repository's effective configuration
    github,         \* the pull request on GitHub
    updating,       \* GitHub has accepted an update-branch request
    row,            \* the row of table merge_tracking
    run,            \* each evaluation in progress
    up,             \* the daemon is running
    changes, faults

vars == <<cfg, github, updating, row, run, up, changes, faults>>

Tick == "tick"
Evaluators == DryRuns \cup {Tick}

InFlight == {"updating", "resolving", "merging"}
Terminal == {"merged", "abandoned"}
Phases == InFlight \cup Terminal \cup
          {"absent", "idle", "blocked", "update_pending", "auto_merge_armed"}
Kinds == {"update", "resolve", "merge"}

Snapshots == [head : 1 .. cfg.commits, state : {"open", "closed", "merged"},
              status : Statuses, auto : BOOLEAN]
None == [head |-> 0, state |-> "none", status |-> "none", auto |-> FALSE]

\* The recorded fingerprint: none, GitHub's state has not changed since it was
\* taken, or it has.
Prints == {"none", "current", "old"}

Absent == [phase |-> "absent", head |-> 0, armed |-> 0, cooling |-> FALSE,
           excluded |-> FALSE, attempts |-> [k \in Kinds |-> 0], waits |-> 0,
           decided |-> "nothing", print |-> "none", skips |-> 0]
Fresh == [Absent EXCEPT !.phase = "idle"]
\* Of the row an evaluation keeps what syncRow compares, then the decision it
\* makes of the row it reads again: what it will write, and what it acts on.
Idle == [pc |-> "idle", resting |-> FALSE, print |-> "none", head |-> 0, armed |-> 0,
         st |-> None, justArmed |-> FALSE, action |-> "none", phase |-> "absent",
         cools |-> FALSE, waited |-> FALSE, expected |-> 0]

Rows == [phase : Phases, head : 0 .. cfg.commits, armed : 0 .. cfg.commits,
         cooling : BOOLEAN, excluded : BOOLEAN,
         attempts : [Kinds -> 0 .. MaxAttempts + 1], waits : 0 .. MaxWaits + 1,
         decided : {"nothing", "none", "other"},
         print : Prints, skips : 0 .. MaxSkips]

Mutating == {"arm", "update", "resolve", "merge"}
Decisions == Mutating \cup {"none", "wait", "markMerged", "abandon"}

\* Where an evaluation is: what a dry run does too, and what only the loop does.
Evaluating == {"loaded", "fetched", "reset", "synced", "decided", "waits", "mark"}
Acting == {"update", "pending", "resolve", "push", "pushed", "merge", "ready",
           "disarmed", "merged", "failed", "counted"}

Runs == [pc : {"idle", "due", "claim", "claimed", "arm", "armed"} \cup Evaluating \cup Acting,
         resting : BOOLEAN, print : Prints,
         head : 0 .. cfg.commits, armed : 0 .. cfg.commits,
         st : [head : 0 .. cfg.commits, state : {"none", "open", "closed", "merged"},
               status : Statuses \cup {"none"}, auto : BOOLEAN],
         justArmed : BOOLEAN, action : Decisions, phase : Phases,
         cools : BOOLEAN, waited : BOOLEAN, expected : 0 .. cfg.commits]

TypeOK ==
    /\ cfg \in Configs
    /\ github \in Snapshots
    /\ updating \in BOOLEAN
    /\ row \in Rows
    /\ run \in [Evaluators -> Runs]
    /\ \A e \in Evaluators : /\ e # Tick => run[e].pc \in Evaluating \cup {"idle"}
                             /\ run[e].pc \in {"claim", "claimed"} => run[e].action \in Mutating
    /\ up \in BOOLEAN
    /\ changes \in 0 .. MaxChanges /\ faults \in 0 .. MaxFaults

Init ==
    /\ cfg \in Configs
    /\ github = [head |-> 1, state |-> "open", status |-> "pending", auto |-> FALSE]
    /\ updating = FALSE
    /\ row = Absent
    /\ run = [e \in Evaluators |-> Idle]
    /\ up = TRUE
    /\ changes = 0 /\ faults = 0

Change == changes < MaxChanges /\ changes' = changes + 1
Fault == faults < MaxFaults /\ faults' = faults + 1
MaybeFault(failed) == IF failed THEN Fault ELSE UNCHANGED faults

-----------------------------------------------------------------------------
(* The statements of the store.  An update of a row that is not there does *)
(* nothing.                                                                *)

Update(r, s) == IF r.phase = "absent" THEN r ELSE s

Ensured(r) ==
    CASE r.phase = "absent"    -> Fresh
      [] r.phase = "abandoned" -> [r EXCEPT !.phase = "idle", !.cooling = FALSE]
      [] OTHER                 -> r

\* Mutant: a row GitHub was asked to merge is left to GitHub.
DueUnarmed(r) ==
    /\ ~r.excluded /\ ~r.cooling
    /\ r.phase \notin InFlight \cup Terminal \cup {"absent", "auto_merge_armed"}

Due(r) == ~r.excluded /\ ~r.cooling /\ r.phase \notin InFlight \cup Terminal \cup {"absent"}

ResetForNewHead(r, h) ==
    [r EXCEPT !.head = h, !.waits = 0, !.attempts = [k \in Kinds |-> 0],
              !.cooling = FALSE,
              !.armed = IF @ = h THEN @ ELSE 0,
              !.phase = IF \/ @ = "auto_merge_armed" /\ r.armed = h
                           \/ @ \in Terminal \cup InFlight
                        THEN @ ELSE "idle"]

ArmNative(r, h) ==
    [r EXCEPT !.armed = h,
              !.phase = IF @ \in InFlight THEN @ ELSE "auto_merge_armed"]

ClearNative(r) ==
    [r EXCEPT !.armed = 0, !.phase = IF @ = "auto_merge_armed" THEN "idle" ELSE @]

Claimable(r, h) == Due(r) /\ r.head = h

Release(r, phase, cooling) == [r EXCEPT !.phase = phase, !.cooling = cooling]

UpdatePending(r) ==
    [r EXCEPT !.phase = "update_pending", !.decided = "nothing", !.cooling = TRUE]

RecordDecision(r, phase, h, cooling, action) ==
    [r EXCEPT !.phase = IF @ \in InFlight THEN @ ELSE phase,
              !.head = h,
              !.decided = IF action = "none" THEN "none" ELSE "other",
              !.skips = 0,
              !.cooling = IF r.phase \in InFlight THEN @ ELSE cooling]

Bump(r, kind) ==
    [r EXCEPT !.attempts = [k \in Kinds |-> IF k = kind /\ @[k] <= MaxAttempts THEN @[k] + 1 ELSE @[k]],
              !.cooling = TRUE]

MarkTerminal(r, phase) == [r EXCEPT !.phase = phase, !.cooling = FALSE]

\* A change on GitHub leaves the fingerprints taken before it behind.
Aged(print) == IF print = "current" THEN "old" ELSE print
AgedRow == Update(row, [row EXCEPT !.print = Aged(@)])
Moves(g) ==
    /\ github' = g /\ row' = AgedRow
    /\ run' = [e \in Evaluators |-> [run[e] EXCEPT !.print = Aged(@)]]

-----------------------------------------------------------------------------
(* Evaluate and Decide: the action a snapshot calls for.                   *)

Verdict(s, excluded, waits) ==
    CASE s.state # "open"                          -> s.state
      [] excluded                                  -> "excluded"
      [] s.status = "unknown" /\ waits < MaxWaits  -> "wait"
      [] OTHER                                     -> s.status

CanArm(s) == cfg.autoMerge /\ ~s.auto

Attempt(action, r) == IF r.attempts[action] < MaxAttempts THEN action ELSE "none"
ArmOrRest(s) == IF CanArm(s) THEN "arm" ELSE "none"

WhenReady(s, r, justArmed) ==
    CASE cfg.queue \/ ~cfg.merge                       -> ArmOrRest(s)
      [] r.attempts["merge"] >= MaxAttempts            -> "none"
      [] ~cfg.autoMerge                                -> "merge"
      [] ~s.auto                                       -> "arm"
      [] r.armed # s.head \/ justArmed                 -> "none"
      [] OTHER                                         -> "merge"

Decide(s, r, justArmed, dry) ==
    LET v == Verdict(s, r.excluded, r.waits) IN
    CASE v = "merged"                          -> "markMerged"
      [] v = "closed"                          -> "abandon"
      [] v = "wait"                            -> "wait"
      [] cfg.watchOnly \/ v \in {"excluded", "draft"} -> "none"
      [] r.cooling /\ ~dry                     -> "none"
      [] v = "conflicts" -> IF cfg.resolve THEN Attempt("resolve", r) ELSE "none"
      [] v = "behind"    -> IF cfg.update THEN Attempt("update", r) ELSE "none"
      [] v = "clean"                           -> WhenReady(s, r, justArmed)
      [] OTHER                                 -> ArmOrRest(s)

PhaseFor(action) ==
    CASE action = "update"  -> "updating"
      [] action = "resolve" -> "resolving"
      [] action = "merge"   -> "merging"
      [] action = "arm"     -> "auto_merge_armed"

RestPhase(action, s, r) ==
    CASE action = "markMerged" -> "merged"
      [] action = "abandon"    -> "abandoned"
      [] action = "none" /\ cfg.watchOnly /\ s.status = "clean"
                               /\ ~r.excluded -> "idle"
      [] r.armed = s.head      -> "auto_merge_armed"
      [] OTHER                 -> "blocked"

-----------------------------------------------------------------------------
(* The steps of an evaluation.                                             *)

Go(e, pc) == run' = [run EXCEPT ![e].pc = pc]

\* The last statement of ReconcilePR, and after it the loop's recording of the
\* fingerprint it read before, unless the run acted or failed: of the others
\* only an operator's re-check touches that column.
Ends(e, r, rested) ==
    /\ run' = [run EXCEPT ![e] = Idle]
    /\ row' = IF e # Tick THEN r
              ELSE Update(r, [r EXCEPT !.print = IF rested THEN run[e].print ELSE "none"])

\* unchangedSinceDecision, but for the fingerprint, which it reads again.
Resting(r) ==
    r.decided = "none" /\ r.phase \in {"idle", "blocked"} /\ r.skips < MaxSkips

\* A cycle of the loop: terminal rows past their retention go, open pull
\* requests are enrolled, and the row is listed with its fingerprint if due.
\* A dry run's statement between these is as good as one before or after them.
StartCycle ==
    /\ up /\ run[Tick].pc = "idle"
    /\ \E old \in BOOLEAN :
        LET pruned == IF old /\ row.phase \in Terminal THEN Absent ELSE row
            found == IF github.state = "open" THEN Ensured(pruned) ELSE pruned
            due == [Idle EXCEPT !.pc = "due", !.print = "current",
                                !.resting = Resting(found) /\ found.print = "current"]
        IN  /\ row' = found
            /\ run' = IF Due(found) THEN [run EXCEPT ![Tick] = due] ELSE run
            /\ row' # row \/ run' # run
    /\ UNCHANGED <<cfg, github, updating, up, changes, faults>>

Unchanged(e) == run[e].resting /\ row.print # "none"

\* deferUnchanged
Skip ==
    /\ run[Tick].pc = "due" /\ Unchanged(Tick)
    /\ run' = [run EXCEPT ![Tick] = Idle]
    /\ row' = Update(row, [row EXCEPT !.cooling = TRUE,
                             !.skips = IF @ < MaxSkips THEN @ + 1 ELSE @])
    /\ UNCHANGED <<cfg, github, updating, up, changes, faults>>

Load(e) ==
    /\ IF e = Tick
       THEN run[e].pc = "due" /\ ~Unchanged(e) /\ UNCHANGED changes
       ELSE up /\ run[e].pc = "idle" /\ row.phase # "absent" /\ Change
    /\ run' = [run EXCEPT ![e] =
            IF row.phase = "absent" THEN Idle
            ELSE [Idle EXCEPT !.pc = "loaded", !.print = run[e].print,
                              !.justArmed = run[e].justArmed,
                              !.head = row.head, !.armed = row.armed]]
    /\ UNCHANGED <<cfg, github, updating, row, up, faults>>

\* GetMergeStatus: a snapshot, a failure, or a 404 that abandons the row.
Fetch(e) ==
    /\ run[e].pc = "loaded"
    /\ \/ /\ run' = [run EXCEPT ![e].pc = "fetched", ![e].st = github]
          /\ UNCHANGED <<row, faults>>
       \/ Fault /\ Ends(e, row, FALSE)
       \/ Fault /\ Ends(e, Update(row, MarkTerminal(row, "abandoned")), TRUE)
    /\ UNCHANGED <<cfg, github, updating, up, changes>>

\* What syncRow finds to do, comparing the row it was given with the snapshot.
NewHead(e) == run[e].head # run[e].st.head
Unarms(e) == ~run[e].st.auto /\ run[e].armed # 0

\* Mutant: an arming the row does not know of, the user's, is not recorded.
NeverReanchors(e) == FALSE

Reanchors(e) == run[e].st.auto /\ run[e].armed # run[e].st.head

HeadSynced(e) == run[e].pc = "reset" \/ (run[e].pc = "fetched" /\ ~NewHead(e))

\* A row armed from now on is not armed before the passes under way began.
SeeArmed(e, runs) ==
    [f \in Evaluators |->
        IF f # e /\ runs[f].pc \in {"due", "loaded", "fetched", "reset", "synced"}
        THEN [runs[f] EXCEPT !.justArmed = TRUE] ELSE runs[f]]

\* syncRow, statement by statement.
SyncHead(e) ==
    /\ run[e].pc = "fetched" /\ NewHead(e)
    /\ row' = Update(row, ResetForNewHead(row, run[e].st.head))
    /\ Go(e, "reset")
    /\ UNCHANGED <<cfg, github, updating, up, changes, faults>>

\* Times are stored in whole seconds: a row armed in the second a pass began
\* reads as armed before it.
SyncAutoMerge(e) ==
    /\ HeadSynced(e)
    /\ \/ /\ Unarms(e)
          /\ row' = Update(row, ClearNative(row)) /\ Go(e, "synced")
       \/ /\ Reanchors(e)
          /\ row' = Update(row, ArmNative(row, run[e].st.head))
          /\ \E sameSecond \in BOOLEAN :
               run' = SeeArmed(e, [run EXCEPT ![e].pc = "synced",
                                              ![e].justArmed = @ \/ ~sameSecond])
    /\ UNCHANGED <<cfg, github, updating, up, changes, faults>>

\* The row read again, and what persistDecision will write of it: a mutating
\* action the phase and the cooldown the row has now.  Of a row that is gone
\* nothing comes.
Consider(e) ==
    /\ \/ run[e].pc = "synced"
       \/ HeadSynced(e) /\ ~Unarms(e) /\ ~Reanchors(e)
    /\ LET st == run[e].st
           action == Decide(st, row, run[e].justArmed, e # Tick)
           acts == action \in Mutating
           decided == [Idle EXCEPT !.pc = "decided", !.print = run[e].print,
                         !.st = [None EXCEPT !.head = st.head], !.action = action,
                         !.phase = IF acts THEN row.phase ELSE RestPhase(action, st, row),
                         !.cools = acts => row.cooling, !.waited = row.waits > 0]
       IN  run' = [run EXCEPT ![e] = IF row.phase = "absent" THEN Idle ELSE decided]
    /\ UNCHANGED <<cfg, github, updating, row, up, changes, faults>>

\* Mutant: a dry run takes the action it was asked to foretell.
ActsOnDryRun(e) == run[e].action \in Mutating

Acts(e) == run[e].action \in Mutating /\ e = Tick

Marks(e) == run[e].action \in {"markMerged", "abandon"}

\* persistDecision's statement, on a row others may have claimed, released or
\* marked since it was read.
Record(e) ==
    /\ run[e].pc = "decided"
    /\ LET recorded == Update(row, RecordDecision(row, run[e].phase, run[e].st.head,
                                                  run[e].cools, run[e].action))
           goesOn == \/ Acts(e) /\ Go(e, "claim")
                     \/ ~Acts(e) /\ (run[e].action = "wait" \/ run[e].waited) /\ Go(e, "waits")
                     \/ Marks(e) /\ ~run[e].waited /\ Go(e, "mark")
       IN  IF Acts(e) \/ Marks(e) \/ run[e].action = "wait" \/ run[e].waited
           THEN row' = recorded /\ goesOn
           ELSE Ends(e, recorded, TRUE)
    /\ UNCHANGED <<cfg, github, updating, up, changes, faults>>

\* trackUnknownWaits
TrackWaits(e) ==
    /\ run[e].pc = "waits"
    /\ LET waited == Update(row, IF run[e].action = "wait"
                THEN [row EXCEPT !.cooling = TRUE,
                                 !.waits = IF @ <= MaxWaits THEN @ + 1 ELSE @]
                ELSE [row EXCEPT !.waits = 0])
       IN  IF Marks(e) THEN row' = waited /\ Go(e, "mark") ELSE Ends(e, waited, TRUE)
    /\ UNCHANGED <<cfg, github, updating, up, changes, faults>>

\* handleNonMutating's terminal transitions.
Mark(e) ==
    /\ run[e].pc = "mark"
    /\ Ends(e, Update(row, MarkTerminal(row, IF run[e].action = "markMerged"
                                             THEN "merged" ELSE "abandoned")), TRUE)
    /\ UNCHANGED <<cfg, github, updating, up, changes, faults>>

\* ClaimMergeTrackingAction
Claim(e) ==
    /\ run[e].pc = "claim"
    /\ IF Claimable(row, run[e].st.head)
       THEN row' = [row EXCEPT !.phase = PhaseFor(run[e].action)] /\ Go(e, "claimed")
       ELSE Ends(e, row, TRUE)
    /\ UNCHANGED <<cfg, github, updating, up, changes, faults>>

\* The admission of the work gate.
Admit(e) ==
    /\ run[e].pc = "claimed"
    /\ \/ Go(e, run[e].action) /\ UNCHANGED <<row, faults>>
       \/ Fault /\ Ends(e, Update(row, Release(row, "idle", FALSE)), TRUE)
    /\ UNCHANGED <<cfg, github, updating, up, changes>>

\* recordFailure: the attempt counted, then the claim released.
Count(e) ==
    /\ run[e].pc = "failed"
    /\ row' = Update(row, Bump(row, run[e].action)) /\ Go(e, "counted")
    /\ UNCHANGED <<cfg, github, updating, up, changes, faults>>

Fail(e) ==
    /\ run[e].pc = "counted"
    /\ Ends(e, Update(row, Release(row, "blocked", TRUE)), FALSE)
    /\ UNCHANGED <<cfg, github, updating, up, changes, faults>>

Blocked(e) == Ends(e, Update(row, Release(row, "blocked", TRUE)), FALSE)

-----------------------------------------------------------------------------
(* The actions.  Every request carries the commit the decision was about.  *)

AtHead(e) == github.state = "open" /\ github.head = run[e].st.head

\* EnableAutoMerge; a pull request that is mergeable right now is merged
\* directly instead, under a claim of its own.
Arm(e) ==
    /\ run[e].pc = "arm"
    /\ \/ /\ AtHead(e) /\ github.status # "clean"
          /\ github' = [github EXCEPT !.auto = TRUE] /\ row' = AgedRow
          /\ Go(e, "armed") /\ UNCHANGED faults
       \/ /\ AtHead(e) /\ github.status = "clean" /\ ~github.auto
          /\ IF ~cfg.merge THEN Blocked(e)
             ELSE IF Claimable(row, run[e].st.head)
             THEN /\ row' = [row EXCEPT !.phase = "merging"]
                  /\ run' = [run EXCEPT ![e].pc = "merge", ![e].action = "merge"]
             ELSE Ends(e, row, FALSE)
          /\ UNCHANGED <<github, faults>>
       \/ /\ AtHead(e) /\ github.auto
          /\ Go(e, "armed") /\ UNCHANGED <<github, row, faults>>
       \/ /\ MaybeFault(AtHead(e))
          /\ Go(e, "failed") /\ UNCHANGED <<github, row>>
    /\ UNCHANGED <<cfg, updating, up, changes>>

Armed(e) ==
    /\ run[e].pc = "armed"
    /\ row' = Update(row, [ArmNative(row, run[e].st.head) EXCEPT !.print = "none"])
    /\ run' = SeeArmed(e, [run EXCEPT ![e] = Idle])
    /\ UNCHANGED <<cfg, github, updating, up, changes, faults>>

\* UpdatePRBranch; a base that requires linear history is rebased locally.
UpdateBranch(e) ==
    /\ run[e].pc = "update"
    /\ \/ /\ AtHead(e) /\ ~cfg.linear /\ github.head < cfg.commits
          /\ updating' = TRUE /\ Go(e, "pending") /\ UNCHANGED faults
       \/ /\ AtHead(e) /\ cfg.linear
          /\ Go(e, "resolve") /\ UNCHANGED <<updating, faults>>
       \/ Go(e, "failed") /\ UNCHANGED <<updating, faults>>
    /\ UNCHANGED <<cfg, github, row, up, changes>>

MarkPending(e) ==
    /\ run[e].pc = "pending"
    /\ Ends(e, Update(row, UpdatePending(row)), FALSE)
    /\ UNCHANGED <<cfg, github, updating, up, changes, faults>>

\* CheckoutRemoteBranch, which must find the commit the decision was about;
\* the rebase, the agent and the three guards after it may all give up.
Checkout(e) ==
    /\ run[e].pc = "resolve"
    /\ \/ github.head = run[e].st.head /\ Go(e, "push")
       \/ Go(e, "failed")
    /\ UNCHANGED <<cfg, github, updating, row, up, changes, faults>>

\* PushForceWithLease, leased to the commit checked out.
Leased(e) == github.head = run[e].st.head

Push(e) ==
    /\ run[e].pc = "push"
    /\ IF Leased(e) /\ github.head < cfg.commits
       THEN /\ github' = [github EXCEPT !.head = @ + 1, !.status = "pending"]
            /\ row' = AgedRow /\ Go(e, "pushed")
       ELSE Go(e, "failed") /\ UNCHANGED <<github, row>>
    /\ UNCHANGED <<cfg, updating, up, changes, faults>>

Pushed(e) ==
    /\ run[e].pc = "pushed"
    /\ Ends(e, Update(row, Release(row, "idle", TRUE)), FALSE)
    /\ UNCHANGED <<cfg, github, updating, up, changes, faults>>

\* Mutant: the commit is not compared again.
AnyCommit(e) == TRUE

\* merge: the snapshot read again just before the request.  Only a row that
\* was not excluded is acted on.
SameCommit(e) == github.head = run[e].st.head

Revalidate(e) ==
    /\ run[e].pc = "merge"
    /\ \/ /\ github.state = "merged"
          /\ Go(e, "merged") /\ UNCHANGED <<row, faults>>
       \/ /\ github.state # "merged"
          /\ ~SameCommit(e) \/ Verdict(github, FALSE, 0) # "clean"
          /\ Blocked(e) /\ UNCHANGED faults
       \/ /\ SameCommit(e) /\ Verdict(github, FALSE, 0) = "clean"
          /\ run' = [run EXCEPT ![e].pc = "ready", ![e].expected = github.head]
          /\ UNCHANGED <<row, faults>>
       \/ Fault /\ Go(e, "failed") /\ UNCHANGED row
    /\ UNCHANGED <<cfg, github, updating, up, changes>>

DisableAutoMerge(e) ==
    /\ run[e].pc = "ready"
    /\ \/ /\ github' = [github EXCEPT !.auto = FALSE]
          /\ row' = (IF github.auto THEN AgedRow ELSE row) /\ UNCHANGED faults
       \/ github.auto /\ Fault /\ UNCHANGED <<github, row>>
    /\ Go(e, "disarmed")
    /\ UNCHANGED <<cfg, updating, up, changes>>

\* MergePRAtSHA: merged, merged with the answer lost, refused because the head
\* had moved, refused or failed for another reason.
Merge(e) ==
    /\ run[e].pc = "disarmed"
    /\ \/ /\ github.state = "open" /\ github.status = "clean"
          /\ github.head = run[e].expected
          /\ github' = [github EXCEPT !.state = "merged"] /\ row' = AgedRow
          /\ \/ Go(e, "merged") /\ UNCHANGED faults
             \/ Go(e, "failed") /\ Fault
       \/ /\ github.state = "open" /\ github.head # run[e].expected
          /\ Blocked(e) /\ UNCHANGED <<github, faults>>
       \/ Go(e, "failed") /\ UNCHANGED <<github, row, faults>>
    /\ UNCHANGED <<cfg, updating, up, changes>>

MarkMerged(e) ==
    /\ run[e].pc = "merged"
    /\ Ends(e, Update(row, MarkTerminal(row, "merged")), FALSE)
    /\ UNCHANGED <<cfg, github, updating, up, changes, faults>>

Evaluation(e) ==
    \/ Load(e) \/ Fetch(e) \/ SyncHead(e) \/ SyncAutoMerge(e) \/ Consider(e)
    \/ Record(e) \/ TrackWaits(e) \/ Mark(e)
    \/ Claim(e) \/ Admit(e) \/ Count(e) \/ Fail(e)
    \/ Arm(e) \/ Armed(e) \/ UpdateBranch(e) \/ MarkPending(e)
    \/ Checkout(e) \/ Push(e) \/ Pushed(e)
    \/ Revalidate(e) \/ DisableAutoMerge(e) \/ Merge(e) \/ MarkMerged(e)

-----------------------------------------------------------------------------
(* Time, the operator, the daemon's life and GitHub's.                     *)

CoolingEnds ==
    /\ row.cooling
    /\ row' = [row EXCEPT !.cooling = FALSE]
    /\ UNCHANGED <<cfg, github, updating, run, up, changes, faults>>

\* POST exclude and include, evaluate, add.
Operator ==
    /\ up /\ row.phase # "absent" /\ Change
    /\ \/ row' = [row EXCEPT !.excluded = ~@]
       \/ row' = [row EXCEPT !.cooling = FALSE, !.print = "none"]
       \/ row' = [Ensured(row) EXCEPT !.cooling = FALSE, !.print = "none"]
    /\ UNCHANGED <<cfg, github, updating, run, up, faults>>

Crash ==
    /\ up /\ Fault
    /\ up' = FALSE
    /\ run' = [e \in Evaluators |-> Idle]
    /\ UNCHANGED <<cfg, github, updating, row, changes>>

\* Mutant: the phases of the dead daemon's actions are left as they are.
RestartAsIs ==
    /\ ~up /\ up' = TRUE
    /\ UNCHANGED <<cfg, github, updating, row, run, changes, faults>>

Restart ==
    /\ ~up /\ up' = TRUE
    /\ row' = IF row.phase \in InFlight
              THEN [row EXCEPT !.phase = "idle", !.cooling = TRUE] ELSE row
    /\ UNCHANGED <<cfg, github, updating, run, changes, faults>>

AuthorPushes ==
    /\ github.state = "open" /\ github.head < cfg.commits /\ Change
    /\ \E s \in {"pending", "clean"} \cap cfg.statuses :
        Moves([github EXCEPT !.head = @ + 1, !.status = s])
    /\ UNCHANGED <<cfg, updating, up, faults>>

UpdateLands ==
    /\ updating /\ updating' = FALSE
    /\ IF github.state = "open" /\ github.head < cfg.commits
       THEN Moves([github EXCEPT !.head = @ + 1, !.status = "pending"])
       ELSE UNCHANGED <<github, row, run>>
    /\ UNCHANGED <<cfg, up, changes, faults>>

\* Checks, reviews, the base and GitHub's own computation.
StatusMoves ==
    /\ github.state = "open"
    /\ \E s \in cfg.statuses \ {github.status} :
        Moves([github EXCEPT !.status = s])
    /\ UNCHANGED <<cfg, updating, up, changes, faults>>

AutoMergeFires ==
    /\ github.state = "open" /\ github.auto /\ github.status = "clean"
    /\ Moves([github EXCEPT !.state = "merged"])
    /\ UNCHANGED <<cfg, updating, up, changes, faults>>

\* On GitHub's page: auto-merge switched, the pull request closed or reopened.
UserActs ==
    /\ github.state # "merged" /\ Change
    /\ \/ Moves([github EXCEPT !.state = IF @ = "open" THEN "closed" ELSE "open"])
       \/ github.state = "open" /\ Moves([github EXCEPT !.auto = ~@])
    /\ UNCHANGED <<cfg, updating, up, faults>>

Next ==
    \/ StartCycle \/ Skip
    \/ \E e \in Evaluators : Evaluation(e)
    \/ CoolingEnds \/ Operator \/ Crash \/ Restart
    \/ AuthorPushes \/ UpdateLands \/ StatusMoves \/ AutoMergeFires \/ UserActs

\* The loop's ticker and its goroutine, the clock, and a supervisor that
\* starts the daemon again.
Fairness ==
    /\ WF_vars(StartCycle \/ Skip \/ Evaluation(Tick))
    /\ WF_vars(CoolingEnds) /\ WF_vars(Restart)

Spec == Init /\ [][Next]_vars /\ Fairness

-----------------------------------------------------------------------------
\* A direct merge lands the commit the decision was made for and was checked
\* again for, however many commits the author pushes meanwhile.
MergesDecidedCommit ==
    [][\A e \in Evaluators :
        run[e].pc = "disarmed" /\ github.state = "open" /\ github'.state = "merged"
        /\ run'[e].pc # "disarmed"
        => github.head = run[e].st.head]_vars

\* A row in a phase that keeps every later action out although no action is
\* under way: only a restart, or an evaluation an operator asks for that finds
\* the pull request closed or merged, takes it out again.
Owned == \/ run[Tick].pc \in Acting
         \/ run[Tick].pc = "claimed" /\ run[Tick].action # "arm"
Stranded == up /\ row.phase \in InFlight /\ ~Owned

\* "In flight" means that an action is: not so once a dry run records its
\* decision late (store/merge_tracking.go, the constants' comments).
InFlightOwned == ~Stranded

\* Whatever fails, is refused or dies, an action's claim ends with it: only a
\* decision recorded late, whose row was read while another action was under
\* way, leaves a row stranded.
ClaimsOwned ==
    [][~Stranded /\ Stranded' =>
        \E e \in Evaluators : /\ run[e].pc = "decided" /\ run[e].phase \in InFlight
                              /\ run'[e].pc # "decided"]_vars

\* A pull request that is ready for good is merged, through failed passes,
\* arming, dry runs and restarts, unless its merge attempts are used up or its
\* row is stranded for good.
ReadyForGood ==
    /\ github.state = "open" /\ github.status = "clean" /\ ~updating
    /\ cfg.merge /\ ~cfg.queue /\ ~cfg.watchOnly
    /\ ~row.excluded /\ row.attempts["merge"] < MaxAttempts

ReadyMerges == ~<>[](ReadyForGood /\ ~Stranded)

\* What GitHub merged ends as merged in the table, or pruned, however the
\* answer was lost and whatever a dry run recorded later, but for a row that is
\* excluded or stranded.
MergedSettles ==
    <>[](github.state = "merged" =>
            \/ row.excluded \/ Stranded
            \/ row.phase \in {"merged", "abandoned", "absent"})
=============================================================================
