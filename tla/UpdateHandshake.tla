--------------------------- MODULE UpdateHandshake ---------------------------
(***************************************************************************)
(* One application update, end to end: the desktop updater                 *)
(* (flutter_app/lib/core/platform/linux_app_updater.dart), its durable     *)
(* recovery journal, the daemon binary it replaces, and the work gate of   *)
(* WorkGate.tla behind the daemon's /update endpoints                      *)
(* (daemon/internal/server/handlers.go).                                   *)
(*                                                                         *)
(* App and daemon die and restart independently, replies are lost, and     *)
(* every file operation may fail.  A starting daemon reads the journal     *)
(* first (daemon/internal/workgate/recovery_journal.go).                   *)
(***************************************************************************)
EXTENDS WorkGate

CONSTANT MaxBoots       \* bound on daemon starts

ASSUME BootsAssumption == MaxBoots \in Nat

VARIABLES
    app,        \* the updater's local state
    journal,    \* app-update-recovery.json
    binary,     \* version of the daemon binary on disk
    version,    \* version of the running daemon process
    boot,       \* identity (PID and boot id) of the running daemon process
    used,       \* leases already taken (they are fresh UUIDs)
    verified,   \* history: versions of which the updater, having confirmed it,
                \* saw a healthy daemon since the install began
    failed,     \* history: the installation reported a failure
    cleared     \* history: phase of the journal file last deleted

appVars == <<app, journal, binary, used, verified, failed, cleared>>
allVars == <<vars, app, journal, binary, version, boot, used, verified, failed, cleared>>

---------------------------------------------------------------------------
\* State

Phases == {"none", "preparing", "sealed", "installing"}

NoJournal == [phase |-> "none", lease |-> NoLease]

Versions == {"old", "new"}

InstallSteps == {"draining", "journaling", "sealing", "recordSealed",
                 "stopping", "awaitExit", "recordInstalling", "installing"}

RecoverySteps == {"attach", "rollback", "reseal", "confirm", "health",
                  "release", "clear"}

AppSteps == {"off", "idle", "blocked", "restarting"}
            \cup InstallSteps \cup RecoverySteps

Apps == [pc: AppSteps, lease: Lease \cup {NoLease}, phase: Phases,
         expects: Versions, boot: 0..MaxBoots, launching: BOOLEAN]

AppOff == [pc |-> "off", lease |-> NoLease, phase |-> "none",
           expects |-> "old", boot |-> 0, launching |-> FALSE]

Goto(pc) == app' = [app EXCEPT !.pc = pc]

\* What an exception does.  During an installation it starts the recovery of
\* the journal held in memory, if there is one; a recovery that fails keeps
\* the journal file for the next launch.
Fail ==
    app' = IF app.pc \in InstallSteps
           THEN IF app.phase = "none" THEN [app EXCEPT !.pc = "idle"]
                ELSE [app EXCEPT !.pc = "attach", !.expects = "old"]
           ELSE [app EXCEPT !.pc = IF app.launching THEN "blocked" ELSE "idle"]

\* _writeJournal: the file is replaced or left alone, and an error may be
\* reported in either case.  The phase in memory has already advanced.
WriteJournal(phase, next) ==
    LET entry == [phase |-> phase, lease |-> app.lease]
        app1  == [app EXCEPT !.phase = phase]
    IN  \/ journal' = entry /\ app' = [app1 EXCEPT !.pc = next]
        \/ /\ journal' \in {journal, entry}
           /\ app' = [app1 EXCEPT !.pc = "attach", !.expects = "old"]

---------------------------------------------------------------------------
\* Requests.  The daemon performs the call; the updater acts on the reply or
\* takes an exception because it was an error or was lost.

DaemonUntouched == UNCHANGED <<vars, version, boot>>

Reply(result, onOk) == (result = "ok" /\ onOk) \/ Fail

\* Requests that name the expected boot id are refused by any other process.
AtBoot(call) == IF Serving /\ boot = app.boot THEN call ELSE FALSE

Refused ==
    /\ app.pc \in {"rollback", "confirm", "release"}
    /\ Serving /\ boot # app.boot
    /\ Fail
    /\ DaemonUntouched
    /\ UNCHANGED <<journal, binary, used, verified, failed, cleared>>

\* A timeout, a refused connection, or a daemon that is already stopping.
GiveUp ==
    /\ app.pc \in (InstallSteps \cup RecoverySteps) \ {"installing"}
    /\ Fail
    /\ DaemonUntouched
    /\ UNCHANGED <<journal, binary, used, verified, failed, cleared>>

---------------------------------------------------------------------------
\* installAvailableUpdate

StartInstall(l) ==
    /\ app.pc = "idle" /\ binary = "old" /\ l \notin used
    /\ app' = [AppOff EXCEPT !.pc = "draining", !.lease = l]
    /\ used' = used \cup {l} /\ verified' = {} /\ failed' = FALSE
    /\ DaemonUntouched /\ UNCHANGED <<journal, binary, cleared>>

\* _drainDaemon polls until the same process reports no active work.
Drain(result) ==
    /\ app.pc = "draining"
    /\ Prepare(app.lease, result)
    /\ Reply(result,
             /\ app.boot \in {0, boot}
             /\ app' = [app EXCEPT !.boot = boot,
                        !.pc = IF Idle THEN "journaling" ELSE "draining"])
    /\ UNCHANGED <<version, boot, journal, binary, used, verified, failed, cleared>>

RecordPreparing ==
    /\ app.pc = "journaling"
    /\ WriteJournal("preparing", "sealing")
    /\ DaemonUntouched /\ UNCHANGED <<binary, used, verified, failed, cleared>>

SealDaemon(result) ==
    /\ app.pc = "sealing"
    /\ Seal(app.lease, result)
    /\ Reply(result, boot = app.boot /\ Goto("recordSealed"))
    /\ UNCHANGED <<version, boot, journal, binary, used, verified, failed, cleared>>

RecordSealed ==
    /\ app.pc = "recordSealed"
    /\ WriteJournal("sealed", "stopping")
    /\ DaemonUntouched /\ UNCHANGED <<binary, used, verified, failed, cleared>>

\* POST /shutdown only queues the shutdown: the process may die (Crash) any
\* time, and the updater polls its PID.
RequestShutdown ==
    /\ app.pc = "stopping" /\ Serving
    /\ Goto("awaitExit")
    /\ DaemonUntouched /\ UNCHANGED <<journal, binary, used, verified, failed, cleared>>

DaemonGone ==
    /\ app.pc = "awaitExit"
    /\ proc = "down" \/ boot # app.boot
    /\ Goto("recordInstalling")
    /\ DaemonUntouched /\ UNCHANGED <<journal, binary, used, verified, failed, cleared>>

\* Mutant: installs without advancing the journal.
RecordNothing ==
    /\ app.pc = "recordInstalling"
    /\ Goto("installing")
    /\ DaemonUntouched /\ UNCHANGED <<journal, binary, used, verified, failed, cleared>>

RecordInstalling ==
    /\ app.pc = "recordInstalling"
    /\ WriteJournal("installing", "installing")
    /\ DaemonUntouched /\ UNCHANGED <<binary, used, verified, failed, cleared>>

\* The package manager or the AppImage replacement may fail before or after
\* the binary changed.
InstallAsset ==
    /\ app.pc = "installing"
    /\ \/ binary' = "new" /\ Goto("restarting") /\ UNCHANGED failed
       \/ binary' \in {binary, "new"} /\ Fail /\ failed' = TRUE
    /\ DaemonUntouched /\ UNCHANGED <<journal, used, verified, cleared>>

---------------------------------------------------------------------------
\* App lifetime

\* pendingUpdateVersion and completePendingUpdate: a journal found at launch
\* is recovered against whatever version is on disk.
Launch ==
    /\ app.pc = "off"
    /\ app' = IF journal = NoJournal THEN [AppOff EXCEPT !.pc = "idle"]
              ELSE [pc |-> "attach", lease |-> journal.lease,
                    phase |-> journal.phase, expects |-> binary,
                    boot |-> 0, launching |-> TRUE]
    /\ DaemonUntouched /\ UNCHANGED <<journal, binary, used, verified, failed, cleared>>

\* A crash, or the restart that ends an installation.
AppExit ==
    /\ app.pc # "off"
    /\ app' = AppOff
    /\ DaemonUntouched /\ UNCHANGED <<journal, binary, used, verified, failed, cleared>>

---------------------------------------------------------------------------
\* _recoverBarrier

\* _waitForDaemon, which retries once it has started the daemon itself, and
\* the decision on the status it returns.
Attach(result) ==
    /\ app.pc = "attach"
    /\ Prepare(app.lease, result)
    /\ \/ Reply(result,
             /\ version = app.expects
             /\ app' = [app EXCEPT !.boot = boot,
                        !.pc = IF gate'.sealed THEN "confirm"
                               ELSE IF app.phase = "preparing" /\ app.expects = "old"
                               THEN "rollback" ELSE "reseal"])
       \/ UNCHANGED app
    /\ UNCHANGED <<version, boot, journal, binary, used, verified, failed, cleared>>

\* An unsealed old daemon needs no confirmation.
Rollback(result) ==
    /\ app.pc = "rollback"
    /\ AtBoot(Cancel(app.lease, result))
    /\ Reply(result, Goto("clear"))
    /\ UNCHANGED <<version, boot, journal, binary, used, verified, failed, cleared>>

Reseal(result) ==
    /\ app.pc = "reseal"
    /\ Seal(app.lease, result)
    /\ Reply(result, app' = [app EXCEPT !.boot = boot, !.pc = "confirm"])
    /\ UNCHANGED <<version, boot, journal, binary, used, verified, failed, cleared>>

Confirm(result) ==
    /\ app.pc = "confirm"
    /\ AtBoot(ConfirmBootstrap(app.lease, result))
    /\ Reply(result, Goto("health"))
    /\ UNCHANGED <<version, boot, journal, binary, used, verified, failed, cleared>>

SeeHealthy ==
    /\ app.pc = "health"
    /\ proc = "running" /\ version = app.expects
    /\ Goto("release")
    /\ verified' = verified \cup {version}
    /\ DaemonUntouched /\ UNCHANGED <<journal, binary, used, failed, cleared>>

ReleaseBarrier(result) ==
    /\ app.pc = "release"
    /\ AtBoot(Cancel(app.lease, result))
    /\ Reply(result, Goto("clear"))
    /\ UNCHANGED <<version, boot, journal, binary, used, verified, failed, cleared>>

\* _clearJournal, or finalizePendingUpdate after a launch.
ClearJournal ==
    /\ app.pc = "clear"
    /\ \/ journal' = NoJournal /\ Goto("idle") /\ cleared' = journal.phase
       \/ UNCHANGED <<journal, cleared>> /\ Fail
    /\ DaemonUntouched /\ UNCHANGED <<binary, used, verified, failed>>

---------------------------------------------------------------------------
\* Daemon lifetime

\* Mutant: rebuilds the seal of any journal.
AnyJournalRequiresBarrier == journal.phase # "none"

\* RestoreDesktopRecoveryBarrier: a journal that says preparing or sealed is
\* turned into a durable seal of its lease; "installing" is left alone.
JournalRequiresBarrier == journal.phase \in {"preparing", "sealed"}

RecoveryOutcomes ==
    IF ~JournalRequiresBarrier THEN {[ok |-> TRUE, disk |-> disk]}
    ELSE UNION {
        IF ~r.ok \/ (r.gate.draining /\ r.gate.lease # journal.lease)
        THEN {[ok |-> FALSE, disk |-> r.disk]}
        ELSE IF r.gate.sealed THEN {[ok |-> TRUE, disk |-> r.disk]}
        ELSE {[ok |-> TRUE, disk |-> SealMarker(journal.lease)]}
             \cup {[ok |-> FALSE, disk |-> d] :
                      d \in {r.disk, LeaseMarker(journal.lease, now + TTL),
                             SealMarker(journal.lease)}}
        : r \in RestoreOutcomes(disk)}

\* The second restore, by NewPersistent, sees what the first one left.
BootDaemon ==
    /\ proc = "down" /\ boot < MaxBoots
    /\ disk.expires <= now \/ now + TTL <= MaxTime
    /\ boot' = boot + 1 /\ version' = binary
    /\ \E b \in RecoveryOutcomes :
         IF b.ok THEN \E r \in RestoreOutcomes(b.disk) : Started(r)
         ELSE Started([ok |-> FALSE, gate |-> Open, disk |-> b.disk])
    /\ UNCHANGED appVars

DaemonStep ==
    /\ JobCall \/ Status \/ BootstrapPoll \/ Crash \/ Tick
    /\ UNCHANGED <<version, boot, app, journal, binary, used, verified, failed, cleared>>

---------------------------------------------------------------------------
HandshakeInit ==
    /\ Init
    /\ app = AppOff /\ journal = NoJournal
    /\ binary = "old" /\ version = "old" /\ boot = 0
    /\ used = {} /\ verified = {} /\ failed = FALSE /\ cleared = "none"

Request(result) ==
    \/ Drain(result) \/ SealDaemon(result) \/ Attach(result) \/ Rollback(result)
    \/ Reseal(result) \/ Confirm(result) \/ ReleaseBarrier(result)

HandshakeNext ==
    \/ \E l \in Lease : StartInstall(l)
    \/ \E result \in Results : Request(result)
    \/ RecordPreparing \/ RecordSealed \/ RecordInstalling
    \/ RequestShutdown \/ DaemonGone \/ InstallAsset
    \/ SeeHealthy \/ ClearJournal \/ Refused \/ GiveUp
    \/ Launch \/ AppExit
    \/ BootDaemon \/ DaemonStep

HandshakeSpec == HandshakeInit /\ [][HandshakeNext]_allVars

---------------------------------------------------------------------------
\* Properties

HandshakeTypeOK ==
    /\ TypeOK
    /\ app \in Apps
    /\ journal \in [phase: Phases, lease: Lease \cup {NoLease}]
    /\ binary \in Versions /\ version \in Versions
    /\ boot \in 0..MaxBoots
    /\ used \subseteq Lease
    /\ verified \subseteq Versions /\ failed \in BOOLEAN /\ cleared \in Phases

\* From the moment the updater saw the daemon go until its restart, no daemon,
\* however often it is respawned, runs protected work while the binary is
\* being replaced (linux_app_updater.dart, installAvailableUpdate).
InstallQuiet ==
    app.pc \in {"recordInstalling", "installing", "restarting"}
        => \A j \in Job : ~Live(j)

\* No daemon of the new version works before the updater confirmed a daemon of
\* that version and saw it healthy, whichever side crashed on the way
\* (linux_app_updater.dart, _recoverBarrier; gate.go, ConfirmBootstrap).  An
\* installation that fails with the binary already replaced is recovered with
\* the daemon that runs, an old one (line 472): once that one was confirmed the
\* barrier is gone, and the new binary works unconfirmed when it is started.
ReplacementVerified ==
    version = "new" /\ (\E j \in Job : Live(j))
        => "new" \in verified \/ (failed /\ "old" \in verified)

\* The order of the install steps survives recovery: the journal file says
\* "installing" whenever the new binary is in place and recovery is pending
\* (linux_app_updater.dart, installAvailableUpdate).
ReplacedMeansInstalling ==
    binary = "new" /\ journal # NoJournal => journal.phase = "installing"

\* recovery_journal.go:42-46: deleting a journal in phase "installing" never
\* leaves a seal that no journal owns.
InstallingNeverOwnerless ==
    journal = NoJournal /\ app.pc \in {"idle", "off"} /\ cleared = "installing"
        => ~disk.sealed

=============================================================================
