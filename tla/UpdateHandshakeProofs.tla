----------------------- MODULE UpdateHandshakeProofs -----------------------
(***************************************************************************)
(* Proofs about the update of the desktop application, for every set of    *)
(* leases, kinds of work and jobs and any number of starts: no daemon      *)
(* works while its binary is replaced or before the updater confirmed one, *)
(* and no seal is left behind by an installation that ended.               *)
(***************************************************************************)
EXTENDS UpdateHandshake, WorkGateProofs

\* The daemon the updater talks to is the process it attached to.
Attached == Serving /\ boot = app.boot

\* The steps during which the daemon is sealed for the installation.
SealedSteps == {"recordSealed", "stopping", "awaitExit", "recordInstalling",
                "installing", "restarting"}

\* Whose leases the app, the journal, the gate and its marker hold, and that
\* a process the app knows has been started.
Leases ==
    /\ app.pc \in InstallSteps \cup RecoverySteps \cup {"restarting"} => app.lease \in used
    /\ journal.phase = "none" => journal = NoJournal
    /\ journal.phase # "none" => journal.lease \in used
    /\ gate.lease \in used \cup {NoLease} /\ disk.lease \in used \cup {NoLease}
    /\ app.boot <= boot

\* What the journal, in memory and on disk, says at each step.
Journaled ==
    /\ app.pc \in {"draining", "journaling"} => app.phase = "none"
    /\ app.pc \in {"sealing", "recordSealed"} =>
          app.phase = "preparing" /\ journal.phase = "preparing"
    /\ app.pc \in {"stopping", "awaitExit", "recordInstalling"} =>
          app.phase = "sealed" /\ journal.phase = "sealed"
    /\ app.pc \in {"installing", "restarting"} =>
          app.phase = "installing" /\ journal.phase = "installing"
    /\ app.pc \in RecoverySteps /\ journal = NoJournal =>
          app.phase = "preparing" /\ app.expects = "old"
    /\ app.pc = "rollback" => app.phase = "preparing"
    /\ app.pc = "reseal" => ~(app.phase = "preparing" /\ app.expects = "old")

\* What ends the barrier behind a replaced binary: the updater confirmed a
\* daemon of the new version, or one of the old version after an installation
\* that failed.
Confirmed == "new" \in verified \/ (failed /\ "old" \in verified)

\* The new binary is in place only from the end of an installation on, and
\* until the updater confirmed a daemon a seal holds.  It recovers with an old
\* daemon only once the installation failed.
Replaced ==
    /\ version = "new" => binary = "new"
    /\ binary = "new" =>
          /\ app.pc \notin InstallSteps
          /\ journal # NoJournal => journal.phase = "installing"
          /\ app.pc \in RecoverySteps =>
                app.phase = "installing" /\ (app.expects = "old" => failed)
    /\ app.pc = "release" => app.expects \in verified
    /\ binary = "new" /\ ~Confirmed => \E l \in Lease : HoldsSeal(l)

\* The seal of an installation holds until the app restarts, and only a
\* confirmed process is released.
Secured ==
    /\ app.pc \in SealedSteps => HoldsSeal(app.lease)
    /\ app.pc \in InstallSteps \cup {"restarting"} /\ gate.lease = app.lease =>
          ~gate.authorized
    /\ app.pc = "rollback" /\ Attached => ~gate.sealed /\ ~disk.sealed
    /\ app.pc \in {"health", "release"} /\ Attached =>
          Owns(gate, app.lease) /\ gate.sealed /\ gate.authorized

\* Behind an installation that ended no seal is left.
Ended ==
    \/ journal = NoJournal /\ cleared = "installing"
    \/ app.pc = "clear" /\ journal.phase = "installing"
    => ~gate.sealed /\ ~disk.sealed

\* The inductive invariant.
HandshakeInv ==
    Inv /\ HandshakeTypeOK /\ Leases /\ Journaled /\ Replaced /\ Secured /\ Ended

---------------------------------------------------------------------------
\* What the daemon's calls do to a gate that is sealed and to one that is not.

\* Expiry leaves a seal alone, and opens anything else or leaves it alone.
LEMMA ExpireEffect ==
    ASSUME NEW e \in ExpireOutcomes
    PROVE  /\ gate.sealed => e.gate = gate /\ e.disk = disk
           /\ e.gate \in {gate, Open} /\ e.disk \in {disk, NoMarker}
           /\ e.gate.draining => e.gate = gate /\ e.disk = disk
BY ExpireCases, Fields DEF Expired

\* Prepare
LEMMA PrepareEffect ==
    ASSUME Inv, NEW l, NEW result, Prepare(l, result)
    PROVE  /\ gate.sealed => gate' = gate /\ disk' = disk
           /\ gate' \in {gate, Open, Draining(l, now + TTL)}
           /\ disk' \in {disk, NoMarker, LeaseMarker(l, now + TTL)}
           /\ result = "ok" => gate'.sealed \/ ~disk'.sealed
           /\ proc # "down"
<1>1. PICK e \in ExpireOutcomes :
        \/ result # "ok" /\ gate' = e.gate /\ disk' = e.disk
        \/ e.gate.sealed /\ gate' = e.gate /\ disk' = e.disk
        \/ /\ ~e.gate.draining \/ ~e.gate.sealed
           /\ \E p \in PersistOutcomes(e.disk, LeaseMarker(l, now + TTL)) :
                /\ result = IF p.ok THEN "ok" ELSE "failed"
                /\ gate' = IF p.ok THEN Draining(l, now + TTL) ELSE e.gate
                /\ disk' = p.disk
  BY DEF Prepare
<1>2. CASE gate' = e.gate /\ disk' = e.disk /\ (result # "ok" \/ e.gate.sealed)
  BY <1>2, ExpireEffect DEF Prepare, Serving
<1>3. CASE /\ ~e.gate.draining \/ ~e.gate.sealed
           /\ \E p \in PersistOutcomes(e.disk, LeaseMarker(l, now + TTL)) :
                /\ result = IF p.ok THEN "ok" ELSE "failed"
                /\ gate' = IF p.ok THEN Draining(l, now + TTL) ELSE e.gate
                /\ disk' = p.disk
  <2>1. PICK p \in PersistOutcomes(e.disk, LeaseMarker(l, now + TTL)) :
                /\ result = IF p.ok THEN "ok" ELSE "failed"
                /\ gate' = IF p.ok THEN Draining(l, now + TTL) ELSE e.gate
                /\ disk' = p.disk
    BY <1>3
  <2>2. p.ok => p.disk = LeaseMarker(l, now + TTL)
    BY PersistCases
  <2>3. p.disk \in {e.disk, LeaseMarker(l, now + TTL)}
    BY PersistCases
  <2>4. ~gate.sealed
    BY <1>3, ExpireEffect DEF Inv, Shape
  <2> QED
    BY <2>1, <2>2, <2>3, <2>4, ExpireEffect, Fields DEF Prepare, Serving
<1> QED
  BY <1>1, <1>2, <1>3

\* Seal
LEMMA SealEffect ==
    ASSUME Inv, NEW l, NEW result, Seal(l, result)
    PROVE  /\ gate.sealed => gate' = gate /\ disk' = disk
           /\ gate' \in {gate, Open, Sealed(l)}
           /\ disk' \in {disk, NoMarker, SealMarker(l)}
           /\ result = "ok" => gate'.sealed /\ gate'.lease = l
           /\ proc # "down"
<1>1. PICK e \in ExpireOutcomes :
        \/ result # "ok" /\ gate' = e.gate /\ disk' = e.disk
        \/ Owns(e.gate, l) /\ e.gate.sealed /\ gate' = e.gate /\ disk' = e.disk
        \/ /\ ~e.gate.sealed /\ Owns(e.gate, l)
           /\ \E p \in PersistOutcomes(e.disk, SealMarker(l)) :
                /\ result = IF p.ok THEN "ok" ELSE "failed"
                /\ gate' = IF p.ok THEN Sealed(l) ELSE e.gate
                /\ disk' = p.disk
  BY DEF Seal
<1>2. CASE gate' = e.gate /\ disk' = e.disk /\ (result # "ok" \/ (Owns(e.gate, l) /\ e.gate.sealed))
  BY <1>2, ExpireEffect DEF Seal, Serving, Owns
<1>3. CASE /\ ~e.gate.sealed /\ Owns(e.gate, l)
           /\ \E p \in PersistOutcomes(e.disk, SealMarker(l)) :
                /\ result = IF p.ok THEN "ok" ELSE "failed"
                /\ gate' = IF p.ok THEN Sealed(l) ELSE e.gate
                /\ disk' = p.disk
  <2>1. PICK p \in PersistOutcomes(e.disk, SealMarker(l)) :
                /\ result = IF p.ok THEN "ok" ELSE "failed"
                /\ gate' = IF p.ok THEN Sealed(l) ELSE e.gate
                /\ disk' = p.disk
    BY <1>3
  <2>2. p.disk \in {e.disk, SealMarker(l)}
    BY PersistCases
  <2>3. ~gate.sealed /\ proc # "down"
    BY <1>3, ExpireEffect DEF Owns, Seal, Serving
  <2>4. e.gate \in {gate, Open} /\ e.disk \in {disk, NoMarker}
    BY ExpireEffect
  <2>5. Sealed(l).sealed /\ Sealed(l).lease = l
    BY DEF Sealed, Draining, Open
  <2> QED
    BY <2>1, <2>2, <2>3, <2>4, <2>5
<1> QED
  BY <1>1, <1>2, <1>3

\* ConfirmBootstrap
LEMMA ConfirmEffect ==
    ASSUME Inv, NEW l, NEW result, ConfirmBootstrap(l, result)
    PROVE  /\ \/ gate' \in {gate, Open} /\ disk' \in {disk, NoMarker} /\ result # "ok"
              \/ gate.sealed /\ gate' = [gate EXCEPT !.authorized = TRUE]
           /\ gate.sealed => disk' = disk /\ gate' \in {gate, [gate EXCEPT !.authorized = TRUE]}
           /\ result = "ok" => gate.sealed /\ Owns(gate, l)
           /\ proc # "down"
<1>1. PICK e \in ExpireOutcomes :
        /\ disk' = e.disk
        /\ \/ result # "ok" /\ gate' = e.gate
           \/ e.gate.sealed /\ Owns(e.gate, l) /\ gate' = [e.gate EXCEPT !.authorized = TRUE]
  BY DEF ConfirmBootstrap
<1>2. CASE result # "ok" /\ gate' = e.gate
  BY <1>1, <1>2, ExpireEffect DEF ConfirmBootstrap, Serving
<1>3. CASE e.gate.sealed /\ Owns(e.gate, l) /\ gate' = [e.gate EXCEPT !.authorized = TRUE]
  <2>1. e.gate = gate /\ e.disk = disk
    BY <1>3, ExpireEffect DEF Owns
  <2> QED
    BY <1>1, <1>3, <2>1 DEF ConfirmBootstrap, Serving
<1> QED
  BY <1>1, <1>2, <1>3

\* Cancel
LEMMA CancelEffect ==
    ASSUME Inv, NEW l, NEW result, Cancel(l, result)
    PROVE  /\ gate' \in {gate, Open} /\ disk' \in {disk, NoMarker}
           /\ gate.sealed /\ ~gate.authorized => gate' = gate /\ disk' = disk
           /\ result = "ok" => gate' = Open
           /\ result = "ok" /\ Owns(gate, l) /\ gate.sealed => disk' = NoMarker
           /\ proc # "down"
<1>1. PICK e \in ExpireOutcomes :
        \/ ~e.gate.draining /\ gate' = e.gate /\ disk' = e.disk
        \/ result # "ok" /\ gate' = e.gate /\ disk' = e.disk
        \/ /\ Owns(e.gate, l) /\ (e.gate.sealed => e.gate.authorized)
           /\ \E r \in RemoveOutcomes(e.disk) :
                /\ result = IF r.ok THEN "ok" ELSE "failed"
                /\ gate' = IF r.ok THEN Open ELSE e.gate
                /\ disk' = r.disk
  BY DEF Cancel
<1>2. CASE ~e.gate.draining /\ gate' = e.gate /\ disk' = e.disk
  <2>1. e.gate = Open /\ ~gate.sealed
    BY <1>2, ExpireEffect DEF Inv, Shape
  <2> QED
    BY <1>2, <2>1, ExpireEffect DEF Cancel, Serving
<1>3. CASE result # "ok" /\ gate' = e.gate /\ disk' = e.disk
  BY <1>3, ExpireEffect DEF Cancel, Serving
<1>4. CASE /\ Owns(e.gate, l) /\ (e.gate.sealed => e.gate.authorized)
           /\ \E r \in RemoveOutcomes(e.disk) :
                /\ result = IF r.ok THEN "ok" ELSE "failed"
                /\ gate' = IF r.ok THEN Open ELSE e.gate
                /\ disk' = r.disk
  <2>1. e.gate = gate /\ e.disk = disk
    BY <1>4, ExpireEffect DEF Owns
  <2>2. PICK r \in PersistOutcomes(disk, NoMarker) :
                /\ result = IF r.ok THEN "ok" ELSE "failed"
                /\ gate' = IF r.ok THEN Open ELSE gate
                /\ disk' = r.disk
    BY <1>4, <2>1 DEF RemoveOutcomes
  <2>3. (r.ok => r.disk = NoMarker) /\ r.disk \in {disk, NoMarker}
    BY PersistCases
  <2> QED
    BY <1>4, <2>1, <2>2, <2>3 DEF Cancel, Serving
<1> QED
  BY <1>1, <1>2, <1>3, <1>4

\* The daemon's own steps: jobs, polls, time and its death.
LEMMA DaemonEffect ==
    ASSUME Inv, DaemonStep
    PROVE  /\ gate.sealed => disk' = disk /\ (gate' = gate \/ proc' = "down")
           /\ proc' = "down" => gate' = Open \/ (gate' = gate /\ proc = "down")
           /\ proc = "down" => proc' = "down" /\ disk' = disk
           /\ gate' \in {gate, Open} /\ disk' \in {disk, NoMarker}
<1>1. CASE \E e \in ExpireOutcomes : gate' = e.gate /\ disk' = e.disk /\ proc # "down" /\ proc' # "down"
  BY <1>1, ExpireEffect
<1>2. CASE UNCHANGED <<proc, gate, disk>>
  BY <1>2
<1>3. CASE Crash
  BY <1>3 DEF Crash
<1>4. JobCall => UNCHANGED <<proc, gate, disk>>
          \/ \E e \in ExpireOutcomes : gate' = e.gate /\ disk' = e.disk /\ proc # "down" /\ proc' # "down"
  BY DEF JobCall, Release, Acquire
<1>5. Status \/ BootstrapPoll =>
        \E e \in ExpireOutcomes : gate' = e.gate /\ disk' = e.disk /\ proc # "down" /\ proc' # "down"
  BY DEF Status, BootstrapPoll, Serving
<1> QED
  BY <1>1, <1>2, <1>3, <1>4, <1>5 DEF DaemonStep, Tick

\* A start of the daemon: what RestoreDesktopRecoveryBarrier and the restore
\* after it make of the marker.
LEMMA StartEffect ==
    ASSUME Inv, HandshakeTypeOK, Leases, BootDaemon
    PROVE  /\ Inv' /\ proc = "down"
           /\ disk.sealed => disk' = disk /\ gate' \in {Open, Sealed(disk.lease)}
                             /\ (gate' = Open => proc' = "down")
           /\ ~disk.sealed /\ ~JournalRequiresBarrier => ~gate'.sealed /\ ~disk'.sealed
           /\ ~gate'.authorized
           /\ {gate'.lease, disk'.lease} \subseteq used \cup {NoLease}
<1>1. /\ proc = "down" /\ Marker(disk) /\ gate = Open
      /\ disk.lease \in used \cup {NoLease} /\ (disk.sealed => disk.lease # NoLease)
  BY DiskMarker, LeaseAssumption DEF BootDaemon, Inv, Shape, Leases
<1>2. journal.phase # "none" => journal.lease \in used /\ journal.lease \in Lease
  BY DEF Leases, HandshakeTypeOK
<1>3. PICK b \in RecoveryOutcomes :
         IF b.ok THEN \E r \in RestoreOutcomes(b.disk) : Started(r)
         ELSE Started([ok |-> FALSE, gate |-> Open, disk |-> b.disk])
  BY DEF BootDaemon
<1>4. /\ Marker(b.disk) /\ b.disk.lease \in used \cup {NoLease}
      /\ disk.sealed => b.disk = disk
      /\ ~JournalRequiresBarrier => b.disk = disk
  <2>1. CASE ~JournalRequiresBarrier
    BY <1>1, <2>1 DEF RecoveryOutcomes
  <2>2. CASE JournalRequiresBarrier
    <3>1. journal.lease \in used /\ journal.lease \in Lease
      BY <1>2, <2>2 DEF JournalRequiresBarrier
    <3>2. PICK r \in RestoreOutcomes(disk) :
             b \in (IF ~r.ok \/ (r.gate.draining /\ r.gate.lease # journal.lease)
                   THEN {[ok |-> FALSE, disk |-> r.disk]}
                   ELSE IF r.gate.sealed THEN {[ok |-> TRUE, disk |-> r.disk]}
                   ELSE {[ok |-> TRUE, disk |-> SealMarker(journal.lease)]}
                        \cup {[ok |-> FALSE, disk |-> d] :
                                 d \in {r.disk, LeaseMarker(journal.lease, now + TTL),
                                        SealMarker(journal.lease)}})
      BY <2>2 DEF RecoveryOutcomes
    <3>3. /\ b.disk \in {r.disk, SealMarker(journal.lease),
                          LeaseMarker(journal.lease, now + TTL)}
          /\ r.ok /\ r.gate.sealed => b.disk = r.disk
          /\ ~r.ok => b.disk = r.disk
      BY <3>2
    <3>4. now + TTL \in Nat
      BY TimeAssumption DEF Inv, TypeOK
    <3>5. /\ Marker(r.disk) /\ r.disk.lease \in used \cup {NoLease}
          /\ disk.sealed => r.disk = disk /\ r.gate.sealed
      <4>1. Sealed(disk.lease).sealed /\ NoMarker.lease = NoLease
        BY DEF Sealed, Draining, Open, NoMarker
      <4>2. \A t \in Nat, l \in Lease : Marker(LeaseMarker(l, t))
        BY Values, Fields, LeaseAssumption DEF Marker
      <4>3. Marker(NoMarker)
        BY Values, Fields DEF Marker
      <4> QED
        BY <1>1, <3>4, <4>1, <4>2, <4>3, RestoreCases, Fields
    <3>6. /\ Marker(SealMarker(journal.lease)) /\ SealMarker(journal.lease).lease = journal.lease
          /\ Marker(LeaseMarker(journal.lease, now + TTL))
          /\ LeaseMarker(journal.lease, now + TTL).lease = journal.lease
      BY <3>1, <3>4, Values, Fields, LeaseAssumption DEF Marker, SealMarker
    <3>7. Marker(b.disk) /\ b.disk.lease \in used \cup {NoLease}
      BY <3>1, <3>3, <3>5, <3>6
    <3> QED
      BY <2>2, <3>3, <3>5, <3>7
  <2> QED
    BY <2>1, <2>2
<1>5. CASE ~b.ok
  <2>1. Started([ok |-> FALSE, gate |-> Open, disk |-> b.disk])
    BY <1>3, <1>5
  <2>2. gate' = Open /\ disk' = b.disk /\ proc' = "down" /\ UNCHANGED <<active, permit, now>>
    BY <2>1 DEF Started
  <2>3. Inv'
    BY <1>1, <1>4, <2>2, Values, Fields
       DEF Inv, TypeOK, Shape, Marker, AccountingExact, SealedIdle, SealDurable, LiveOf, Live
  <2> QED
    BY <1>1, <1>4, <2>2, <2>3, Fields DEF Open
<1>6. CASE b.ok
  <2>1. PICK r \in RestoreOutcomes(b.disk) : Started(r)
    BY <1>3, <1>6
  <2>2. Inv'
    BY <1>1, <1>4, <2>1, StartInv
  <2>3. disk' = r.disk /\ (gate' = r.gate \/ gate' = Open) /\ (r.ok => gate' = r.gate)
        /\ (~r.ok => proc' = "down")
    BY <2>1 DEF Started
  <2>4. /\ Sealed(disk.lease).sealed /\ ~Sealed(disk.lease).authorized
        /\ Sealed(b.disk.lease).lease = b.disk.lease /\ ~Sealed(b.disk.lease).authorized
        /\ Open.lease = NoLease /\ NoMarker.lease = NoLease
        /\ Sealed(disk.lease) # Open
    BY DEF Sealed, Draining, Open, NoMarker
  <2> QED
    BY <1>1, <1>4, <2>1, <2>2, <2>3, <2>4, RestoreCases, Fields
<1> QED
  BY <1>5, <1>6

---------------------------------------------------------------------------
\* The steps of the daemon.

\* A step of the daemon that keeps seals, authorizes nobody and keeps an
\* attached process as it is, keeps the invariant.
LEMMA DaemonKeeps ==
    ASSUME HandshakeInv, UNCHANGED appVars, Inv',
           version' \in {version, binary}, boot' \in 0..MaxBoots, boot <= boot',
           \A l \in Lease : HoldsSeal(l) => HoldsSeal(l)',
           gate'.authorized => gate.authorized /\ gate'.lease = gate.lease,
           {gate'.lease, disk'.lease} \subseteq used \cup {NoLease},
           proc' # "down" /\ boot' = app.boot =>
              /\ Attached
              /\ gate.sealed => gate' = gate
              /\ ~gate.sealed /\ ~disk.sealed => ~gate'.sealed /\ ~disk'.sealed,
           ~gate.sealed /\ ~disk.sealed /\ ~JournalRequiresBarrier
              => ~gate'.sealed /\ ~disk'.sealed
    PROVE  HandshakeInv'
<1> USE DEF HandshakeInv, appVars
<1>1. HandshakeTypeOK'
  BY DEF HandshakeTypeOK, Inv
<1>2. Leases'
  <2>1. app.boot <= boot'
    BY DEF Leases, HandshakeTypeOK, Apps
  <2> QED
    BY <2>1 DEF Leases
<1>3. Journaled'
  BY DEF Journaled
<1>4. Replaced'
  <2>1. binary = "new" /\ ~Confirmed => \E l \in Lease : HoldsSeal(l)'
    BY DEF Replaced, Confirmed
  <2> QED
    BY <2>1 DEF Replaced, Confirmed
<1>5. Secured'
  <2>1. app.pc \in SealedSteps => HoldsSeal(app.lease)'
    BY DEF Secured, SealedSteps, InstallSteps, Leases, HandshakeTypeOK
  <2>2. Attached' = (proc' # "down" /\ boot' = app.boot)
    BY DEF Attached, Serving
  <2> QED
    BY <2>1, <2>2 DEF Secured, Owns, HoldsSeal
<1>6. Ended'
  BY DEF Ended, JournalRequiresBarrier, NoJournal
<1> QED
  BY <1>1, <1>2, <1>3, <1>4, <1>5, <1>6

\* Jobs, polls, time and the death of the process.
LEMMA DaemonStepInv ==
    ASSUME HandshakeInv, DaemonStep
    PROVE  HandshakeInv'
<1>1. UNCHANGED appVars /\ version' = version /\ boot' = boot
  BY DEF DaemonStep, appVars
<1>2. Inv'
  BY NextInv DEF HandshakeInv, DaemonStep, Next
<1>3. Inv /\ Shape /\ Leases /\ gate \in Gates /\ boot \in 0..MaxBoots
  BY DEF HandshakeInv, Inv, TypeOK, HandshakeTypeOK
<1>4. \A l \in Lease : HoldsSeal(l) => HoldsSeal(l)'
  BY <1>3, DaemonEffect DEF HoldsSeal, SealMarker, Shape
<1>5. /\ gate'.authorized => gate.authorized /\ gate'.lease = gate.lease
      /\ {gate'.lease, disk'.lease} \subseteq used \cup {NoLease}
  BY <1>3, DaemonEffect, Fields DEF Leases, Open, NoMarker
<1>6. /\ proc' # "down" => proc # "down" /\ (gate.sealed => gate' = gate)
      /\ ~gate.sealed /\ ~disk.sealed => ~gate'.sealed /\ ~disk'.sealed
  BY <1>3, DaemonEffect, Fields
<1> QED
  BY <1>1, <1>2, <1>3, <1>4, <1>5, <1>6, DaemonKeeps DEF Attached, Serving

\* A start.
LEMMA BootDaemonInv ==
    ASSUME HandshakeInv, BootDaemon
    PROVE  HandshakeInv'
<1>1. UNCHANGED appVars /\ version' = binary /\ boot' = boot + 1 /\ boot < MaxBoots
  BY DEF BootDaemon, appVars
<1>2. Inv /\ HandshakeTypeOK /\ Leases /\ boot \in 0..MaxBoots /\ app.boot \in 0..MaxBoots
      /\ app.boot <= boot /\ MaxBoots \in Nat
  BY BootsAssumption DEF HandshakeInv, HandshakeTypeOK, Apps, Leases
<1>3. boot' \in 0..MaxBoots /\ boot <= boot' /\ boot' # app.boot
  BY <1>1, <1>2
<1>4. \A l \in Lease : HoldsSeal(l) => HoldsSeal(l)'
  <2>1. \A l : Sealed(l).sealed /\ Sealed(l).lease = l
    BY DEF Sealed, Draining, Open
  <2> QED
    BY <1>2, <2>1, StartEffect DEF HoldsSeal, SealMarker
<1> QED
  BY <1>1, <1>2, <1>3, <1>4, StartEffect, DaemonKeeps

---------------------------------------------------------------------------
\* The steps of the app that leave the daemon alone.

\* They leave the gate as it is.
LEMMA Untouched ==
    ASSUME HandshakeInv, DaemonUntouched
    PROVE  /\ Inv' /\ TypeOK' /\ UNCHANGED <<proc, gate, disk, version, boot>>
           /\ \A l : HoldsSeal(l)' = HoldsSeal(l)
<1>1. UNCHANGED <<proc, gate, disk, version, boot>> /\ UNCHANGED vars
  BY DEF DaemonUntouched, vars
<1> QED
  BY <1>1, NextInv DEF HandshakeInv, Inv, HoldsSeal

\* An exception: where it leads and what it leaves.
LEMMA FailEffect ==
    ASSUME app \in Apps, Fail
    PROVE  /\ app' \in Apps /\ app'.lease = app.lease /\ app'.phase = app.phase
           /\ app'.boot = app.boot
           /\ app'.pc \in {"idle", "blocked", "attach"}
           /\ app'.pc = "attach" =>
                app.pc \in InstallSteps /\ app.phase # "none" /\ app'.expects = "old"
BY DEF Fail, Apps, AppSteps, RecoverySteps, Versions

\* An exception after a call that kept the seal of an installation and sealed
\* nothing behind one that ended keeps the invariant.
LEMMA FailInv ==
    ASSUME HandshakeInv, Fail, UNCHANGED <<journal, binary, used, verified, failed, cleared>>,
           Inv', UNCHANGED <<proc, version, boot>>,
           \A l \in Lease : binary = "new" /\ ~Confirmed /\ HoldsSeal(l) => HoldsSeal(l)',
           {gate'.lease, disk'.lease} \subseteq used \cup {NoLease},
           journal = NoJournal /\ cleared = "installing" => ~gate'.sealed /\ ~disk'.sealed
    PROVE  HandshakeInv'
<1>1. app \in Apps /\ boot \in Nat /\ app.boot \in Nat /\ TypeOK'
  BY DEF HandshakeInv, HandshakeTypeOK, Apps, Inv
<1>2. HandshakeTypeOK'
  BY <1>1, FailEffect DEF HandshakeInv, HandshakeTypeOK
<1>3. Leases'
  BY <1>1, FailEffect DEF HandshakeInv, Leases, InstallSteps, RecoverySteps
<1>4. Journaled'
  BY <1>1, FailEffect DEF HandshakeInv, Journaled, InstallSteps, RecoverySteps, NoJournal
<1>5. Replaced'
  <2>1. binary = "new" /\ ~Confirmed => \E l \in Lease : HoldsSeal(l)'
    BY DEF HandshakeInv, Replaced, Confirmed
  <2> QED
    BY <1>1, <2>1, FailEffect DEF HandshakeInv, Replaced, Confirmed, InstallSteps, RecoverySteps
<1>6. Secured'
  BY <1>1, FailEffect DEF HandshakeInv, Secured, InstallSteps, RecoverySteps, SealedSteps
<1>7. Ended'
  BY <1>1, FailEffect DEF HandshakeInv, Ended
<1> QED
  BY <1>2, <1>3, <1>4, <1>5, <1>6, <1>7 DEF HandshakeInv

\* An app that is not running.
LEMMA OffFields ==
    /\ AppOff \in Apps /\ AppOff.pc = "off" /\ AppOff.phase = "none" /\ AppOff.boot = 0
    /\ AppOff.expects = "old"
BY BootsAssumption DEF AppOff, Apps, AppSteps, Phases, Versions

\* Refused and GiveUp
LEMMA GiveUpInv ==
    ASSUME HandshakeInv, Fail, DaemonUntouched,
           UNCHANGED <<journal, binary, used, verified, failed, cleared>>
    PROVE  HandshakeInv'
BY Untouched, FailInv DEF HandshakeInv, Leases, Ended

\* StartInstall: the lease is new to the gate, its marker and the journal.
LEMMA StartInstallInv ==
    ASSUME HandshakeInv, NEW l \in Lease, StartInstall(l)
    PROVE  HandshakeInv'
<1>1. /\ app'.pc = "draining" /\ app'.lease = l /\ app'.phase = "none"
      /\ app'.expects = "old" /\ app'.boot = 0 /\ app' \in Apps
  BY OffFields DEF StartInstall, Apps, AppSteps, InstallSteps
<1>2. /\ binary = "old" /\ l \notin used /\ used' = used \cup {l}
      /\ verified' = {} /\ failed' = FALSE /\ UNCHANGED <<journal, binary, cleared>>
      /\ Inv' /\ TypeOK' /\ UNCHANGED <<proc, gate, disk, version, boot>>
  BY Untouched DEF StartInstall
<1>3. HandshakeTypeOK'
  BY <1>1, <1>2 DEF HandshakeInv, HandshakeTypeOK
<1>4. Leases'
  BY <1>1, <1>2 DEF HandshakeInv, Leases, HandshakeTypeOK
<1>5. Journaled'
  BY <1>1, <1>2 DEF HandshakeInv, Journaled, RecoverySteps
<1>6. Replaced'
  BY <1>1, <1>2 DEF HandshakeInv, Replaced, Confirmed
<1>7. Secured'
  <2>1. gate.lease # l
    BY <1>2, LeaseAssumption DEF HandshakeInv, Leases
  <2> QED
    BY <1>1, <1>2, <2>1 DEF HandshakeInv, Secured, SealedSteps
<1>8. Ended'
  BY <1>1, <1>2 DEF HandshakeInv, Ended
<1> QED
  BY <1>2, <1>3, <1>4, <1>5, <1>6, <1>7, <1>8 DEF HandshakeInv

\* RecordPreparing, RecordSealed and RecordInstalling: the phase in memory
\* advances with the file or before it.
LEMMA RecordInv ==
    ASSUME HandshakeInv, RecordPreparing \/ RecordSealed \/ RecordInstalling
    PROVE  HandshakeInv'
<1>1. app \in Apps /\ app.pc \in {"journaling", "recordSealed", "recordInstalling"}
  BY DEF HandshakeInv, HandshakeTypeOK, RecordPreparing, RecordSealed, RecordInstalling
<1>2. PICK phase \in {"preparing", "sealed", "installing"},
           next \in {"sealing", "stopping", "installing"} :
        /\ WriteJournal(phase, next)
        /\ \/ app.pc = "journaling" /\ phase = "preparing" /\ next = "sealing"
           \/ app.pc = "recordSealed" /\ phase = "sealed" /\ next = "stopping"
           \/ app.pc = "recordInstalling" /\ phase = "installing" /\ next = "installing"
  BY DEF RecordPreparing, RecordSealed, RecordInstalling
<1> DEFINE entry == [phase |-> phase, lease |-> app.lease]
<1>3. /\ app' \in Apps /\ app'.lease = app.lease /\ app'.phase = phase /\ app'.boot = app.boot
      /\ \/ journal' = entry /\ app'.pc = next
         \/ journal' \in {journal, entry} /\ app'.pc = "attach" /\ app'.expects = "old"
  BY <1>1, <1>2 DEF WriteJournal, Apps, AppSteps, InstallSteps, RecoverySteps, Phases, Versions
<1>4. /\ UNCHANGED <<binary, used, verified, failed, cleared>>
      /\ Inv' /\ TypeOK' /\ UNCHANGED <<proc, gate, disk, version, boot>>
      /\ \A l : HoldsSeal(l)' = HoldsSeal(l)
  BY Untouched DEF RecordPreparing, RecordSealed, RecordInstalling
<1>5. /\ entry \in [phase : Phases, lease : Lease \cup {NoLease}] /\ entry.phase = phase
      /\ entry.lease = app.lease /\ entry # NoJournal /\ app.lease \in used /\ binary = "old"
  BY <1>1 DEF Apps, Phases, NoJournal, HandshakeInv, Leases, InstallSteps, Replaced, HandshakeTypeOK,
     Versions
<1> HIDE DEF entry
<1>6. HandshakeTypeOK'
  BY <1>3, <1>4, <1>5 DEF HandshakeInv, HandshakeTypeOK
<1>7. Leases'
  BY <1>1, <1>3, <1>4, <1>5 DEF HandshakeInv, Leases
<1>8. Journaled'
  BY <1>1, <1>2, <1>3, <1>4, <1>5 DEF HandshakeInv, Journaled, RecoverySteps, NoJournal
<1>9. Replaced'
  BY <1>2, <1>3, <1>4, <1>5 DEF HandshakeInv, Replaced, Confirmed
<1>10. Secured'
  BY <1>1, <1>2, <1>3, <1>4, <1>5 DEF HandshakeInv, Secured, SealedSteps, InstallSteps
<1>11. Ended'
  BY <1>1, <1>2, <1>3, <1>4, <1>5 DEF HandshakeInv, Ended
<1> QED
  BY <1>4, <1>6, <1>7, <1>8, <1>9, <1>10, <1>11 DEF HandshakeInv

\* RequestShutdown, DaemonGone and SeeHealthy: the next step of the app.
LEMMA NextStepInv ==
    ASSUME HandshakeInv, RequestShutdown \/ DaemonGone \/ SeeHealthy
    PROVE  HandshakeInv'
<1>1. app \in Apps
  BY DEF HandshakeInv, HandshakeTypeOK
<1>2. /\ app' \in Apps /\ app'.lease = app.lease /\ app'.phase = app.phase
      /\ app'.boot = app.boot /\ app'.expects = app.expects
      /\ \/ app.pc = "stopping" /\ app'.pc = "awaitExit" /\ UNCHANGED verified
         \/ app.pc = "awaitExit" /\ app'.pc = "recordInstalling" /\ UNCHANGED verified
         \/ app.pc = "health" /\ app'.pc = "release" /\ verified' = verified \cup {app.expects}
  BY <1>1 DEF RequestShutdown, DaemonGone, SeeHealthy, Goto, Apps, AppSteps, InstallSteps,
     RecoverySteps
<1>3. /\ UNCHANGED <<journal, binary, used, failed, cleared>>
      /\ Inv' /\ TypeOK' /\ UNCHANGED <<proc, gate, disk, version, boot>>
      /\ \A l : HoldsSeal(l)' = HoldsSeal(l)
  BY Untouched DEF RequestShutdown, DaemonGone, SeeHealthy
<1>4. Attached' = Attached
  BY <1>2, <1>3 DEF Attached, Serving
<1>5. HandshakeTypeOK'
  <2>1. app.expects \in Versions
    BY <1>1 DEF Apps
  <2> QED
    BY <1>2, <1>3, <2>1 DEF HandshakeInv, HandshakeTypeOK
<1>6. Leases'
  BY <1>2, <1>3 DEF HandshakeInv, Leases, InstallSteps, RecoverySteps
<1>7. Journaled'
  BY <1>2, <1>3 DEF HandshakeInv, Journaled, RecoverySteps
<1>8. Replaced'
  BY <1>2, <1>3 DEF HandshakeInv, Replaced, Confirmed, InstallSteps, RecoverySteps
<1>9. Secured'
  BY <1>2, <1>3, <1>4 DEF HandshakeInv, Secured, SealedSteps, InstallSteps
<1>10. Ended'
  BY <1>2, <1>3 DEF HandshakeInv, Ended
<1> QED
  BY <1>3, <1>5, <1>6, <1>7, <1>8, <1>9, <1>10 DEF HandshakeInv

\* InstallAsset: the binary is replaced behind the seal.
LEMMA InstallAssetInv ==
    ASSUME HandshakeInv, InstallAsset
    PROVE  HandshakeInv'
<1>1. app \in Apps /\ app.pc = "installing" /\ app.phase = "installing"
      /\ journal.phase = "installing" /\ app.lease \in used /\ app.lease \in Lease
      /\ HoldsSeal(app.lease)
  BY DEF HandshakeInv, HandshakeTypeOK, InstallAsset, Journaled, Leases, InstallSteps, Secured,
     SealedSteps
<1>2. /\ app' \in Apps /\ app'.lease = app.lease /\ app'.phase = app.phase
      /\ app'.boot = app.boot
      /\ app'.pc = "restarting" \/ (app'.pc = "attach" /\ app'.expects = "old" /\ failed')
      /\ failed' \in BOOLEAN
  BY <1>1 DEF HandshakeInv, HandshakeTypeOK, InstallAsset, Goto, Fail, Apps, AppSteps, InstallSteps, RecoverySteps, Versions
<1>3. /\ UNCHANGED <<journal, used, verified, cleared>> /\ binary' \in {binary, "new"}
      /\ Inv' /\ TypeOK' /\ UNCHANGED <<proc, gate, disk, version, boot>>
      /\ \A l : HoldsSeal(l)' = HoldsSeal(l)
  BY Untouched DEF InstallAsset
<1>4. HandshakeTypeOK'
  BY <1>2, <1>3 DEF HandshakeInv, HandshakeTypeOK, Versions
<1>5. Leases'
  BY <1>1, <1>2, <1>3 DEF HandshakeInv, Leases
<1>6. Journaled'
  BY <1>1, <1>2, <1>3 DEF HandshakeInv, Journaled, RecoverySteps, NoJournal
<1>7. Replaced'
  BY <1>1, <1>2, <1>3 DEF HandshakeInv, Replaced, Confirmed, InstallSteps, RecoverySteps
<1>8. Secured'
  BY <1>1, <1>2, <1>3 DEF HandshakeInv, Secured, SealedSteps, InstallSteps
<1>9. Ended'
  BY <1>2, <1>3 DEF HandshakeInv, Ended
<1> QED
  BY <1>3, <1>4, <1>5, <1>6, <1>7, <1>8, <1>9 DEF HandshakeInv

\* ClearJournal: the deletion may fail.
LEMMA ClearJournalInv ==
    ASSUME HandshakeInv, ClearJournal
    PROVE  HandshakeInv'
<1>1. app \in Apps /\ app.pc = "clear" /\ journal.phase \in Phases
  BY DEF HandshakeInv, HandshakeTypeOK, ClearJournal
<1>2. CASE Fail /\ UNCHANGED <<journal, cleared>>
  BY <1>2, GiveUpInv DEF ClearJournal
<1>3. CASE journal' = NoJournal /\ Goto("idle") /\ cleared' = journal.phase
  <2>1. /\ app' \in Apps /\ app'.pc = "idle" /\ app'.boot = app.boot
    BY <1>1, <1>3 DEF Goto, Apps, AppSteps
  <2>2. /\ UNCHANGED <<binary, used, verified, failed>>
        /\ Inv' /\ TypeOK' /\ UNCHANGED <<proc, gate, disk, version, boot>>
        /\ \A l : HoldsSeal(l)' = HoldsSeal(l)
    BY Untouched DEF ClearJournal
  <2>3. journal' \in [phase : Phases, lease : Lease \cup {NoLease}] /\ journal'.phase = "none"
    BY <1>3 DEF NoJournal, Phases
  <2>4. HandshakeTypeOK'
    BY <1>1, <1>3, <2>1, <2>2, <2>3 DEF HandshakeInv, HandshakeTypeOK
  <2>5. Leases'
    BY <1>3, <2>1, <2>2, <2>3 DEF HandshakeInv, Leases, InstallSteps, RecoverySteps
  <2>6. Journaled'
    BY <2>1 DEF Journaled, RecoverySteps
  <2>7. Replaced'
    BY <1>3, <2>1, <2>2 DEF HandshakeInv, Replaced, Confirmed, InstallSteps, RecoverySteps
  <2>8. Secured'
    BY <2>1 DEF Secured, SealedSteps, InstallSteps
  <2>9. Ended'
    BY <1>1, <1>3, <2>1, <2>2 DEF HandshakeInv, Ended
  <2> QED
    BY <2>2, <2>4, <2>5, <2>6, <2>7, <2>8, <2>9 DEF HandshakeInv
<1> QED
  BY <1>2, <1>3 DEF ClearJournal

\* Launch and AppExit
LEMMA LifeInv ==
    ASSUME HandshakeInv, Launch \/ AppExit
    PROVE  HandshakeInv'
<1>1. /\ app \in Apps /\ journal \in [phase : Phases, lease : Lease \cup {NoLease}]
      /\ binary \in Versions /\ boot \in 0..MaxBoots /\ MaxBoots \in Nat
  BY BootsAssumption DEF HandshakeInv, HandshakeTypeOK
<1>2. /\ UNCHANGED <<journal, binary, used, verified, failed, cleared>>
      /\ Inv' /\ TypeOK' /\ UNCHANGED <<proc, gate, disk, version, boot>>
      /\ \A l : HoldsSeal(l)' = HoldsSeal(l)
  BY Untouched DEF Launch, AppExit
<1>3. /\ app' \in Apps /\ app'.boot = 0
      /\ \/ app'.pc \in {"idle", "off"}
         \/ /\ app'.pc = "attach" /\ journal # NoJournal
            /\ app'.phase = journal.phase /\ app'.lease = journal.lease
            /\ app'.expects = binary
  <2>1. CASE AppExit
    BY <2>1, OffFields DEF AppExit
  <2>2. CASE Launch /\ journal = NoJournal
    BY <2>2, OffFields DEF Launch, Apps, AppSteps
  <2>3. CASE Launch /\ journal # NoJournal
    <3>1. app' = [pc |-> "attach", lease |-> journal.lease,
                  phase |-> journal.phase, expects |-> binary,
                  boot |-> 0, launching |-> TRUE]
      BY <2>3 DEF Launch
    <3>2. "attach" \in AppSteps /\ 0 \in 0..MaxBoots
      BY <1>1 DEF AppSteps, RecoverySteps
    <3> QED
      BY <1>1, <2>3, <3>1, <3>2 DEF Apps
  <2> QED
    BY <2>1, <2>2, <2>3
<1>4. HandshakeTypeOK'
  BY <1>2, <1>3 DEF HandshakeInv, HandshakeTypeOK
<1>5. Leases'
  BY <1>1, <1>2, <1>3 DEF HandshakeInv, Leases, InstallSteps, RecoverySteps
<1>6. Journaled'
  BY <1>2, <1>3 DEF Journaled, RecoverySteps
<1>7. Replaced'
  BY <1>2, <1>3 DEF HandshakeInv, Replaced, Confirmed, InstallSteps, RecoverySteps
<1>8. Secured'
  BY <1>3 DEF Secured, SealedSteps, InstallSteps
<1>9. Ended'
  BY <1>2, <1>3 DEF HandshakeInv, Ended
<1> QED
  BY <1>2, <1>4, <1>5, <1>6, <1>7, <1>8, <1>9 DEF HandshakeInv

---------------------------------------------------------------------------
\* The requests of the app.

\* What each request does to the gate and to everything but the app.
LEMMA RequestInv ==
    ASSUME HandshakeInv, NEW result \in Results, Request(result)
    PROVE  /\ Inv' /\ TypeOK' /\ UNCHANGED <<proc, version, boot>>
           /\ UNCHANGED <<journal, binary, used, verified, failed, cleared>>
           /\ app \in Apps /\ app.lease \in Lease /\ app.lease \in used
<1>1. app \in Apps /\ app.lease \in used /\ app.lease \in Lease
  BY DEF HandshakeInv, HandshakeTypeOK, Leases, Request, Drain, SealDaemon, Attach, Rollback,
     Reseal, Confirm, ReleaseBarrier, InstallSteps, RecoverySteps
<1>2. \/ Prepare(app.lease, result) \/ Seal(app.lease, result)
      \/ ConfirmBootstrap(app.lease, result) \/ Cancel(app.lease, result)
  BY Zenon DEF Request, Drain, SealDaemon, Attach, Rollback, Reseal, Confirm, ReleaseBarrier, AtBoot
<1>3. Inv'
  BY <1>1, <1>2, UpdaterInv DEF UpdaterCall, HandshakeInv
<1>4. proc' = proc
  BY <1>2 DEF Prepare, Seal, ConfirmBootstrap, Cancel
<1>5. UNCHANGED <<version, boot, journal, binary, used, verified, failed, cleared>>
  BY Zenon DEF Request, Drain, SealDaemon, Attach, Rollback, Reseal, Confirm, ReleaseBarrier
<1> QED
  BY <1>1, <1>3, <1>4, <1>5 DEF Inv

\* A seal survives a call that does not cancel it.
LEMMA CallKeepsSeal ==
    ASSUME Inv, proc' = proc, gate.sealed => disk' = disk /\ gate'.sealed /\ gate'.lease = gate.lease,
           proc # "down", NEW l \in Lease, HoldsSeal(l)
    PROVE  HoldsSeal(l)'
BY DEF HoldsSeal

\* Prepare: Drain and Attach.
LEMMA PrepareInv ==
    ASSUME HandshakeInv, NEW result \in Results, Drain(result) \/ Attach(result)
    PROVE  HandshakeInv'
<1>1. Prepare(app.lease, result) /\ app.pc \in {"draining", "attach"}
  BY DEF Drain, Attach
<1>2. /\ Inv' /\ TypeOK' /\ UNCHANGED <<proc, version, boot>>
      /\ UNCHANGED <<journal, binary, used, verified, failed, cleared>>
      /\ app \in Apps /\ app.lease \in Lease /\ app.lease \in used
  BY RequestInv DEF Request
<1>3. /\ gate.sealed => gate' = gate /\ disk' = disk
      /\ gate' \in {gate, Open, Draining(app.lease, now + TTL)}
      /\ disk' \in {disk, NoMarker, LeaseMarker(app.lease, now + TTL)}
      /\ result = "ok" => gate'.sealed \/ ~disk'.sealed
      /\ proc # "down"
  BY <1>1, PrepareEffect DEF HandshakeInv
<1>4. \A l \in Lease : HoldsSeal(l) => HoldsSeal(l)'
  BY <1>2, <1>3, CallKeepsSeal DEF HandshakeInv
<1>5. /\ {gate'.lease, disk'.lease} \subseteq used \cup {NoLease}
      /\ gate'.authorized => gate' = gate
      /\ ~gate.sealed => ~gate'.sealed /\ (~disk.sealed => ~disk'.sealed)
  BY <1>2, <1>3, Fields DEF HandshakeInv, Leases, Open, NoMarker
<1>6. journal = NoJournal /\ cleared = "installing" => ~gate'.sealed /\ ~disk'.sealed
  BY <1>5 DEF HandshakeInv, Ended
<1>7. CASE Fail
  BY <1>2, <1>4, <1>5, <1>6, <1>7, FailInv
<1>8. CASE ~Fail
  <2>1. /\ boot \in 0..MaxBoots /\ boot <= boot
        /\ app.boot \in 0..MaxBoots /\ app.boot <= boot
    BY <1>2 DEF HandshakeInv, HandshakeTypeOK, Apps, Leases
  <2>2. /\ app' \in Apps /\ app'.lease = app.lease /\ app'.phase = app.phase
        /\ app'.expects = app.expects /\ app'.boot \in {app.boot, boot}
        /\ \/ app.pc = "draining" /\ app'.pc \in {"draining", "journaling"}
           \/ app.pc = "attach" /\ app'.pc = "attach"
           \/ /\ app.pc = "attach" /\ result = "ok"
              /\ \/ app'.pc = "confirm"
                 \/ app'.pc = "rollback" /\ ~gate'.sealed /\ app.phase = "preparing"
                 \/ app'.pc = "reseal" /\ ~(app.phase = "preparing" /\ app.expects = "old")
    <3>1. CASE Drain(result)
      BY <1>2, <1>8, <2>1, <3>1 DEF Drain, Reply, Apps, AppSteps, InstallSteps
    <3>2. CASE Attach(result) /\ app' = app
      BY <1>1, <1>2, <3>2 DEF Attach
    <3>3. CASE Attach(result) /\ app' # app
      BY <1>2, <1>8, <2>1, <3>3 DEF Attach, Reply, Apps, AppSteps, RecoverySteps
    <3> QED
      BY <3>1, <3>2, <3>3
  <2>3. HandshakeTypeOK'
    BY <1>2, <2>2 DEF HandshakeInv, HandshakeTypeOK
  <2>4. Leases'
    BY <1>2, <1>5, <2>1, <2>2 DEF HandshakeInv, Leases
  <2>5. Journaled'
    BY <1>2, <2>2 DEF HandshakeInv, Journaled, RecoverySteps
  <2>6. Replaced'
    <3>1. binary = "new" /\ ~Confirmed => \E l \in Lease : HoldsSeal(l)'
      BY <1>4 DEF HandshakeInv, Replaced, Confirmed
    <3> QED
      BY <1>2, <2>2, <3>1 DEF HandshakeInv, Replaced, Confirmed, InstallSteps, RecoverySteps
  <2>7. Secured'
    <3>1. app'.pc = "rollback" => ~gate'.sealed /\ ~disk'.sealed
      BY <1>3, <2>2
    <3> QED
      BY <1>2, <1>5, <2>2, <3>1 DEF HandshakeInv, Secured, SealedSteps, InstallSteps
  <2>8. Ended'
    BY <1>2, <1>6, <2>2 DEF HandshakeInv, Ended
  <2> QED
    BY <1>2, <2>3, <2>4, <2>5, <2>6, <2>7, <2>8 DEF HandshakeInv
<1> QED
  BY <1>7, <1>8

\* Seal: SealDaemon and Reseal.
LEMMA SealInv ==
    ASSUME HandshakeInv, NEW result \in Results, SealDaemon(result) \/ Reseal(result)
    PROVE  HandshakeInv'
<1>1. Seal(app.lease, result) /\ app.pc \in {"sealing", "reseal"} /\ journal # NoJournal
  BY DEF SealDaemon, Reseal, HandshakeInv, Journaled, RecoverySteps, NoJournal
<1>2. /\ Inv' /\ TypeOK' /\ UNCHANGED <<proc, version, boot>>
      /\ UNCHANGED <<journal, binary, used, verified, failed, cleared>>
      /\ app \in Apps /\ app.lease \in Lease /\ app.lease \in used
  BY RequestInv DEF Request
<1>3. /\ gate.sealed => gate' = gate /\ disk' = disk
      /\ gate' \in {gate, Open, Sealed(app.lease)}
      /\ disk' \in {disk, NoMarker, SealMarker(app.lease)}
      /\ result = "ok" => gate'.sealed /\ gate'.lease = app.lease
      /\ proc # "down"
  BY <1>1, SealEffect DEF HandshakeInv
<1>4. \A l \in Lease : HoldsSeal(l) => HoldsSeal(l)'
  BY <1>2, <1>3, CallKeepsSeal DEF HandshakeInv
<1>5. /\ {gate'.lease, disk'.lease} \subseteq used \cup {NoLease}
      /\ gate'.authorized => gate' = gate
  <2>1. /\ Sealed(app.lease).lease = app.lease /\ ~Sealed(app.lease).authorized
        /\ SealMarker(app.lease).lease = app.lease
        /\ Open.lease = NoLease /\ ~Open.authorized /\ NoMarker.lease = NoLease
    BY Fields DEF Sealed, Draining, SealMarker, Open, NoMarker
  <2>2. {gate.lease, disk.lease} \subseteq used \cup {NoLease}
    BY DEF HandshakeInv, Leases
  <2> QED
    BY <1>2, <1>3, <2>1, <2>2
<1>6. CASE Fail
  BY <1>1, <1>2, <1>4, <1>5, <1>6, FailInv
<1>7. CASE ~Fail
  <2>1. /\ boot \in 0..MaxBoots /\ boot <= boot
        /\ app.boot \in 0..MaxBoots /\ app.boot <= boot
    BY <1>2 DEF HandshakeInv, HandshakeTypeOK, Apps, Leases
  <2>2. /\ app' \in Apps /\ app'.lease = app.lease /\ app'.phase = app.phase
        /\ app'.expects = app.expects /\ app'.boot \in {app.boot, boot} /\ result = "ok"
        /\ \/ app.pc = "sealing" /\ app'.pc = "recordSealed"
           \/ app.pc = "reseal" /\ app'.pc = "confirm"
    BY <1>2, <1>7, <2>1 DEF SealDaemon, Reseal, Reply, Goto, Apps, AppSteps, InstallSteps, RecoverySteps
  <2>3. HandshakeTypeOK'
    BY <1>2, <2>2 DEF HandshakeInv, HandshakeTypeOK
  <2>4. Leases'
    BY <1>2, <1>5, <2>1, <2>2 DEF HandshakeInv, Leases
  <2>5. Journaled'
    BY <1>2, <2>2 DEF HandshakeInv, Journaled, RecoverySteps
  <2>6. Replaced'
    <3>1. binary = "new" /\ ~Confirmed => \E l \in Lease : HoldsSeal(l)'
      BY <1>4 DEF HandshakeInv, Replaced, Confirmed
    <3> QED
      BY <1>2, <2>2, <3>1 DEF HandshakeInv, Replaced, Confirmed, InstallSteps, RecoverySteps
  <2>7. Secured'
    <3>1. CASE app'.pc = "recordSealed"
      <4>1. gate'.sealed /\ gate'.lease = app.lease /\ ~gate'.authorized
        BY <1>3, <1>5, <2>2, <3>1 DEF HandshakeInv, Secured, InstallSteps
      <4>2. disk' = SealMarker(gate'.lease)
        BY <1>2, <4>1 DEF Inv, SealDurable
      <4> QED
        BY <1>2, <2>2, <3>1, <4>1, <4>2 DEF Secured, SealedSteps, InstallSteps, HoldsSeal
    <3>2. CASE app'.pc = "confirm"
      BY <3>2 DEF Secured, SealedSteps, InstallSteps
    <3> QED
      BY <2>2, <3>1, <3>2
  <2>8. Ended'
    BY <1>1, <1>2, <2>2 DEF HandshakeInv, Ended
  <2> QED
    BY <1>2, <2>3, <2>4, <2>5, <2>6, <2>7, <2>8 DEF HandshakeInv
<1> QED
  BY <1>6, <1>7

\* ConfirmBootstrap: Confirm.
LEMMA ConfirmInv ==
    ASSUME HandshakeInv, NEW result \in Results, Confirm(result)
    PROVE  HandshakeInv'
<1>1. ConfirmBootstrap(app.lease, result) /\ app.pc = "confirm" /\ boot = app.boot
  BY DEF Confirm, AtBoot
<1>2. /\ Inv' /\ TypeOK' /\ UNCHANGED <<proc, version, boot>>
      /\ UNCHANGED <<journal, binary, used, verified, failed, cleared>>
      /\ app \in Apps /\ app.lease \in Lease /\ app.lease \in used
  BY RequestInv DEF Request
<1>3. /\ \/ gate' \in {gate, Open} /\ disk' \in {disk, NoMarker} /\ result # "ok"
         \/ gate.sealed /\ gate' = [gate EXCEPT !.authorized = TRUE]
      /\ gate.sealed => disk' = disk /\ gate' \in {gate, [gate EXCEPT !.authorized = TRUE]}
      /\ result = "ok" => gate.sealed /\ Owns(gate, app.lease)
      /\ proc # "down"
  BY <1>1, ConfirmEffect DEF HandshakeInv
<1>4. gate \in Gates
  BY DEF HandshakeInv, Inv, TypeOK
<1>5. \A l \in Lease : HoldsSeal(l) => HoldsSeal(l)'
  BY <1>2, <1>3, <1>4, CallKeepsSeal DEF HandshakeInv, Gates
<1>6. /\ gate'.lease \in {gate.lease, NoLease} /\ disk'.lease \in {disk.lease, NoLease}
      /\ ~gate.sealed => ~gate'.sealed /\ (~disk.sealed => ~disk'.sealed)
  BY <1>3, <1>4, Fields DEF Open, NoMarker, Gates
<1>7. {gate'.lease, disk'.lease} \subseteq used \cup {NoLease}
  BY <1>6 DEF HandshakeInv, Leases
<1>8. journal = NoJournal /\ cleared = "installing" => ~gate'.sealed /\ ~disk'.sealed
  BY <1>6 DEF HandshakeInv, Ended
<1>9. CASE Fail
  BY <1>2, <1>5, <1>7, <1>8, <1>9, FailInv
<1>10. CASE ~Fail
  <2>1. /\ app' \in Apps /\ app'.lease = app.lease /\ app'.phase = app.phase
        /\ app'.expects = app.expects /\ app'.boot = app.boot /\ result = "ok"
        /\ app'.pc = "health"
    BY <1>2, <1>10 DEF Confirm, Reply, Goto, Apps, AppSteps, RecoverySteps
  <2>2. Owns(gate, app.lease)' /\ gate'.sealed /\ gate'.authorized
    BY <1>3, <1>4, <2>1 DEF Owns, Gates
  <2>3. HandshakeTypeOK'
    BY <1>2, <2>1 DEF HandshakeInv, HandshakeTypeOK
  <2>4. Leases'
    BY <1>2, <1>7, <2>1 DEF HandshakeInv, Leases
  <2>5. Journaled'
    BY <1>1, <1>2, <2>1 DEF HandshakeInv, Journaled, RecoverySteps
  <2>6. Replaced'
    <3>1. binary = "new" /\ ~Confirmed => \E l \in Lease : HoldsSeal(l)'
      BY <1>5 DEF HandshakeInv, Replaced, Confirmed
    <3> QED
      BY <1>1, <1>2, <2>1, <3>1 DEF HandshakeInv, Replaced, Confirmed, InstallSteps, RecoverySteps
  <2>7. Secured'
    BY <2>1, <2>2 DEF Secured, SealedSteps, InstallSteps
  <2>8. Ended'
    BY <1>2, <1>8, <2>1 DEF HandshakeInv, Ended
  <2> QED
    BY <1>2, <2>3, <2>4, <2>5, <2>6, <2>7, <2>8 DEF HandshakeInv
<1> QED
  BY <1>9, <1>10

\* Cancel: Rollback and ReleaseBarrier.
LEMMA CancelInv ==
    ASSUME HandshakeInv, NEW result \in Results, Rollback(result) \/ ReleaseBarrier(result)
    PROVE  HandshakeInv'
<1>1. Cancel(app.lease, result) /\ app.pc \in {"rollback", "release"} /\ Attached
  BY DEF Rollback, ReleaseBarrier, AtBoot, Attached
<1>2. /\ Inv' /\ TypeOK' /\ UNCHANGED <<proc, version, boot>>
      /\ UNCHANGED <<journal, binary, used, verified, failed, cleared>>
      /\ app \in Apps /\ app.lease \in Lease /\ app.lease \in used
  BY RequestInv DEF Request
<1>3. /\ gate' \in {gate, Open} /\ disk' \in {disk, NoMarker}
      /\ gate.sealed /\ ~gate.authorized => gate' = gate /\ disk' = disk
      /\ result = "ok" => gate' = Open
      /\ result = "ok" /\ Owns(gate, app.lease) /\ gate.sealed => disk' = NoMarker
      /\ proc # "down"
  BY <1>1, CancelEffect DEF HandshakeInv
<1>4. \A l \in Lease : binary = "new" /\ ~Confirmed /\ HoldsSeal(l) => HoldsSeal(l)'
  BY <1>1, <1>2 DEF HandshakeInv, Replaced, Confirmed, Journaled, RecoverySteps, Apps, Versions
<1>5. /\ {gate'.lease, disk'.lease} \subseteq used \cup {NoLease}
      /\ journal = NoJournal /\ cleared = "installing" => ~gate'.sealed /\ ~disk'.sealed
  BY <1>3, Fields DEF HandshakeInv, Leases, Ended, Open, NoMarker
<1>6. CASE Fail
  BY <1>2, <1>4, <1>5, <1>6, FailInv
<1>7. CASE ~Fail
  <2>1. /\ app' \in Apps /\ app'.lease = app.lease /\ app'.phase = app.phase
        /\ app'.expects = app.expects /\ app'.boot = app.boot /\ result = "ok"
        /\ app'.pc = "clear"
    BY <1>2, <1>7 DEF Rollback, ReleaseBarrier, Reply, Goto, Apps, AppSteps, RecoverySteps
  <2>2. ~gate'.sealed /\ ~disk'.sealed
    BY <1>1, <1>3, <2>1, Fields DEF HandshakeInv, Secured
  <2>3. HandshakeTypeOK'
    BY <1>2, <2>1 DEF HandshakeInv, HandshakeTypeOK
  <2>4. Leases'
    BY <1>2, <1>5, <2>1 DEF HandshakeInv, Leases
  <2>5. Journaled'
    BY <1>1, <1>2, <2>1 DEF HandshakeInv, Journaled, RecoverySteps
  <2>6. Replaced'
    <3>1. binary = "new" /\ ~Confirmed => \E l \in Lease : HoldsSeal(l)'
      BY <1>4 DEF HandshakeInv, Replaced, Confirmed
    <3> QED
      BY <1>1, <1>2, <2>1, <3>1 DEF HandshakeInv, Replaced, Confirmed, InstallSteps, RecoverySteps
  <2>7. Secured'
    BY <2>1 DEF Secured, SealedSteps, InstallSteps
  <2>8. Ended'
    BY <2>2 DEF Ended
  <2> QED
    BY <1>2, <2>3, <2>4, <2>5, <2>6, <2>7, <2>8 DEF HandshakeInv
<1> QED
  BY <1>6, <1>7

---------------------------------------------------------------------------
\* The theorems.

\* The invariant holds at first,
LEMMA InitHandshake == HandshakeInit => HandshakeInv
<1> SUFFICES ASSUME HandshakeInit
             PROVE  HandshakeInv
  OBVIOUS
<1>1. Inv /\ TypeOK
  BY InitInv DEF HandshakeInit, Inv
<1>2. /\ app = AppOff /\ journal = NoJournal /\ binary = "old" /\ version = "old" /\ boot = 0
      /\ used = {} /\ verified = {} /\ failed = FALSE /\ cleared = "none"
      /\ gate = Open /\ disk = NoMarker
  BY DEF HandshakeInit, Init
<1>3. HandshakeTypeOK
  <2>1. NoJournal \in [phase: Phases, lease: Lease \cup {NoLease}]
    BY DEF NoJournal, Phases
  <2>2. "old" \in Versions /\ "none" \in Phases /\ 0 \in 0..MaxBoots
    BY BootsAssumption DEF Versions, Phases
  <2> QED
    BY <1>1, <1>2, <2>1, <2>2, OffFields, Zenon DEF HandshakeTypeOK
<1>4. Leases
  BY <1>2, OffFields DEF Leases, InstallSteps, RecoverySteps, NoJournal, Open, NoMarker
<1>5. Journaled /\ Replaced /\ Secured /\ Ended
  BY <1>2, OffFields DEF Journaled, Replaced, Confirmed, Secured, Ended, InstallSteps, RecoverySteps,
     SealedSteps, NoJournal
<1> QED
  BY <1>1, <1>3, <1>4, <1>5 DEF HandshakeInv

\* every step keeps it,
LEMMA NextHandshake ==
    ASSUME HandshakeInv, [HandshakeNext]_allVars
    PROVE  HandshakeInv'
<1>1. ASSUME NEW result \in Results, Request(result)
      PROVE  HandshakeInv'
  BY <1>1, PrepareInv, SealInv, ConfirmInv, CancelInv DEF Request
<1>2. CASE Refused \/ GiveUp
  BY <1>2, GiveUpInv DEF Refused, GiveUp
<1>3. CASE UNCHANGED allVars
  <2>1. UNCHANGED vars /\ UNCHANGED appVars /\ UNCHANGED <<version, boot>>
    BY <1>3 DEF allVars, vars, appVars
  <2>2. UNCHANGED <<proc, gate, disk>> /\ Inv'
    BY <2>1, NextInv DEF vars, HandshakeInv
  <2> QED
    BY <2>1, <2>2, DaemonKeeps
       DEF HandshakeInv, HandshakeTypeOK, Leases, HoldsSeal, Attached, Serving
<1> QED
  BY <1>1, <1>2, <1>3, StartInstallInv, RecordInv, NextStepInv, InstallAssetInv, ClearJournalInv,
     LifeInv, DaemonStepInv, BootDaemonInv DEF HandshakeNext

\* and it holds in every reachable state.
THEOREM HandshakeInvariance == HandshakeSpec => []HandshakeInv
<1>1. HandshakeInv /\ [HandshakeNext]_allVars => HandshakeInv'
  BY NextHandshake
<1> QED
  BY <1>1, InitHandshake, PTL DEF HandshakeSpec

\* Every variable of app and daemon has its type.
THEOREM HandshakeTypeCorrect == HandshakeSpec => []HandshakeTypeOK
BY HandshakeInvariance, PTL DEF HandshakeInv

\* No daemon runs protected work from the moment the updater saw its
\* predecessor go until the app restarts, whichever side dies or is respawned
\* and whichever file operation fails.
THEOREM NoWorkWhileInstalling == HandshakeSpec => []InstallQuiet
<1>1. HandshakeInv => InstallQuiet
  BY DEF HandshakeInv, Inv, Secured, SealedSteps, HoldsSeal, SealedIdle, Shape, InstallQuiet,
     TypeOK
<1> QED
  BY <1>1, HandshakeInvariance, PTL

\* No daemon of the new version works before the updater confirmed one of that
\* version; after an installation that failed, confirming an old one is enough.
THEOREM NoWorkUnverified == HandshakeSpec => []ReplacementVerified
<1>1. HandshakeInv => ReplacementVerified
  BY DEF HandshakeInv, Inv, Replaced, Confirmed, HoldsSeal, SealedIdle, Shape, ReplacementVerified, TypeOK
<1> QED
  BY <1>1, HandshakeInvariance, PTL

\* While the new binary is in place, the journal of a pending recovery says so.
THEOREM InstallationsJournaled == HandshakeSpec => []ReplacedMeansInstalling
<1>1. HandshakeInv => ReplacedMeansInstalling
  BY DEF HandshakeInv, Replaced, ReplacedMeansInstalling
<1> QED
  BY <1>1, HandshakeInvariance, PTL

\* Deleting the journal of an installation leaves no seal that nobody owns.
THEOREM NoSealWithoutOwner == HandshakeSpec => []InstallingNeverOwnerless
<1>1. HandshakeInv => InstallingNeverOwnerless
  BY DEF HandshakeInv, Ended, InstallingNeverOwnerless
<1> QED
  BY <1>1, HandshakeInvariance, PTL
=============================================================================
