------------------------------ MODULE WorkGate ------------------------------
(***************************************************************************)
(* The daemon's work-admission gate (daemon/internal/workgate/gate.go).    *)
(*                                                                         *)
(* Jobs ask the gate for a permit before protected work.  An updater that  *)
(* owns a lease drains the gate (Prepare), seals it once it is idle        *)
(* (Seal), lets a replacement process bootstrap (ConfirmBootstrap) and     *)
(* opens it again (Cancel).  An unsealed lease expires on its own.  The    *)
(* lease lives in memory and in a marker file; every write and removal of  *)
(* the file may fail before or after it takes effect, and the process may  *)
(* die between any two calls.  A dead process loses the memory, not the    *)
(* file.                                                                   *)
(***************************************************************************)
EXTENDS Integers, FiniteSets

CONSTANTS
    Lease,      \* lease identifiers chosen by updaters
    NoLease,    \* the empty lease identifier
    Kind,       \* kinds of protected work
    Job,        \* top-level operations that ask for a permit
    TTL,        \* lease time to live
    MaxTime     \* bound on the clock

ASSUME LeaseAssumption == NoLease \notin Lease
ASSUME KindAssumption == Kind # {}
ASSUME JobAssumption == IsFiniteSet(Job)
ASSUME TimeAssumption == TTL \in Nat \ {0} /\ MaxTime \in Nat

VARIABLES
    proc,       \* "down", "waiting" for bootstrap authorization, or "running"
    gate,       \* the Gate's lease fields, guarded by its mutex
    active,     \* the Gate's count of admitted operations per kind
    permit,     \* the Permit each job holds (a released one is inert)
    disk,       \* the marker file
    now         \* the wall clock

vars == <<proc, gate, active, permit, disk, now>>

---------------------------------------------------------------------------
\* State

Gates == [draining: BOOLEAN, sealed: BOOLEAN, authorized: BOOLEAN,
          lease: Lease \cup {NoLease}, expires: Nat]

Markers == [lease: Lease \cup {NoLease}, expires: Nat, sealed: BOOLEAN]

Permits == [kind: Kind, released: BOOLEAN]

Open == [draining |-> FALSE, sealed |-> FALSE, authorized |-> FALSE,
         lease |-> NoLease, expires |-> 0]

Draining(l, t) == [Open EXCEPT !.draining = TRUE, !.lease = l, !.expires = t]

Sealed(l) == [Draining(l, 0) EXCEPT !.sealed = TRUE]

NoMarker == [lease |-> NoLease, expires |-> 0, sealed |-> FALSE]

LeaseMarker(l, t) == [lease |-> l, expires |-> t, sealed |-> FALSE]

SealMarker(l) == [lease |-> l, expires |-> 0, sealed |-> TRUE]

NilPermit == [kind |-> CHOOSE k \in Kind : TRUE, released |-> TRUE]

Live(j) == ~permit[j].released

LiveOf(k) == {j \in Job : Live(j) /\ permit[j].kind = k}

\* Mutant: looks at one kind only.
SomeKindIdle == \E k \in Kind : active[k] = 0

\* snapshotLocked().Total() == 0
Idle == \A k \in Kind : active[k] = 0

---------------------------------------------------------------------------
\* The marker file.  An outcome says whether the call reported success and
\* what the file holds afterwards: a directory sync may fail after the
\* rename or the removal already happened.

\* Mutant: a failed write or sync is swallowed.
PersistIgnoringErrors(d, m) ==
    {[ok |-> TRUE, disk |-> m], [ok |-> TRUE, disk |-> d]}

PersistOutcomes(d, m) ==
    {[ok |-> TRUE, disk |-> m], [ok |-> FALSE, disk |-> d],
     [ok |-> FALSE, disk |-> m]}

RemoveOutcomes(d) == PersistOutcomes(d, NoMarker)

\* Mutant: forgets that a seal has no expiry.
ExpiredEvenSealed(g) == g.draining /\ g.expires <= now

\* Mutant: off by one.
ExpiredEarly(g) == g.draining /\ ~g.sealed /\ g.expires <= now + 1

\* A lease nobody renewed; a seal never expires.
Expired(g) == g.draining /\ ~g.sealed /\ g.expires <= now

\* Mutant: keeps the drain when the marker cannot be removed.
ExpireOnlyIfRemoved ==
    IF Expired(gate)
    THEN {[gate |-> IF r.ok THEN Open ELSE gate, disk |-> r.disk] :
             r \in RemoveOutcomes(disk)}
    ELSE {[gate |-> gate, disk |-> disk]}

\* expireLeaseLocked, the first thing every call does under the mutex: the
\* memory opens whether or not the marker could be removed.
ExpireOutcomes ==
    IF Expired(gate)
    THEN {[gate |-> Open, disk |-> r.disk] : r \in RemoveOutcomes(disk)}
    ELSE {[gate |-> gate, disk |-> disk]}

Owns(g, l) == g.draining /\ g.lease = l

---------------------------------------------------------------------------
\* Calls.  The last parameter is the result the caller sees.

Results == {"ok", "conflict", "workActive", "notSealed", "notAuthorized",
            "failed"}

\* The update endpoints are served from the moment the process starts.
Serving == proc # "down"

Prepare(l, result) ==
    /\ Serving
    /\ now + TTL <= MaxTime
    /\ \E e \in ExpireOutcomes :
        \/ /\ e.gate.draining /\ e.gate.lease # l
           /\ result = "conflict"
           /\ gate' = e.gate /\ disk' = e.disk
        \/ /\ Owns(e.gate, l) /\ e.gate.sealed
           /\ result = "ok"
           /\ gate' = e.gate /\ disk' = e.disk
        \/ /\ ~e.gate.draining \/ (Owns(e.gate, l) /\ ~e.gate.sealed)
           /\ \E p \in PersistOutcomes(e.disk, LeaseMarker(l, now + TTL)) :
                /\ result = IF p.ok THEN "ok" ELSE "failed"
                /\ gate' = IF p.ok THEN Draining(l, now + TTL) ELSE e.gate
                /\ disk' = p.disk
    /\ UNCHANGED <<proc, active, permit, now>>

Seal(l, result) ==
    /\ Serving
    /\ \E e \in ExpireOutcomes :
        \/ /\ ~Owns(e.gate, l)
           /\ result = "conflict"
           /\ gate' = e.gate /\ disk' = e.disk
        \/ /\ Owns(e.gate, l) /\ e.gate.sealed
           /\ result = "ok"
           /\ gate' = e.gate /\ disk' = e.disk
        \/ /\ Owns(e.gate, l) /\ ~e.gate.sealed /\ ~Idle
           /\ result = "workActive"
           /\ gate' = e.gate /\ disk' = e.disk
        \/ /\ Owns(e.gate, l) /\ ~e.gate.sealed /\ Idle
           /\ \E p \in PersistOutcomes(e.disk, SealMarker(l)) :
                /\ result = IF p.ok THEN "ok" ELSE "failed"
                /\ gate' = IF p.ok THEN Sealed(l) ELSE e.gate
                /\ disk' = p.disk
    /\ UNCHANGED <<proc, active, permit, now>>

\* The authorization is held in memory only.
ConfirmBootstrap(l, result) ==
    /\ Serving
    /\ \E e \in ExpireOutcomes :
        /\ disk' = e.disk
        /\ \/ /\ ~Owns(e.gate, l)
              /\ result = "conflict" /\ gate' = e.gate
           \/ /\ Owns(e.gate, l) /\ ~e.gate.sealed
              /\ result = "notSealed" /\ gate' = e.gate
           \/ /\ Owns(e.gate, l) /\ e.gate.sealed
              /\ result = "ok"
              /\ gate' = [e.gate EXCEPT !.authorized = TRUE]
    /\ UNCHANGED <<proc, active, permit, now>>

Cancel(l, result) ==
    /\ Serving
    /\ \E e \in ExpireOutcomes :
        \/ /\ ~e.gate.draining
           /\ result = "ok"
           /\ gate' = e.gate /\ disk' = e.disk
        \/ /\ e.gate.draining /\ e.gate.lease # l
           /\ result = "conflict"
           /\ gate' = e.gate /\ disk' = e.disk
        \/ /\ Owns(e.gate, l) /\ e.gate.sealed /\ ~e.gate.authorized
           /\ result = "notAuthorized"
           /\ gate' = e.gate /\ disk' = e.disk
        \/ /\ Owns(e.gate, l) /\ (e.gate.sealed => e.gate.authorized)
           /\ \E r \in RemoveOutcomes(e.disk) :
                /\ result = IF r.ok THEN "ok" ELSE "failed"
                /\ gate' = IF r.ok THEN Open ELSE e.gate
                /\ disk' = r.disk
    /\ UNCHANGED <<proc, active, permit, now>>

\* A top-level job asks for a permit; a job that still holds a live one
\* reuses it and changes nothing.
Acquire(j, k) ==
    /\ proc = "running" /\ ~Live(j)
    /\ \E e \in ExpireOutcomes :
        /\ gate' = e.gate /\ disk' = e.disk
        /\ \/ e.gate.draining /\ UNCHANGED <<active, permit>>
           \/ /\ ~e.gate.draining
              /\ active' = [active EXCEPT ![k] = @ + 1]
              /\ permit' = [permit EXCEPT ![j] = [kind |-> k, released |-> FALSE]]
    /\ UNCHANGED <<proc, now>>

Decremented(n) == IF n <= 1 THEN 0 ELSE n - 1

\* Mutant: drops the compare-and-swap on released.
ReleaseTwice(j) ==
    /\ proc = "running"
    /\ permit' = [permit EXCEPT ![j].released = TRUE]
    /\ active' = [active EXCEPT ![permit[j].kind] = @ - 1]
    /\ UNCHANGED <<proc, gate, disk, now>>

\* Cleanup paths converge: a permit may be released more than once.
Release(j) ==
    /\ proc = "running"
    /\ IF Live(j)
       THEN /\ permit' = [permit EXCEPT ![j].released = TRUE]
            /\ active' = [active EXCEPT ![permit[j].kind] = Decremented(@)]
       ELSE UNCHANGED <<permit, active>>
    /\ UNCHANGED <<proc, gate, disk, now>>

Status ==
    /\ Serving
    /\ \E e \in ExpireOutcomes : gate' = e.gate /\ disk' = e.disk
    /\ UNCHANGED <<proc, active, permit, now>>

\* WaitUntilBootstrapAuthorized: one poll of Status by a restored process.
BootstrapPoll ==
    /\ proc = "waiting"
    /\ \E e \in ExpireOutcomes :
        /\ gate' = e.gate /\ disk' = e.disk
        /\ proc' = IF ~e.gate.draining \/ (e.gate.sealed /\ e.gate.authorized)
                   THEN "running" ELSE "waiting"
    /\ UNCHANGED <<active, permit, now>>

---------------------------------------------------------------------------
\* Process lifetime

\* Mutant: reads the zero expiry of a seal as a lease long expired.
RestoreExpiringSeal(d) ==
    IF d.lease = NoLease THEN {[ok |-> TRUE, gate |-> Open, disk |-> d]}
    ELSE {[ok |-> r.ok, gate |-> Open, disk |-> r.disk] : r \in RemoveOutcomes(d)}

\* newGate/restore: what a start makes of the marker d.  A start whose file
\* operation fails leaves no gate at all.
RestoreOutcomes(d) ==
    IF d = NoMarker THEN {[ok |-> TRUE, gate |-> Open, disk |-> d]}
    ELSE IF d.sealed THEN {[ok |-> TRUE, gate |-> Sealed(d.lease), disk |-> d]}
    ELSE IF d.expires <= now
    THEN {[ok |-> r.ok, gate |-> Open, disk |-> r.disk] : r \in RemoveOutcomes(d)}
    ELSE {[ok |-> p.ok, gate |-> Draining(d.lease, now + TTL), disk |-> p.disk] :
            p \in PersistOutcomes(d, LeaseMarker(d.lease, now + TTL))}

\* The process comes up with gate g, or fails to start.
Started(r) ==
    /\ disk' = r.disk
    /\ gate' = IF r.ok THEN r.gate ELSE Open
    /\ proc' = IF ~r.ok THEN "down"
               ELSE IF r.gate.draining THEN "waiting" ELSE "running"
    /\ UNCHANGED <<active, permit, now>>

Boot ==
    /\ proc = "down"
    /\ disk.expires <= now \/ now + TTL <= MaxTime
    /\ \E r \in RestoreOutcomes(disk) : Started(r)

Crash ==
    /\ proc # "down"
    /\ proc' = "down"
    /\ gate' = Open
    /\ active' = [k \in Kind |-> 0]
    /\ permit' = [j \in Job |-> NilPermit]
    /\ UNCHANGED <<disk, now>>

Tick ==
    /\ now < MaxTime
    /\ now' = now + 1
    /\ UNCHANGED <<proc, gate, active, permit, disk>>

---------------------------------------------------------------------------
Init ==
    /\ proc = "down"
    /\ gate = Open
    /\ active = [k \in Kind |-> 0]
    /\ permit = [j \in Job |-> NilPermit]
    /\ disk = NoMarker
    /\ now = 0

UpdaterCall ==
    \E l \in Lease, result \in Results :
        \/ Prepare(l, result) \/ Seal(l, result)
        \/ ConfirmBootstrap(l, result) \/ Cancel(l, result)

JobCall == \E j \in Job : Release(j) \/ \E k \in Kind : Acquire(j, k)

Next ==
    \/ UpdaterCall \/ JobCall
    \/ Status \/ BootstrapPoll
    \/ Boot \/ Crash \/ Tick

Spec == Init /\ [][Next]_vars

---------------------------------------------------------------------------
\* Fairness: the clock runs, a waiting process polls every few milliseconds,
\* the pollers keep offering work, and admitted work ends (agents run under
\* a timeout).  Nothing is assumed of updaters, file operations or crashes.

JobOffers(j) == \E k \in Kind : Acquire(j, k)

JobEnds(j) == Live(j) /\ Release(j)

Fairness ==
    /\ WF_vars(Tick) /\ WF_vars(BootstrapPoll)
    /\ \A j \in Job : WF_vars(JobOffers(j)) /\ WF_vars(JobEnds(j))

FairSpec == Spec /\ Fairness

---------------------------------------------------------------------------
\* Properties

\* Every variable has its type.
TypeOK ==
    /\ proc \in {"down", "waiting", "running"}
    /\ gate \in Gates
    /\ active \in [Kind -> Nat]
    /\ permit \in [Job -> Permits]
    /\ disk \in Markers
    /\ now \in 0..MaxTime

\* The per-kind counters that Seal trusts are exactly the unreleased permits,
\* however releases, repeated releases and acquisitions interleave (gate.go,
\* Permit.Release and Gate.release).
AccountingExact == \A k \in Kind : active[k] = Cardinality(LiveOf(k))

\* While the gate is sealed no admitted work runs: the process can be replaced
\* (gate.go, Seal and Acquire).
SealedIdle == gate.sealed => \A j \in Job : ~Live(j)

\* An acknowledged seal is on disk until its owner may cancel it, so a respawn
\* cannot lose it to a failed write or a stale lease marker (gate.go, Seal).
SealDurable ==
    gate.sealed /\ ~gate.authorized => disk = SealMarker(gate.lease)

HoldsSeal(l) ==
    /\ disk = SealMarker(l)
    /\ proc # "down" => gate.sealed /\ gate.lease = l

\* A seal survives time, foreign updaters, retries of its own owner, file
\* failures, crashes and restarts until this very process was authorized to
\* bootstrap (gate.go, ConfirmBootstrap: the authorization is not persisted).
SealHeld ==
    [][\A l \in Lease :
          HoldsSeal(l) /\ ~gate.authorized => HoldsSeal(l)']_vars

\* A lease that has not expired is never taken over or opened under its owner
\* by anything but the owner's Cancel or the death of the process (gate.go,
\* Prepare and expireLeaseLocked).
LeaseHonoured ==
    [][\A l \in Lease :
          /\ Owns(gate, l) /\ ~gate.sealed /\ gate.expires > now
          /\ proc' # "down"
          => Owns(gate', l) \/ Cancel(l, "ok")]_vars

\* If the updater stops renewing, work resumes by itself: a drain is followed
\* by an open gate or by a seal, unless the process dies (gate.go, Gate).
AbandonedDrainReopens ==
    (proc = "running" /\ gate.draining)
        ~> (~gate.draining \/ gate.sealed \/ proc = "down")

\* A process restored behind a lease that nobody renews bootstraps (gate.go,
\* WaitUntilBootstrapAuthorized).
RestoredLeaseBootstraps ==
    (proc = "waiting" /\ ~gate.sealed)
        ~> (proc = "running" \/ gate.sealed \/ proc = "down")

=============================================================================
