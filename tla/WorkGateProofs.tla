--------------------------- MODULE WorkGateProofs ---------------------------
(***************************************************************************)
(* Proofs about the work gate, for every set of leases, kinds and jobs and *)
(* every time to live: its type invariant, the exactness of its counters,  *)
(* the two invariants and the action properties its updaters rely on, and  *)
(* that it implements AdmissionBarrier.                                    *)
(***************************************************************************)
EXTENDS MCWorkGate, FiniteSetTheorems, TLAPS

\* What the lease fields, the marker and the process state can be together.
Shape ==
    /\ gate.sealed => gate.draining
    /\ gate.authorized => gate.sealed
    /\ gate.draining => gate.lease \in Lease
    /\ ~gate.draining => gate = Open
    /\ disk.sealed => disk = SealMarker(disk.lease) /\ disk.lease \in Lease
    /\ disk.lease = NoLease => disk = NoMarker
    /\ proc = "down" => gate = Open
    /\ proc # "running" => \A j \in Job : ~Live(j)

\* The inductive invariant.
Inv == TypeOK /\ Shape /\ AccountingExact /\ SealedIdle /\ SealDurable

---------------------------------------------------------------------------
\* Typing of the values the actions build.

\* The nil permit and the marker and gate constructors are well typed.
LEMMA Values ==
    /\ NilPermit \in Permits /\ NilPermit.released
    /\ NoMarker \in Markers /\ Open \in Gates
    /\ \A l \in Lease, t \in Nat : LeaseMarker(l, t) \in Markers
    /\ \A l \in Lease, t \in Nat : Draining(l, t) \in Gates
    /\ \A l \in Lease : SealMarker(l) \in Markers /\ Sealed(l) \in Gates
<1>1. (CHOOSE k \in Kind : TRUE) \in Kind
  BY KindAssumption
<1> QED
  BY <1>1 DEF NilPermit, Permits, NoMarker, Markers, Open, Gates, LeaseMarker,
     Draining, SealMarker, Sealed

\* The fields of the values that are not sealed.
LEMMA Fields ==
    /\ ~Open.draining /\ ~Open.sealed /\ ~Open.authorized
    /\ ~NoMarker.sealed
    /\ \A l, t : /\ Draining(l, t).draining
                 /\ ~Draining(l, t).sealed /\ ~Draining(l, t).authorized
                 /\ Draining(l, t).lease = l
                 /\ ~LeaseMarker(l, t).sealed /\ LeaseMarker(l, t).lease = l
BY DEF Open, NoMarker, Draining, LeaseMarker

\* Expiry either does nothing or opens an unsealed lease, with or without
\* removing the marker (expireLeaseLocked).
LEMMA ExpireCases ==
    ASSUME NEW e \in ExpireOutcomes
    PROVE  \/ ~Expired(gate) /\ e.gate = gate /\ e.disk = disk
           \/ Expired(gate) /\ e.gate = Open /\ e.disk \in {disk, NoMarker}
BY DEF ExpireOutcomes, RemoveOutcomes, PersistOutcomes

\* A write or a removal leaves the old or the new content, the new one when
\* it reported success.
LEMMA PersistCases ==
    ASSUME NEW d, NEW m, NEW p \in PersistOutcomes(d, m)
    PROVE  /\ p.ok => p.disk = m
           /\ p.disk \in {d, m}
BY DEF PersistOutcomes

---------------------------------------------------------------------------
\* What a call of an updater, a job or a poll may do to gate and disk.

GateStep ==
    \/ gate' = gate /\ disk' = disk
    \/ /\ ~gate.sealed
       /\ gate' \in {gate, Open}
       /\ disk' \in {disk, NoMarker}
    \/ /\ ~gate.sealed
       /\ \E l \in Lease : \E t \in Nat :
            /\ gate' \in {gate, Open, Draining(l, t)}
            /\ disk' \in {disk, NoMarker, LeaseMarker(l, t)}
    \/ /\ gate.draining /\ ~gate.sealed
       /\ gate' = gate /\ disk' \in {disk, SealMarker(gate.lease)}
    \/ /\ gate.draining /\ ~gate.sealed /\ Idle
       /\ gate' = Sealed(gate.lease) /\ disk' = SealMarker(gate.lease)
    \/ /\ gate.sealed
       /\ gate' = [gate EXCEPT !.authorized = TRUE] /\ disk' = disk
    \/ /\ gate.sealed /\ gate.authorized
       /\ gate' \in {gate, Open} /\ disk' \in {disk, NoMarker}

\* Expiry, alone, is a GateStep.
LEMMA ExpireStep ==
    ASSUME Inv, NEW e \in ExpireOutcomes, gate' = e.gate, disk' = e.disk
    PROVE  GateStep
BY ExpireCases DEF GateStep, Expired

\* Every outcome of Prepare is a GateStep.
LEMMA PrepareStep ==
    ASSUME Inv, NEW l \in Lease, NEW result \in Results, Prepare(l, result)
    PROVE  GateStep
<1> DEFINE t == now + TTL
<1>1. t \in Nat
  BY TimeAssumption DEF Inv, TypeOK
<1>2. PICK e \in ExpireOutcomes :
        \/ gate' = e.gate /\ disk' = e.disk
        \/ /\ ~e.gate.draining \/ ~e.gate.sealed
           /\ \E p \in PersistOutcomes(e.disk, LeaseMarker(l, t)) :
                gate' \in {Draining(l, t), e.gate} /\ disk' = p.disk
  BY DEF Prepare
<1>3. CASE gate' = e.gate /\ disk' = e.disk
  BY <1>3, ExpireStep
<1>4. CASE /\ ~e.gate.draining \/ ~e.gate.sealed
           /\ \E p \in PersistOutcomes(e.disk, LeaseMarker(l, t)) :
                gate' \in {Draining(l, t), e.gate} /\ disk' = p.disk
  <2>1. ~gate.sealed
    BY <1>4, ExpireCases DEF Inv, Shape, Expired
  <2>2. gate' \in {gate, Open, Draining(l, t)}
    BY <1>4, ExpireCases
  <2>3. disk' \in {disk, NoMarker, LeaseMarker(l, t)}
    BY <1>4, ExpireCases, PersistCases
  <2> QED
    BY <1>1, <2>1, <2>2, <2>3 DEF GateStep
<1> QED
  BY <1>2, <1>3, <1>4

\* Every outcome of Seal is a GateStep.
LEMMA SealStep ==
    ASSUME Inv, NEW l \in Lease, NEW result \in Results, Seal(l, result)
    PROVE  GateStep
<1>1. PICK e \in ExpireOutcomes :
        \/ gate' = e.gate /\ disk' = e.disk
        \/ /\ Owns(e.gate, l) /\ ~e.gate.sealed /\ Idle
           /\ \E p \in PersistOutcomes(e.disk, SealMarker(l)) :
                /\ gate' = IF p.ok THEN Sealed(l) ELSE e.gate
                /\ disk' = p.disk
  BY DEF Seal
<1>2. CASE gate' = e.gate /\ disk' = e.disk
  BY <1>2, ExpireStep
<1>3. CASE /\ Owns(e.gate, l) /\ ~e.gate.sealed /\ Idle
           /\ \E p \in PersistOutcomes(e.disk, SealMarker(l)) :
                /\ gate' = IF p.ok THEN Sealed(l) ELSE e.gate
                /\ disk' = p.disk
  <2>1. e.gate = gate /\ e.disk = disk
    BY <1>3, ExpireCases DEF Owns, Open
  <2>2. gate.draining /\ ~gate.sealed /\ gate.lease = l
    BY <1>3, <2>1 DEF Owns
  <2>3. PICK p \in PersistOutcomes(disk, SealMarker(l)) :
          gate' = (IF p.ok THEN Sealed(l) ELSE gate) /\ disk' = p.disk
    BY <1>3, <2>1
  <2> QED
    BY <1>3, <2>2, <2>3, PersistCases DEF GateStep
<1> QED
  BY <1>1, <1>2, <1>3

\* Every outcome of ConfirmBootstrap is a GateStep.
LEMMA ConfirmStep ==
    ASSUME Inv, NEW l \in Lease, NEW result \in Results,
           ConfirmBootstrap(l, result)
    PROVE  GateStep
<1>1. PICK e \in ExpireOutcomes :
        /\ disk' = e.disk
        /\ \/ gate' = e.gate
           \/ e.gate.sealed /\ gate' = [e.gate EXCEPT !.authorized = TRUE]
  BY DEF ConfirmBootstrap
<1>2. CASE gate' = e.gate
  BY <1>1, <1>2, ExpireStep
<1>3. CASE e.gate.sealed /\ gate' = [e.gate EXCEPT !.authorized = TRUE]
  <2>1. e.gate = gate /\ e.disk = disk
    BY <1>3, ExpireCases DEF Open
  <2> QED
    BY <1>1, <1>3, <2>1 DEF GateStep
<1> QED
  BY <1>1, <1>2, <1>3

\* Every outcome of Cancel is a GateStep.
LEMMA CancelStep ==
    ASSUME Inv, NEW l \in Lease, NEW result \in Results, Cancel(l, result)
    PROVE  GateStep
<1>1. PICK e \in ExpireOutcomes :
        \/ gate' = e.gate /\ disk' = e.disk
        \/ /\ Owns(e.gate, l) /\ (e.gate.sealed => e.gate.authorized)
           /\ \E r \in RemoveOutcomes(e.disk) :
                gate' \in {Open, e.gate} /\ disk' = r.disk
  BY DEF Cancel
<1>2. CASE gate' = e.gate /\ disk' = e.disk
  BY <1>2, ExpireStep
<1>3. CASE /\ Owns(e.gate, l) /\ (e.gate.sealed => e.gate.authorized)
           /\ \E r \in RemoveOutcomes(e.disk) :
                gate' \in {Open, e.gate} /\ disk' = r.disk
  <2>1. e.gate = gate /\ e.disk = disk
    BY <1>3, ExpireCases DEF Owns, Open
  <2>2. gate' \in {gate, Open} /\ disk' \in {disk, NoMarker}
    BY <1>3, <2>1, PersistCases DEF RemoveOutcomes
  <2> QED
    BY <1>3, <2>1, <2>2 DEF GateStep
<1> QED
  BY <1>1, <1>2, <1>3

\* An updater's call touches neither the process, the jobs nor the clock.
LEMMA UpdaterStep ==
    ASSUME Inv, UpdaterCall
    PROVE  GateStep /\ UNCHANGED <<proc, active, permit, now>>
<1>1. PICK l \in Lease, result \in Results :
        \/ Prepare(l, result) \/ Seal(l, result)
        \/ ConfirmBootstrap(l, result) \/ Cancel(l, result)
  BY DEF UpdaterCall
<1>2. UNCHANGED <<proc, active, permit, now>>
  BY <1>1 DEF Prepare, Seal, ConfirmBootstrap, Cancel
<1> QED
  BY <1>1, <1>2, PrepareStep, SealStep, ConfirmStep, CancelStep

---------------------------------------------------------------------------
\* What a GateStep preserves.

\* The conjuncts of Shape about gate and disk.
GateShape ==
    /\ gate.sealed => gate.draining
    /\ gate.authorized => gate.sealed
    /\ gate.draining => gate.lease \in Lease
    /\ ~gate.draining => gate = Open
    /\ disk.sealed => disk = SealMarker(disk.lease) /\ disk.lease \in Lease
    /\ disk.lease = NoLease => disk = NoMarker

\* A GateStep keeps the types and the shape of gate and disk, keeps every
\* acknowledged seal on disk, and seals only an idle gate.
LEMMA GateStepInv ==
    ASSUME Inv, GateStep
    PROVE  /\ gate' \in Gates /\ disk' \in Markers
           /\ GateShape'
           /\ SealDurable'
           /\ gate'.sealed => gate.sealed \/ Idle
<1> USE LeaseAssumption, Values, Fields
<1>1. GateShape /\ SealDurable /\ gate \in Gates /\ disk \in Markers
  BY DEF Inv, Shape, GateShape, TypeOK
<1>2. CASE gate' = gate /\ disk' = disk
  BY <1>1, <1>2 DEF GateShape, SealDurable
<1>3. CASE ~gate.sealed /\ gate' \in {gate, Open} /\ disk' \in {disk, NoMarker}
  BY <1>1, <1>3 DEF GateShape, SealDurable
<1>4. CASE /\ ~gate.sealed
           /\ \E l \in Lease : \E t \in Nat :
                /\ gate' \in {gate, Open, Draining(l, t)}
                /\ disk' \in {disk, NoMarker, LeaseMarker(l, t)}
  <2>1. PICK l \in Lease, t \in Nat :
          /\ gate' \in {gate, Open, Draining(l, t)}
          /\ disk' \in {disk, NoMarker, LeaseMarker(l, t)}
    BY <1>4
  <2>2. gate' \in Gates /\ ~gate'.sealed /\ disk' \in Markers
    BY <1>1, <1>4, <2>1
  <2>3. /\ gate'.draining => gate'.lease \in Lease
        /\ ~gate'.draining => gate' = Open
        /\ ~gate'.authorized
    BY <1>1, <1>4, <2>1 DEF GateShape
  <2>4. /\ disk'.sealed => disk' = SealMarker(disk'.lease) /\ disk'.lease \in Lease
        /\ disk'.lease = NoLease => disk' = NoMarker
    BY <1>1, <2>1 DEF GateShape
  <2> QED
    BY <2>2, <2>3, <2>4 DEF GateShape, SealDurable
<1>5. CASE /\ gate.draining /\ ~gate.sealed
           /\ gate' = gate /\ disk' \in {disk, SealMarker(gate.lease)}
  BY <1>1, <1>5 DEF GateShape, SealDurable, SealMarker
<1>6. CASE /\ gate.draining /\ ~gate.sealed /\ Idle
           /\ gate' = Sealed(gate.lease) /\ disk' = SealMarker(gate.lease)
  BY <1>1, <1>6 DEF GateShape, SealDurable, SealMarker, Sealed, Draining, Open
<1>7. CASE /\ gate.sealed
           /\ gate' = [gate EXCEPT !.authorized = TRUE] /\ disk' = disk
  BY <1>1, <1>7 DEF GateShape, SealDurable, Gates
<1>8. CASE /\ gate.sealed /\ gate.authorized
           /\ gate' \in {gate, Open} /\ disk' \in {disk, NoMarker}
  BY <1>1, <1>8 DEF GateShape, SealDurable
<1> QED
  BY <1>2, <1>3, <1>4, <1>5, <1>6, <1>7, <1>8 DEF GateStep

---------------------------------------------------------------------------
\* Counting.

\* The permits of a kind are finitely many.
LEMMA LiveFinite ==
    ASSUME NEW k
    PROVE  IsFiniteSet(LiveOf(k)) /\ IsFiniteSet(LiveOf(k))'
<1>1. LiveOf(k) \in SUBSET Job /\ LiveOf(k)' \in SUBSET Job
  BY DEF LiveOf
<1> QED
  BY <1>1, JobAssumption, FS_Subset

\* An idle gate has no live permit.
LEMMA IdleMeansNone ==
    ASSUME TypeOK, AccountingExact, Idle, NEW j \in Job
    PROVE  ~Live(j)
<1> DEFINE k == permit[j].kind
<1>1. k \in Kind
  BY DEF TypeOK, Permits
<1>2. Cardinality(LiveOf(k)) = 0
  BY <1>1 DEF AccountingExact, Idle
<1>3. LiveOf(k) = {}
  BY <1>2, LiveFinite, FS_EmptySet
<1> QED
  BY <1>3 DEF LiveOf

\* Admitting a job adds one to its kind and touches no other.
LEMMA CountAdmitted ==
    ASSUME TypeOK, AccountingExact, NEW j \in Job, NEW k \in Kind, ~Live(j),
           active' = [active EXCEPT ![k] = @ + 1],
           permit' = [permit EXCEPT ![j] = [kind |-> k, released |-> FALSE]]
    PROVE  AccountingExact'
<1> SUFFICES ASSUME NEW i \in Kind
             PROVE  active'[i] = Cardinality(LiveOf(i)')
  BY DEF AccountingExact
<1>1. permit \in [Job -> Permits] /\ active \in [Kind -> Nat]
  BY DEF TypeOK
<1>2. active[i] = Cardinality(LiveOf(i))
  BY DEF AccountingExact
<1>3. CASE i = k
  <2>1. LiveOf(i)' = LiveOf(i) \cup {j} /\ j \notin LiveOf(i)
    BY <1>1, <1>3 DEF LiveOf, Live
  <2>2. IsFiniteSet(LiveOf(i))
    BY LiveFinite
  <2>3. Cardinality(LiveOf(i) \cup {j}) = Cardinality(LiveOf(i)) + 1
    BY <2>1, <2>2, FS_AddElement
  <2>4. active'[i] = active[i] + 1
    BY <1>1, <1>3
  <2> QED
    BY <1>2, <2>1, <2>3, <2>4
<1>4. CASE i # k
  <2>1. LiveOf(i)' = LiveOf(i)
    BY <1>1, <1>4 DEF LiveOf, Live
  <2> QED
    BY <1>1, <1>2, <1>4, <2>1
<1> QED
  BY <1>3, <1>4

\* The first release of a permit takes one from its kind and from no other.
LEMMA CountReleased ==
    ASSUME TypeOK, AccountingExact, NEW j \in Job, Live(j),
           permit' = [permit EXCEPT ![j].released = TRUE],
           active' = [active EXCEPT ![permit[j].kind] = Decremented(@)]
    PROVE  AccountingExact'
<1> DEFINE k == permit[j].kind
<1> SUFFICES ASSUME NEW i \in Kind
             PROVE  active'[i] = Cardinality(LiveOf(i)')
  BY DEF AccountingExact
<1>1. permit \in [Job -> Permits] /\ active \in [Kind -> Nat] /\ k \in Kind
  BY DEF TypeOK, Permits
<1>2. active[i] = Cardinality(LiveOf(i)) /\ active[i] \in Nat
  BY <1>1 DEF AccountingExact
<1>3. CASE i = k
  <2>1. LiveOf(i)' = LiveOf(i) \ {j} /\ j \in LiveOf(i)
    BY <1>1, <1>3 DEF LiveOf, Live, Permits
  <2>2. IsFiniteSet(LiveOf(i))
    BY LiveFinite
  <2>5. Cardinality(LiveOf(i) \ {j}) = Cardinality(LiveOf(i)) - 1
    BY <2>1, <2>2, FS_RemoveElement
  <2>3. active[i] # 0
    BY <1>2, <2>1, <2>2, FS_EmptySet
  <2>4. active'[i] = Decremented(active[i])
    BY <1>1, <1>3
  <2> QED
    BY <1>2, <2>1, <2>3, <2>4, <2>5 DEF Decremented
<1>4. CASE i # k
  <2>1. LiveOf(i)' = LiveOf(i)
    BY <1>1, <1>4 DEF LiveOf, Live, Permits
  <2> QED
    BY <1>1, <1>2, <1>4, <2>1
<1> QED
  BY <1>3, <1>4

---------------------------------------------------------------------------
\* Each action preserves the inductive invariant.

\* An updater's call.
LEMMA UpdaterInv ==
    ASSUME Inv, UpdaterCall
    PROVE  Inv'
<1>1. /\ gate' \in Gates /\ disk' \in Markers
      /\ GateShape' /\ SealDurable'
      /\ gate'.sealed => gate.sealed \/ Idle
      /\ UNCHANGED <<proc, active, permit, now>>
  BY UpdaterStep, GateStepInv
<1>2. TypeOK'
  BY <1>1 DEF Inv, TypeOK
<1>3. proc # "down"
  BY DEF UpdaterCall, Prepare, Seal, ConfirmBootstrap, Cancel, Serving
<1>4. \A j \in Job : Live(j)' = Live(j)
  BY <1>1 DEF Live
<1>5. AccountingExact'
  <2>1. \A k \in Kind : LiveOf(k)' = LiveOf(k)
    BY <1>1 DEF LiveOf, Live
  <2> QED
    BY <1>1, <2>1 DEF Inv, AccountingExact
<1>6. SealedIdle'
  BY <1>1, <1>4, IdleMeansNone DEF Inv, SealedIdle
<1>7. Shape'
  BY <1>1, <1>3, <1>4 DEF Inv, Shape, GateShape
<1> QED
  BY <1>1, <1>2, <1>5, <1>6, <1>7 DEF Inv

\* A poll of the status, by anyone or by a process that waits to bootstrap.
LEMMA PollInv ==
    ASSUME Inv, Status \/ BootstrapPoll
    PROVE  Inv'
<1>1. PICK e \in ExpireOutcomes : gate' = e.gate /\ disk' = e.disk
  BY DEF Status, BootstrapPoll
<1>2. gate' = gate \/ gate' = Open
  BY <1>1, ExpireCases
<1>3. /\ gate' \in Gates /\ disk' \in Markers
      /\ GateShape' /\ SealDurable'
  BY <1>1, ExpireStep, GateStepInv
<1>4. /\ UNCHANGED <<active, permit, now>>
      /\ proc # "down" /\ proc' # "down"
      /\ proc' \in {"waiting", "running"} /\ (proc' # "running" => proc # "running")
  BY DEF Status, BootstrapPoll, Serving, Inv, TypeOK
<1>5. TypeOK'
  BY <1>3, <1>4 DEF Inv, TypeOK
<1>6. \A j \in Job : Live(j)' = Live(j)
  BY <1>4 DEF Live
<1>7. AccountingExact'
  <2>1. \A k \in Kind : LiveOf(k)' = LiveOf(k)
    BY <1>4 DEF LiveOf, Live
  <2> QED
    BY <1>4, <2>1 DEF Inv, AccountingExact
<1>8. SealedIdle'
  BY <1>2, <1>6, Fields DEF Inv, SealedIdle
<1>9. Shape'
  BY <1>3, <1>4, <1>6 DEF Inv, Shape, GateShape
<1> QED
  BY <1>3, <1>5, <1>7, <1>8, <1>9 DEF Inv

\* A request for a permit.
LEMMA AcquireInv ==
    ASSUME Inv, NEW j \in Job, NEW k \in Kind, Acquire(j, k)
    PROVE  Inv'
<1>1. PICK e \in ExpireOutcomes :
        /\ gate' = e.gate /\ disk' = e.disk
        /\ \/ e.gate.draining /\ UNCHANGED <<active, permit>>
           \/ /\ ~e.gate.draining
              /\ active' = [active EXCEPT ![k] = @ + 1]
              /\ permit' = [permit EXCEPT ![j] = [kind |-> k, released |-> FALSE]]
  BY DEF Acquire
<1>2. /\ gate' \in Gates /\ disk' \in Markers
      /\ GateShape' /\ SealDurable'
  BY <1>1, ExpireStep, GateStepInv
<1>3. proc' = proc /\ now' = now /\ proc = "running" /\ ~Live(j)
  BY DEF Acquire
<1>4. permit \in [Job -> Permits] /\ active \in [Kind -> Nat]
  BY DEF Inv, TypeOK
<1>5. TypeOK'
  <2>1. permit' \in [Job -> Permits]
    <3>1. [kind |-> k, released |-> FALSE] \in Permits
      BY DEF Permits
    <3> QED
      BY <1>1, <1>4, <3>1
  <2>2. active' \in [Kind -> Nat]
    BY <1>1, <1>4
  <2> QED
    BY <1>2, <1>3, <2>1, <2>2 DEF Inv, TypeOK
<1>6. Shape'
  BY <1>2, <1>3 DEF Shape, GateShape
<1>7. CASE gate'.draining /\ UNCHANGED <<active, permit>>
  <2>1. gate' = gate
    BY <1>1, <1>7, ExpireCases, Fields
  <2>2. /\ \A i \in Job : Live(i)' = Live(i)
        /\ \A i \in Kind : LiveOf(i)' = LiveOf(i)
    BY <1>7 DEF LiveOf, Live
  <2> QED
    BY <1>2, <1>5, <1>6, <1>7, <2>1, <2>2 DEF Inv, AccountingExact, SealedIdle
<1>8. CASE /\ ~gate'.draining
           /\ active' = [active EXCEPT ![k] = @ + 1]
           /\ permit' = [permit EXCEPT ![j] = [kind |-> k, released |-> FALSE]]
  <2>1. AccountingExact'
    BY <1>3, <1>8, CountAdmitted DEF Inv
  <2>2. SealedIdle'
    BY <1>2, <1>8 DEF SealedIdle, GateShape
  <2> QED
    BY <1>2, <1>5, <1>6, <2>1, <2>2 DEF Inv
<1> QED
  BY <1>1, <1>7, <1>8

\* A release, first or repeated.
LEMMA ReleaseInv ==
    ASSUME Inv, NEW j \in Job, Release(j)
    PROVE  Inv'
<1>1. UNCHANGED <<proc, gate, disk, now>>
  BY DEF Release
<1>2. permit \in [Job -> Permits] /\ active \in [Kind -> Nat]
  BY DEF Inv, TypeOK
<1>3. CASE Live(j)
  <2>1. /\ permit' = [permit EXCEPT ![j].released = TRUE]
        /\ active' = [active EXCEPT ![permit[j].kind] = Decremented(@)]
    BY <1>3 DEF Release
  <2>2. permit' \in [Job -> Permits]
    <3>1. [permit[j] EXCEPT !.released = TRUE] \in Permits
      BY <1>2 DEF Permits
    <3> QED
      BY <1>2, <2>1, <3>1
  <2>3. active' \in [Kind -> Nat]
    <3>1. permit[j].kind \in Kind
      BY <1>2 DEF Permits
    <3>2. Decremented(active[permit[j].kind]) \in Nat
      BY <1>2, <3>1 DEF Decremented
    <3> QED
      BY <1>2, <2>1, <3>2
  <2>4. \A i \in Job : Live(i)' => Live(i)
    BY <1>2, <2>1 DEF Live, Permits
  <2>5. TypeOK' /\ Shape' /\ SealedIdle' /\ SealDurable'
    BY <1>1, <2>2, <2>3, <2>4
       DEF Inv, TypeOK, Shape, SealedIdle, SealDurable
  <2>6. AccountingExact'
    BY <1>3, <2>1, CountReleased DEF Inv
  <2> QED
    BY <2>5, <2>6 DEF Inv
<1>4. CASE ~Live(j)
  <2>1. UNCHANGED vars
    BY <1>1, <1>4 DEF Release, vars
  <2> QED
    BY <2>1 DEF vars, Inv, TypeOK, Shape, AccountingExact, SealedIdle,
       SealDurable, LiveOf, Live
<1> QED
  BY <1>3, <1>4

\* What a marker that this code wrote can hold.
Marker(d) ==
    /\ d \in Markers
    /\ d.sealed => d = SealMarker(d.lease) /\ d.lease \in Lease
    /\ d.lease = NoLease => d = NoMarker

\* What a start makes of the marker it finds.
LEMMA RestoreCases ==
    ASSUME NEW d, Marker(d), NEW r \in RestoreOutcomes(d)
    PROVE  \/ d.sealed /\ r.ok /\ r.gate = Sealed(d.lease) /\ r.disk = d
           \/ ~d.sealed /\ r.gate = Open /\ r.disk \in {d, NoMarker}
           \/ /\ ~d.sealed /\ d.lease \in Lease
              /\ r.gate = Draining(d.lease, now + TTL)
              /\ r.disk \in {d, LeaseMarker(d.lease, now + TTL)}
<1>1. d.lease = NoLease \/ d.lease \in Lease
  BY DEF Marker, Markers
<1>2. CASE d = NoMarker
  BY <1>2, Fields DEF RestoreOutcomes
<1>3. CASE d # NoMarker /\ d.sealed
  BY <1>3 DEF RestoreOutcomes
<1>4. CASE d # NoMarker /\ ~d.sealed /\ d.expires <= now
  BY <1>4, PersistCases DEF RestoreOutcomes, RemoveOutcomes
<1>5. CASE d # NoMarker /\ ~d.sealed /\ ~(d.expires <= now)
  <2>1. d.lease \in Lease
    BY <1>1, <1>5 DEF Marker
  <2> QED
    BY <1>5, <2>1, PersistCases DEF RestoreOutcomes
<1> QED
  BY <1>2, <1>3, <1>4, <1>5

\* A start from any such marker, of a process or in vain.
LEMMA StartInv ==
    ASSUME Inv, proc = "down", NEW d, Marker(d), NEW r \in RestoreOutcomes(d), Started(r)
    PROVE  Inv'
<1>1. /\ disk' = r.disk /\ gate' \in {r.gate, Open}
      /\ proc' \in {"down", "waiting", "running"}
      /\ proc' = "down" => gate' = Open
      /\ UNCHANGED <<active, permit, now>>
  BY DEF Started
<1>2. \A j \in Job : ~Live(j) /\ ~Live(j)'
  BY <1>1 DEF Inv, Shape, Live
<1>3. now + TTL \in Nat
  BY TimeAssumption DEF Inv, TypeOK
<1>4. gate' \in Gates /\ disk' \in Markers /\ GateShape' /\ SealDurable'
  <2>1. CASE d.sealed /\ r.gate = Sealed(d.lease) /\ r.disk = d
    <3>1. gate' = Sealed(d.lease) \/ gate' = Open
      BY <1>1, <2>1
    <3>2. /\ Sealed(d.lease).lease = d.lease
          /\ Sealed(d.lease).draining /\ ~Sealed(d.lease).authorized
      BY DEF Sealed, Draining, Open
    <3> QED
      BY <1>1, <2>1, <3>1, <3>2, Values, Fields
         DEF Marker, GateShape, SealDurable
  <2>2. CASE ~d.sealed /\ r.gate = Open /\ r.disk \in {d, NoMarker}
    BY <1>1, <2>2, Values, Fields DEF Marker, GateShape, SealDurable
  <2>3. CASE /\ ~d.sealed /\ d.lease \in Lease
             /\ r.gate = Draining(d.lease, now + TTL)
             /\ r.disk \in {d, LeaseMarker(d.lease, now + TTL)}
    BY <1>1, <1>3, <2>3, Values, Fields, LeaseAssumption
       DEF Marker, GateShape, SealDurable
  <2> QED
    BY <2>1, <2>2, <2>3, RestoreCases
<1>5. AccountingExact'
  <2>1. \A k \in Kind : LiveOf(k)' = LiveOf(k)
    BY <1>1 DEF LiveOf, Live
  <2> QED
    BY <1>1, <2>1 DEF Inv, AccountingExact
<1>6. TypeOK' /\ Shape' /\ SealedIdle'
  BY <1>1, <1>2, <1>4 DEF Inv, TypeOK, Shape, GateShape, SealedIdle
<1> QED
  BY <1>4, <1>5, <1>6 DEF Inv

\* The marker on disk is one of those.
LEMMA DiskMarker == Inv => Marker(disk)
BY DEF Inv, TypeOK, Shape, Marker

\* A start.
LEMMA BootInv ==
    ASSUME Inv, Boot
    PROVE  Inv'
BY StartInv, DiskMarker DEF Boot

\* The death of the process.
LEMMA CrashInv ==
    ASSUME Inv, Crash
    PROVE  Inv'
<1>1. /\ proc' = "down" /\ gate' = Open
      /\ active' = [k \in Kind |-> 0]
      /\ permit' = [j \in Job |-> NilPermit]
      /\ UNCHANGED <<disk, now>>
  BY DEF Crash
<1>2. TypeOK'
  BY <1>1, Values DEF Inv, TypeOK
<1>3. \A j \in Job : ~Live(j)'
  BY <1>1, Values DEF Live
<1>4. AccountingExact'
  <2>1. \A k \in Kind : LiveOf(k)' = {}
    BY <1>3 DEF LiveOf, Live
  <2> QED
    BY <1>1, <2>1, FS_EmptySet DEF AccountingExact
<1>5. Shape' /\ SealedIdle' /\ SealDurable'
  BY <1>1, <1>3, Fields DEF Inv, Shape, SealedIdle, SealDurable
<1> QED
  BY <1>2, <1>4, <1>5 DEF Inv

\* The passing of time.
LEMMA TickInv ==
    ASSUME Inv, Tick
    PROVE  Inv'
<1>1. now' \in 0..MaxTime /\ UNCHANGED <<proc, gate, active, permit, disk>>
  BY TimeAssumption DEF Tick, Inv, TypeOK
<1> QED
  BY <1>1 DEF Inv, TypeOK, Shape, AccountingExact, SealedIdle, SealDurable,
     LiveOf, Live

---------------------------------------------------------------------------
\* The inductive invariant holds at first,
LEMMA InitInv == Init => Inv
<1> SUFFICES ASSUME Init PROVE Inv
  OBVIOUS
<1>1. TypeOK
  BY Values, TimeAssumption DEF Init, TypeOK
<1>2. \A j \in Job : ~Live(j)
  BY Values DEF Init, Live
<1>3. AccountingExact
  <2>1. \A k \in Kind : LiveOf(k) = {}
    BY <1>2 DEF LiveOf
  <2> QED
    BY <2>1, FS_EmptySet DEF Init, AccountingExact
<1>4. Shape /\ SealedIdle /\ SealDurable
  BY <1>2, Fields DEF Init, Shape, SealedIdle, SealDurable
<1> QED
  BY <1>1, <1>3, <1>4 DEF Inv

\* every step preserves it,
LEMMA NextInv ==
    ASSUME Inv, [Next]_vars
    PROVE  Inv'
<1>1. CASE JobCall
  BY <1>1, AcquireInv, ReleaseInv DEF JobCall
<1>2. CASE UNCHANGED vars
  BY <1>2 DEF vars, Inv, TypeOK, Shape, AccountingExact, SealedIdle,
     SealDurable, LiveOf, Live
<1> QED
  BY <1>1, <1>2, UpdaterInv, PollInv, BootInv, CrashInv, TickInv DEF Next

\* and so it holds in every reachable state.
THEOREM Invariance == Spec => []Inv
<1>1. Inv /\ [Next]_vars => Inv'
  BY NextInv
<1> QED
  BY <1>1, InitInv, PTL DEF Spec

---------------------------------------------------------------------------
\* The checked invariants, for every value of the constants.

\* Type correctness.
THEOREM TypeCorrect == Spec => []TypeOK
BY Invariance, PTL DEF Inv

\* The counters Seal trusts are exactly the unreleased permits (gate.go,
\* Permit.Release and Gate.release).
THEOREM CountersExact == Spec => []AccountingExact
BY Invariance, PTL DEF Inv

\* No admitted work runs behind a seal (gate.go, Seal and Acquire).
THEOREM SealExcludesWork == Spec => []SealedIdle
BY Invariance, PTL DEF Inv

\* An acknowledged, unauthorized seal is on disk (gate.go, Seal and restore).
THEOREM SealsAreDurable == Spec => []SealDurable
BY Invariance, PTL DEF Inv

---------------------------------------------------------------------------
\* Steps.

\* A sealed gate survives every GateStep unless it was authorized.
LEMMA GateStepKeepsSeal ==
    ASSUME Inv, GateStep, gate.sealed, ~gate.authorized
    PROVE  gate'.sealed /\ gate'.lease = gate.lease /\ disk' = disk
<1>1. gate \in Gates
  BY DEF Inv, TypeOK
<1>2. gate' = gate \/ gate' = [gate EXCEPT !.authorized = TRUE]
  BY DEF GateStep
<1> QED
  BY <1>1, <1>2 DEF GateStep, Gates

\* A seal outlives time, foreign updaters, failures, crashes and restarts
\* until this very process was authorized (gate.go, ConfirmBootstrap).
THEOREM SealsAreHeld == Spec => SealHeld
<1>1. Inv /\ [Next]_vars =>
        [\A l \in Lease :
            HoldsSeal(l) /\ ~gate.authorized => HoldsSeal(l)']_vars
  <2> SUFFICES ASSUME Inv, Next, NEW l \in Lease,
                      HoldsSeal(l), ~gate.authorized
               PROVE  HoldsSeal(l)'
    BY DEF vars
  <2>1. /\ disk = SealMarker(l) /\ disk.sealed /\ disk.lease = l
        /\ proc # "down" => gate.sealed /\ gate.lease = l
    BY DEF HoldsSeal, SealMarker
  <2>2. CASE GateStep /\ proc # "down"
    BY <2>1, <2>2, GateStepKeepsSeal DEF HoldsSeal
  <2>3. CASE UpdaterCall
    BY <2>2, <2>3, UpdaterStep
       DEF UpdaterCall, Prepare, Seal, ConfirmBootstrap, Cancel, Serving
  <2>4. CASE JobCall
    <3>1. CASE \E j \in Job : Release(j)
      BY <2>1, <3>1 DEF Release, HoldsSeal
    <3>2. CASE \E j \in Job, k \in Kind : Acquire(j, k)
      <4>1. PICK e \in ExpireOutcomes : gate' = e.gate /\ disk' = e.disk
        BY <3>2 DEF Acquire
      <4> QED
        BY <2>2, <3>2, <4>1, ExpireStep DEF Acquire
    <3> QED
      BY <2>4, <3>1, <3>2 DEF JobCall
  <2>5. CASE Status \/ BootstrapPoll
    <3>1. PICK e \in ExpireOutcomes : gate' = e.gate /\ disk' = e.disk
      BY <2>5 DEF Status, BootstrapPoll
    <3> QED
      BY <2>2, <2>5, <3>1, ExpireStep DEF Status, BootstrapPoll, Serving
  <2>6. CASE Boot
    <3>1. PICK r \in RestoreOutcomes(disk) : Started(r)
      BY <2>6 DEF Boot
    <3>2. r.gate = Sealed(l) /\ r.disk = disk
      BY <2>1, RestoreCases, DiskMarker
    <3> QED
      BY <2>1, <3>1, <3>2 DEF Started, HoldsSeal, Sealed, Draining, Open
  <2>7. CASE Crash
    BY <2>1, <2>7 DEF Crash, HoldsSeal
  <2>8. CASE Tick
    BY <2>1, <2>8 DEF Tick, HoldsSeal
  <2> QED
    BY <2>3, <2>4, <2>5, <2>6, <2>7, <2>8 DEF Next
<1> QED
  BY <1>1, Invariance, PTL DEF Spec, SealHeld

\* Of an unexpired, unsealed lease every call of an updater keeps the owner,
\* unless it is the owner's own, successful Cancel.
LEMMA UpdaterHonours ==
    ASSUME UpdaterCall, NEW l \in Lease, Owns(gate, l), ~gate.sealed,
           ~Expired(gate), gate \in Gates
    PROVE  Owns(gate', l) \/ Cancel(l, "ok")
<1>1. \A e \in ExpireOutcomes : e.gate = gate
  BY ExpireCases
<1>2. PICK m \in Lease, result \in Results :
        \/ Prepare(m, result) \/ Seal(m, result)
        \/ ConfirmBootstrap(m, result) \/ Cancel(m, result)
  BY DEF UpdaterCall
<1>3. CASE Prepare(m, result)
  <2>1. \/ gate' = gate
        \/ Owns(gate, m) /\ gate' = Draining(m, now + TTL)
    BY <1>1, <1>3 DEF Prepare, Owns
  <2> QED
    BY <2>1 DEF Owns, Draining, Open
<1>4. CASE Seal(m, result)
  <2>1. gate' = gate \/ (Owns(gate, m) /\ gate' = Sealed(m))
    BY <1>1, <1>4 DEF Seal
  <2> QED
    BY <2>1 DEF Owns, Sealed, Draining, Open
<1>5. CASE ConfirmBootstrap(m, result)
  BY <1>1, <1>5 DEF ConfirmBootstrap, Owns
<1>6. CASE Cancel(m, result)
  <2>1. PICK e \in ExpireOutcomes :
          \/ gate' = e.gate
          \/ /\ Owns(e.gate, m)
             /\ \E r \in RemoveOutcomes(e.disk) :
                  /\ result = IF r.ok THEN "ok" ELSE "failed"
                  /\ gate' = IF r.ok THEN Open ELSE e.gate
    BY <1>6 DEF Cancel
  <2>2. gate' = gate \/ (m = l /\ result = "ok")
    BY <1>1, <2>1 DEF Owns
  <2> QED
    BY <1>6, <2>2 DEF Owns
<1> QED
  BY <1>2, <1>3, <1>4, <1>5, <1>6

\* A lease that has not expired is opened by nothing but its owner's Cancel or
\* the death of the process (gate.go, Prepare and expireLeaseLocked).
THEOREM LeasesAreHonoured == Spec => LeaseHonoured
<1>1. Inv /\ [Next]_vars =>
        [\A l \in Lease :
            /\ Owns(gate, l) /\ ~gate.sealed /\ gate.expires > now
            /\ proc' # "down"
            => Owns(gate', l) \/ Cancel(l, "ok")]_vars
  <2> SUFFICES ASSUME Inv, Next, NEW l \in Lease, Owns(gate, l), ~gate.sealed,
                      gate.expires > now, proc' # "down"
               PROVE  Owns(gate', l) \/ Cancel(l, "ok")
    BY DEF vars
  <2>1. gate \in Gates /\ now \in Nat
    BY DEF Inv, TypeOK
  <2>2. ~Expired(gate)
    BY <2>1 DEF Expired, Gates
  <2>3. \A e \in ExpireOutcomes : e.gate = gate
    BY <2>2, ExpireCases
  <2>4. CASE UpdaterCall
    BY <2>1, <2>2, <2>4, UpdaterHonours
  <2>5. CASE gate' = gate
    BY <2>5
  <2>6. CASE JobCall \/ Status \/ BootstrapPoll \/ Tick
    BY <2>3, <2>5, <2>6 DEF JobCall, Acquire, Release, Status, BootstrapPoll, Tick
  <2>7. ~Boot
    BY Fields DEF Boot, Inv, Shape, Owns
  <2>8. ~Crash
    BY DEF Crash
  <2> QED
    BY <2>4, <2>6, <2>7, <2>8 DEF Next
<1> QED
  BY <1>1, Invariance, PTL DEF Spec, LeaseHonoured

---------------------------------------------------------------------------
(* The gate implements AdmissionBarrier: under the mapping of MCWorkGate   *)
(* every step of the gate is a step of the barrier or leaves it unchanged.  *)

\* The process lives before and after the step.
Alive == proc # "down" /\ proc' # "down"

\* Nothing of the barrier changes.
Stutter == UNCHANGED <<BarrierState, BarrierOwner, gate.authorized, Working>>

\* A step of the barrier or none.
BarrierStep == [Barrier!Next]_(Barrier!vars)

\* Unchanged values of the mapping are an unchanged barrier.
LEMMA StutterStep ==
    ASSUME Stutter
    PROVE  BarrierStep
BY DEF Stutter, BarrierStep, Barrier!vars

\* The jobs at work are those whose permits are live.
LEMMA SamePermits ==
    ASSUME permit' = permit
    PROVE  Working' = Working
BY DEF Working, Live

---------------------------------------------------------------------------
\* What an updater, a poll or an expiry does to a living gate.

\* Every GateStep of a living process is a step of the barrier: a new lease
\* drains or takes over, Seal closes, ConfirmBootstrap confirms, Cancel and
\* expiry lift.
LEMMA GateStepImplements ==
    ASSUME Inv, GateStep, Alive, permit' = permit
    PROVE  BarrierStep
<1>1. Working' = Working
  BY SamePermits
<1>2. /\ BarrierState = IF gate.sealed THEN "sealed"
                        ELSE IF gate.draining THEN "draining" ELSE "open"
      /\ BarrierState' = IF gate'.sealed THEN "sealed"
                         ELSE IF gate'.draining THEN "draining" ELSE "open"
      /\ BarrierOwner = gate.lease /\ BarrierOwner' = gate'.lease
  BY DEF Alive, BarrierState, BarrierOwner
<1>3. /\ gate \in Gates /\ (gate.authorized => gate.sealed)
      /\ gate.sealed => gate.draining
      /\ ~gate.draining => gate = Open
  BY DEF Inv, TypeOK, Shape
<1>4. CASE gate' = gate
  BY <1>1, <1>2, <1>4, StutterStep DEF Stutter
<1>5. CASE gate' = Open /\ gate.draining /\ (gate.sealed => gate.authorized)
  <2>1. Barrier!Lift
    BY <1>1, <1>2, <1>5 DEF Barrier!Lift, Open
  <2> QED
    BY <2>1 DEF BarrierStep, Barrier!Next
<1>6. CASE ~gate.sealed /\ \E l \in Lease : \E t \in Nat : gate' = Draining(l, t)
  <2>1. PICK l \in Lease, t \in Nat : gate' = Draining(l, t)
    BY <1>6
  <2>2. /\ gate'.lease = l /\ ~gate'.authorized /\ ~gate.authorized
        /\ gate.authorized \in BOOLEAN /\ gate'.authorized \in BOOLEAN
        /\ BarrierState' = "draining"
    BY <1>2, <1>3, <1>6, <2>1 DEF Draining, Open, Gates
  <2>3. CASE gate.draining
    <3>1. Barrier!TakeOver(l)
      BY <1>1, <1>2, <1>6, <2>2, <2>3 DEF Barrier!TakeOver
    <3> QED
      BY <3>1 DEF BarrierStep, Barrier!Next
  <2>4. CASE ~gate.draining
    <3>1. Barrier!Drain(l)
      BY <1>1, <1>2, <1>6, <2>2, <2>4 DEF Barrier!Drain
    <3> QED
      BY <3>1 DEF BarrierStep, Barrier!Next
  <2> QED
    BY <2>3, <2>4
<1>7. CASE gate.draining /\ ~gate.sealed /\ Idle /\ gate' = Sealed(gate.lease)
  <2>1. Working = {}
    BY <1>7, IdleMeansNone DEF Inv, Working
  <2>2. gate'.sealed /\ gate'.lease = gate.lease /\ gate'.authorized = gate.authorized
    BY <1>3, <1>7 DEF Sealed, Draining, Open, Gates
  <2>3. Barrier!Close
    BY <1>1, <1>2, <1>7, <2>1, <2>2 DEF Barrier!Close
  <2> QED
    BY <2>3 DEF BarrierStep, Barrier!Next
<1>8. CASE gate.sealed /\ gate' = [gate EXCEPT !.authorized = TRUE]
  <2>1. gate'.sealed /\ gate'.lease = gate.lease /\ gate'.authorized = TRUE
    BY <1>3, <1>8 DEF Gates
  <2>2. Barrier!Confirm
    BY <1>1, <1>2, <1>8, <2>1 DEF Barrier!Confirm
  <2> QED
    BY <2>2 DEF BarrierStep, Barrier!Next
<1> QED
  BY <1>3, <1>4, <1>5, <1>6, <1>7, <1>8 DEF GateStep

\* A call of an updater.
LEMMA UpdaterImplements ==
    ASSUME Inv, UpdaterCall
    PROVE  BarrierStep
<1>1. Alive /\ permit' = permit
  BY UpdaterStep
     DEF UpdaterCall, Prepare, Seal, ConfirmBootstrap, Cancel, Serving, Alive
<1> QED
  BY <1>1, UpdaterStep, GateStepImplements

\* A poll of the status.
LEMMA PollImplements ==
    ASSUME Inv, Status \/ BootstrapPoll
    PROVE  BarrierStep
<1>1. PICK e \in ExpireOutcomes : gate' = e.gate /\ disk' = e.disk
  BY DEF Status, BootstrapPoll
<1>2. Alive /\ permit' = permit
  BY DEF Status, BootstrapPoll, Serving, Alive
<1> QED
  BY <1>1, <1>2, ExpireStep, GateStepImplements

---------------------------------------------------------------------------
\* Jobs

\* An admitted job begins, behind an open barrier or at the end of an
\* abandoned drain; a refused one changes nothing or finds the drain over.
LEMMA AcquireImplements ==
    ASSUME Inv, NEW j \in Job, NEW k \in Kind, Acquire(j, k)
    PROVE  BarrierStep
<1>1. PICK e \in ExpireOutcomes :
        /\ gate' = e.gate /\ disk' = e.disk
        /\ \/ e.gate.draining /\ UNCHANGED <<active, permit>>
           \/ /\ ~e.gate.draining
              /\ permit' = [permit EXCEPT ![j] = [kind |-> k, released |-> FALSE]]
  BY DEF Acquire
<1>2. Alive
  BY DEF Acquire, Alive
<1>3. CASE permit' = permit
  BY <1>1, <1>2, <1>3, ExpireStep, GateStepImplements
<1>4. CASE /\ ~gate'.draining
           /\ permit' = [permit EXCEPT ![j] = [kind |-> k, released |-> FALSE]]
  <2>1. Working' = Working \cup {j}
    BY <1>4 DEF Working, Live, Inv, TypeOK
  <2>2. /\ BarrierState = IF gate.sealed THEN "sealed"
                          ELSE IF gate.draining THEN "draining" ELSE "open"
        /\ BarrierState' = IF gate'.sealed THEN "sealed"
                           ELSE IF gate'.draining THEN "draining" ELSE "open"
        /\ BarrierOwner = gate.lease /\ BarrierOwner' = gate'.lease
    BY <1>2 DEF Alive, BarrierState, BarrierOwner
  <2>3. /\ gate \in Gates /\ (gate.authorized => gate.sealed)
        /\ gate.sealed => gate.draining
    BY DEF Inv, TypeOK, Shape
  <2>4. CASE gate' = gate
    <3>1. Barrier!Begin(j)
      BY <1>4, <2>1, <2>2, <2>3, <2>4 DEF Barrier!Begin
    <3> QED
      BY <3>1 DEF BarrierStep, Barrier!Next
  <2>5. CASE Expired(gate) /\ gate' = Open
    <3>1. gate.draining /\ ~gate.sealed /\ gate.authorized = FALSE
      BY <2>3, <2>5 DEF Expired, Gates
    <3>2. Barrier!LiftAndBegin(j)
      BY <2>1, <2>2, <2>5, <3>1 DEF Barrier!LiftAndBegin, Open
    <3> QED
      BY <3>2 DEF BarrierStep, Barrier!Next
  <2> QED
    BY <1>1, <2>4, <2>5, ExpireCases
<1> QED
  BY <1>1, <1>3, <1>4

\* A first release ends a job, a repeated one changes nothing.
LEMMA ReleaseImplements ==
    ASSUME Inv, NEW j \in Job, Release(j)
    PROVE  BarrierStep
<1>1. BarrierState' = BarrierState /\ BarrierOwner' = BarrierOwner /\ gate' = gate
  BY DEF Release, BarrierState, BarrierOwner
<1>2. CASE Live(j)
  <2>1. Working' = Working \ {j}
    BY <1>2 DEF Release, Working, Live, Inv, TypeOK, Permits
  <2>2. Barrier!End(j)
    BY <1>1, <2>1 DEF Barrier!End
  <2> QED
    BY <2>2 DEF BarrierStep, Barrier!Next
<1>3. CASE ~Live(j)
  BY <1>1, <1>3, SamePermits, StutterStep DEF Release, Stutter
<1> QED
  BY <1>2, <1>3

---------------------------------------------------------------------------
\* Death and start

\* What a dead process left, and what a start finds, is a barrier.
BarrierShape ==
    /\ BarrierState \in {"open", "draining", "sealed"}
    /\ BarrierState = "open" => BarrierOwner = NoLease
    /\ BarrierState # "open" => BarrierOwner \in Lease

\* It follows from the inductive invariant in every process state.
LEMMA ShapeOfBarrier ==
    ASSUME Inv
    PROVE  BarrierShape
<1>1. /\ gate.sealed => gate.draining
      /\ gate.draining => gate.lease \in Lease
      /\ ~gate.draining => gate.lease = NoLease
      /\ disk.sealed => disk.lease \in Lease
      /\ disk # NoMarker => disk.lease \in Lease
      /\ disk = NoMarker => disk.lease = NoLease
  BY DEF Inv, TypeOK, Shape, Markers, Open, NoMarker
<1>2. CASE proc = "down"
  BY <1>1, <1>2, Fields DEF BarrierShape, BarrierState, BarrierOwner
<1>3. CASE proc # "down"
  BY <1>1, <1>3 DEF BarrierShape, BarrierState, BarrierOwner
<1> QED
  BY <1>2, <1>3

\* A crash is the death of the barrier, which keeps an unconfirmed seal.
LEMMA CrashImplements ==
    ASSUME Inv, Inv', Crash
    PROVE  BarrierStep
<1>1. /\ proc # "down" /\ proc' = "down" /\ disk' = disk
      /\ gate'.authorized = FALSE /\ Working' = {}
  BY CrashInv, Values DEF Crash, Open, Working, Live
<1>2. BarrierShape'
  BY ShapeOfBarrier, PTL
<1>3. CASE BarrierState = "sealed" /\ ~gate.authorized
  <2>1. gate.sealed /\ disk = SealMarker(gate.lease)
    BY <1>1, <1>3 DEF BarrierState, Inv, SealDurable
  <2>2. BarrierState' = "sealed" /\ BarrierOwner' = BarrierOwner
    BY <1>1, <1>3, <2>1 DEF BarrierState, BarrierOwner, SealMarker
  <2>3. Barrier!Die
    BY <1>1, <1>3, <2>2 DEF Barrier!Die
  <2> QED
    BY <2>3 DEF BarrierStep, Barrier!Next
<1>4. CASE ~(BarrierState = "sealed" /\ ~gate.authorized)
  <2>1. Barrier!Die
    BY <1>1, <1>2, <1>4 DEF Barrier!Die, BarrierShape
  <2> QED
    BY <2>1 DEF BarrierStep, Barrier!Next
<1> QED
  BY <1>3, <1>4

\* A start finds the seal of its marker again, and may find a lease expired.
LEMMA BootImplements ==
    ASSUME Inv, Inv', Boot
    PROVE  BarrierStep
<1>1. PICK r \in RestoreOutcomes(disk) : Started(r)
  BY DEF Boot
<1>2. /\ proc = "down" /\ permit' = permit /\ Working = {} /\ Working' = {}
      /\ gate.authorized = FALSE
  BY <1>1, SamePermits DEF Boot, Started, Inv, Shape, Working, Open
<1>3. gate'.authorized = FALSE
  <2>1. r.gate.authorized = FALSE
    <3>1. /\ Open.authorized = FALSE
          /\ \A l : Sealed(l).authorized = FALSE
          /\ \A l, t : Draining(l, t).authorized = FALSE
      BY DEF Sealed, Draining, Open
    <3> QED
      BY <3>1, RestoreCases, DiskMarker
  <2> QED
    BY <1>1, <2>1 DEF Started, Open
<1>4. CASE disk.sealed
  <2>1. r.ok /\ r.gate = Sealed(disk.lease) /\ r.disk = disk
    BY <1>4, Fields DEF RestoreOutcomes
  <2>2. proc' # "down" /\ gate' = Sealed(disk.lease)
    BY <1>1, <2>1 DEF Started
  <2>3. gate'.sealed /\ gate'.lease = disk.lease
    BY <2>2 DEF Sealed, Draining, Open
  <2>4. BarrierState' = BarrierState /\ BarrierOwner' = BarrierOwner
    BY <1>2, <1>4, <2>2, <2>3 DEF BarrierState, BarrierOwner
  <2> QED
    BY <1>2, <1>3, <2>4, StutterStep DEF Stutter
<1>5. CASE ~disk.sealed
  <2>1. BarrierState # "sealed"
    BY <1>2, <1>5 DEF BarrierState
  <2>2. BarrierShape'
    BY ShapeOfBarrier, PTL
  <2>3. Barrier!Die
    BY <1>2, <1>3, <2>1, <2>2 DEF Barrier!Die, BarrierShape
  <2> QED
    BY <2>3 DEF BarrierStep, Barrier!Next
<1> QED
  BY <1>4, <1>5

---------------------------------------------------------------------------
\* The gate implements the barrier: work begins only while it is open, it is
\* sealed only when nothing runs, and a seal is lifted only after it was
\* confirmed in the present life of the process (gate.go).
THEOREM GateImplementsBarrier == Spec => ImplementsBarrier
<1>1. Init => Barrier!Init
  <2> SUFFICES ASSUME Init PROVE Barrier!Init
    OBVIOUS
  <2>1. Working = {}
    BY Values DEF Init, Working, Live
  <2>2. gate.authorized = FALSE /\ BarrierOwner = NoLease
    BY DEF Init, Open, BarrierOwner, NoMarker
  <2>3. BarrierState = "open"
    BY Fields DEF Init, BarrierState
  <2> QED
    BY <2>1, <2>2, <2>3 DEF Barrier!Init
<1>2. Inv /\ Inv' /\ [Next]_vars => [Barrier!Next]_(Barrier!vars)
  <2> SUFFICES ASSUME Inv, Inv', [Next]_vars PROVE BarrierStep
    BY DEF BarrierStep
  <2>1. CASE UpdaterCall
    BY <2>1, UpdaterImplements
  <2>2. CASE JobCall
    BY <2>2, AcquireImplements, ReleaseImplements DEF JobCall
  <2>3. CASE Status \/ BootstrapPoll
    BY <2>3, PollImplements
  <2>4. CASE Boot
    BY <2>4, BootImplements
  <2>5. CASE Crash
    BY <2>5, CrashImplements
  <2>6. CASE Tick \/ UNCHANGED vars
    BY <2>6, SamePermits, StutterStep
       DEF Tick, vars, Stutter, BarrierState, BarrierOwner
  <2> QED
    BY <2>1, <2>2, <2>3, <2>4, <2>5, <2>6 DEF Next
<1> QED
  BY <1>1, <1>2, Invariance, PTL DEF Spec, ImplementsBarrier, Barrier!Spec
=============================================================================
