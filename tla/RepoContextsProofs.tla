------------------------- MODULE RepoContextsProofs -------------------------
(***************************************************************************)
(* Proofs about RepoContexts: for any executions and purges and any number *)
(* of slots, the counted channels that come and go in the maps still make  *)
(* one lock and MaxWorktrees slots, and an execution at work keeps its     *)
(* worktree until a purge takes it.                                        *)
(***************************************************************************)
EXTENDS RepoContexts, ProofLemmas

(* Where an execution or a purge waits for the lock, holds it, has a slot. *)
LockWaits == {"lock", "rlock", "plock"}
LockHeld == {"locked", "clone", "cloning", "add", "remove", "purge"}
Slotted == {"lock", "locked", "clone", "cloning", "add", "use", "rlock", "remove", "capout"}

Where(P) == {p \in Process : proc[p].pc \in P}

-----------------------------------------------------------------------------
(* The inductive invariant *)

Semaphores ==
    [entry : Channel \cup {0}, refs : [Channel -> Int],
     inside : [Channel -> SUBSET Process], of : [Process -> Channel \cup {0}]]

\* A semaphore to which R refer and which H have entered: all of them know the
\* channel of the map, its count is theirs, and no forgotten one is in use.
Sound(s, R, H, size) ==
    /\ s \in Semaphores
    /\ H \in SUBSET R /\ R \in SUBSET Process
    /\ \A p \in Process : s.of[p] = IF p \in R THEN s.entry ELSE 0
    /\ R = {} <=> s.entry = 0
    /\ R # {} => s.refs[s.entry] = Cardinality(R)
    /\ \A c \in Channel : s.inside[c] = IF c = s.entry THEN H ELSE {}
    /\ Cardinality(H) <= size

LockOK == Sound(lock, Where(LockWaits \cup LockHeld), Where(LockHeld), 1)

CapOK ==
    IF MaxWorktrees = 0 THEN Where({"cap"}) = {}
    ELSE Sound(cap, Where({"cap"} \cup Slotted), Where(Slotted), MaxWorktrees)

Places == [pc : {"idle", "cap", "use", "capout"} \cup LockWaits \cup LockHeld, path : Nat]

Types ==
    /\ proc \in [Process -> Places]
    /\ \A p \in Purger : proc[p].pc \in {"idle", "plock", "purge"}
    /\ \A u \in User : proc[u].pc \notin {"plock", "purge"}
    /\ seq \in Nat /\ trees \in SUBSET (Nat \ {Own})

\* Worktrees are numbered anew in each life and belong to one execution each.
Paths ==
    \A u \in Process :
        /\ proc[u].path <= seq
        /\ proc[u].path # Own => proc[u].pc \in {"use", "rlock", "remove", "capout"}
        /\ \A v \in Process : proc[u].path = proc[v].path /\ u # v => proc[u].path = Own

\* There is nothing in a clone that does not exist or is being made.
Clones ==
    /\ clone = "none" => trees = {}
    /\ \A u \in Process : /\ At(u, "clone") => clone = "none"
                          /\ At(u, "cloning") => trees = {}

ContextsInv == Types /\ LockOK /\ CapOK /\ Paths /\ Clones

-----------------------------------------------------------------------------
(* Counted channels *)

\* There are channels, and finitely many of everything.
LEMMA Channels ==
    /\ IsFiniteSet(Process) /\ Cardinality(Process) \in Nat /\ MaxWorktrees \in Nat
    /\ User \cap Purger = {} /\ \A p \in Process : Channel # {}
    /\ Channel \in SUBSET Nat /\ 0 \notin Channel
<1>1. IsFiniteSet(Process) /\ Cardinality(Process) \in Nat /\ MaxWorktrees \in Nat
  BY RepoContextsAssumption, FS_CardinalityType
<1>2. ASSUME NEW p \in Process
      PROVE  Channel # {}
  <2>1. 1 <= Cardinality(Process)
    BY <1>1, SomeElement
  <2>2. 1 \in Channel
    BY <1>1, <2>1 DEF Channel
  <2> QED
    BY <2>2
<1> QED
  BY <1>1, <1>2, RepoContextsAssumption DEF Channel

\* Nobody knows the channel that is made for the first to refer.
LEMMA ReferSound ==
    ASSUME NEW s, NEW R, NEW H, NEW size \in Nat, Sound(s, R, H, size),
           NEW p \in Process, p \notin R
    PROVE  Sound(Refer(s, p), R \cup {p}, H, size)
<1> DEFINE c == IF s.entry # 0 THEN s.entry ELSE Min(Unreferred(s))
           k == IF s.entry = 0 THEN 1 ELSE s.refs[c] + 1
           t == Refer(s, p)
<1>1. /\ s \in Semaphores /\ s.entry \in Channel \cup {0}
      /\ H \in SUBSET R /\ R \in SUBSET Process
      /\ IsFiniteSet(R) /\ Cardinality(R) \in Nat
      /\ \A q \in Process : s.of[q] = IF q \in R THEN s.entry ELSE 0
      /\ R = {} <=> s.entry = 0
      /\ R # {} => s.refs[s.entry] = Cardinality(R)
      /\ \A d \in Channel : s.inside[d] = IF d = s.entry THEN H ELSE {}
      /\ Cardinality(H) <= size
  BY Channels, FewerElements DEF Sound, Semaphores
<1>2. c \in Channel
  <2>1. CASE s.entry # 0
    BY <1>1, <2>1
  <2>2. CASE s.entry = 0
    <3>1. Unreferred(s) = Channel
      <4>1. \A d \in Channel : s.inside[d] = {} /\ \A q \in Process : s.of[q] # d
        BY <1>1, <2>2, Channels
      <4> QED
        BY <4>1 DEF Unreferred
    <3>2. \E x \in Unreferred(s) : \A y \in Unreferred(s) : x <= y
      BY <3>1, Channels, LeastNatural
    <3>3. Min(Unreferred(s)) \in Unreferred(s)
      BY <3>2 DEF Min
    <3> QED
      BY <2>2, <3>1, <3>3
  <2> QED
    BY <2>1, <2>2
<1>3. s.refs \in [Channel -> Int] /\ s.of \in [Process -> Channel \cup {0}]
  BY <1>1 DEF Semaphores
<1>4. k \in Int
  BY <1>2, <1>3
<1>5. t = [s EXCEPT !.entry = c, !.refs[c] = k, !.of[p] = c]
  BY DEF Refer
<1> HIDE DEF c, k, t
<1>6. /\ t \in Semaphores /\ t.entry = c /\ t.refs[c] = k /\ t.inside = s.inside
      /\ t.of = [s.of EXCEPT ![p] = c]
  BY <1>1, <1>2, <1>4, <1>5 DEF Semaphores
<1>7. /\ s.entry # 0 => c = s.entry
      /\ s.entry = 0 => H = {} /\ R = {}
  BY <1>1 DEF c
<1>8. \A q \in Process : t.of[q] = IF q \in R \cup {p} THEN c ELSE 0
  BY <1>1, <1>2, <1>3, <1>6, <1>7
<1>9. k = Cardinality(R \cup {p})
  <2>1. Cardinality(R \cup {p}) = Cardinality(R) + 1
    BY <1>1, FS_AddElement
  <2>2. CASE R = {}
    BY <1>1, <2>1, <2>2, FS_EmptySet DEF k
  <2>3. CASE R # {}
    BY <1>1, <1>7, <2>1, <2>3 DEF k
  <2> QED
    BY <2>2, <2>3
<1>10. \A d \in Channel : t.inside[d] = IF d = t.entry THEN H ELSE {}
  BY <1>1, <1>6, <1>7
<1>11. R \cup {p} # {} /\ t.entry # 0 /\ H \in SUBSET (R \cup {p}) /\ R \cup {p} \in SUBSET Process
  BY <1>1, <1>2, <1>6, Channels
<1> QED
  BY <1>1, <1>6, <1>8, <1>9, <1>10, <1>11 DEF Sound, t

\* Who finds room enters the channel of the map.
LEMMA EnterSound ==
    ASSUME NEW s, NEW R, NEW H, NEW size \in Nat, Sound(s, R, H, size),
           NEW p \in R, p \notin H, Room(s, p, size)
    PROVE  Sound(Enter(s, p), R, H \cup {p}, size)
<1> DEFINE c == s.of[p]
           t == Enter(s, p)
<1>1. /\ s \in Semaphores /\ p \in Process
      /\ H \in SUBSET R /\ R \in SUBSET Process /\ IsFiniteSet(H) /\ Cardinality(H) \in Nat
      /\ \A q \in Process : s.of[q] = IF q \in R THEN s.entry ELSE 0
      /\ R = {} <=> s.entry = 0
      /\ R # {} => s.refs[s.entry] = Cardinality(R)
      /\ \A d \in Channel : s.inside[d] = IF d = s.entry THEN H ELSE {}
  BY Channels, FewerElements DEF Sound
<1>2. c = s.entry /\ c \in Channel /\ s.inside[c] = H /\ s.inside \in [Channel -> SUBSET Process]
  BY <1>1 DEF Semaphores
<1>3. Cardinality(H) < size
  BY <1>2 DEF Room
<1>4. t = [s EXCEPT !.inside[c] = H \cup {p}]
  BY <1>2 DEF Enter
<1>5. H \cup {p} \in SUBSET Process /\ H \cup {p} \in SUBSET R
  BY <1>1
<1> HIDE DEF c, t
<1>6. /\ t \in Semaphores /\ t.entry = s.entry /\ t.refs = s.refs /\ t.of = s.of
      /\ t.inside = [s.inside EXCEPT ![c] = H \cup {p}]
  BY <1>1, <1>2, <1>4, <1>5 DEF Semaphores
<1>7. \A d \in Channel : t.inside[d] = IF d = t.entry THEN H \cup {p} ELSE {}
  BY <1>1, <1>2, <1>6
<1>8. Cardinality(H \cup {p}) <= size
  <2>1. Cardinality(H \cup {p}) = Cardinality(H) + 1
    BY <1>1, FS_AddElement
  <2> QED
    BY <1>1, <1>3, <2>1
<1> QED
  BY <1>1, <1>5, <1>6, <1>7, <1>8 DEF Sound, t

\* The map forgets a channel with the last reference to it,
LEMMA DropSound ==
    ASSUME NEW s, NEW R, NEW H, NEW size \in Nat, Sound(s, R, H, size),
           NEW p \in R, p \notin H
    PROVE  Sound(DropRef(s, p), R \ {p}, H, size)
<1> DEFINE c == s.of[p]
           e == IF s.refs[c] = 1 /\ s.entry = c THEN 0 ELSE s.entry
           k == s.refs[c] - 1
           t == DropRef(s, p)
<1>1. /\ s \in Semaphores /\ p \in Process
      /\ H \in SUBSET R /\ R \in SUBSET Process /\ IsFiniteSet(R) /\ Cardinality(R) \in Nat
      /\ \A q \in Process : s.of[q] = IF q \in R THEN s.entry ELSE 0
      /\ s.entry # 0 /\ s.refs[s.entry] = Cardinality(R)
      /\ \A d \in Channel : s.inside[d] = IF d = s.entry THEN H ELSE {}
      /\ Cardinality(H) <= size
  BY Channels, FewerElements DEF Sound
<1>2. /\ c = s.entry /\ c \in Channel /\ s.refs \in [Channel -> Int] /\ k \in Int
      /\ s.of \in [Process -> Channel \cup {0}] /\ e \in Channel \cup {0}
      /\ 0 \in Channel \cup {0} /\ s.refs[c] = Cardinality(R)
  BY <1>1 DEF Semaphores
<1>3. t = [s EXCEPT !.entry = e, !.refs[c] = k, !.of[p] = 0]
  BY DEF DropRef
<1>4. /\ e = IF Cardinality(R) = 1 THEN 0 ELSE s.entry
      /\ k = Cardinality(R) - 1
  BY <1>2
<1> HIDE DEF c, e, k, t
<1>5. /\ t \in Semaphores /\ t.entry = e /\ t.refs[c] = k /\ t.inside = s.inside
      /\ t.of = [s.of EXCEPT ![p] = 0]
  BY <1>1, <1>2, <1>3 DEF Semaphores
<1>6. IsFiniteSet(R \ {p}) /\ Cardinality(R \ {p}) = Cardinality(R) - 1
  BY <1>1, FS_RemoveElement
<1>7. R \ {p} = {} <=> e = 0
  <2>1. R \ {p} = {} <=> Cardinality(R \ {p}) = 0
    BY <1>6, FS_EmptySet
  <2> QED
    BY <1>1, <1>4, <1>6, <2>1
<1>8. H \in SUBSET (R \ {p}) /\ R \ {p} \in SUBSET Process
  BY <1>1
<1>9. \A q \in Process : t.of[q] = IF q \in R \ {p} THEN t.entry ELSE 0
  <2>1. \A q \in R \ {p} : e = s.entry
    BY <1>2, <1>4, <1>7
  <2> QED
    BY <1>1, <1>2, <1>5, <2>1
<1>10. R \ {p} # {} => t.refs[t.entry] = Cardinality(R \ {p})
  BY <1>2, <1>4, <1>5, <1>6, <1>7
<1>11. \A d \in Channel : t.inside[d] = IF d = t.entry THEN H ELSE {}
  <2>1. CASE e = 0
    <3>1. H = {}
      BY <1>7, <1>8, <2>1
    <3> QED
      BY <1>1, <1>5, <3>1
  <2>2. CASE e # 0
    BY <1>1, <1>4, <1>5, <2>2
  <2> QED
    BY <2>1, <2>2
<1> QED
  BY <1>1, <1>5, <1>7, <1>8, <1>9, <1>10, <1>11 DEF Sound, t

\* also when the one that leaves was inside.
LEMMA LeaveSound ==
    ASSUME NEW s, NEW R, NEW H, NEW size \in Nat, Sound(s, R, H, size), NEW p \in H
    PROVE  Sound(Leave(s, p), R \ {p}, H \ {p}, size)
<1> DEFINE c == s.of[p]
           t == [s EXCEPT !.inside[c] = H \ {p}]
<1>1. /\ s \in Semaphores /\ p \in Process /\ p \in R
      /\ H \in SUBSET R /\ R \in SUBSET Process /\ IsFiniteSet(H)
      /\ Cardinality(H) <= size
      /\ \A q \in Process : s.of[q] = IF q \in R THEN s.entry ELSE 0
      /\ R = {} <=> s.entry = 0
      /\ R # {} => s.refs[s.entry] = Cardinality(R)
      /\ \A d \in Channel : s.inside[d] = IF d = s.entry THEN H ELSE {}
  BY Channels, FewerElements DEF Sound
<1>2. c = s.entry /\ c \in Channel /\ s.inside[c] = H /\ s.inside \in [Channel -> SUBSET Process]
  BY <1>1 DEF Semaphores
<1>3. Leave(s, p) = DropRef(t, p)
  BY <1>2 DEF Leave
<1>4. H \ {p} \in SUBSET Process /\ H \ {p} \in SUBSET R
  BY <1>1
<1> HIDE DEF c, t
<1>5. /\ t \in Semaphores /\ t.entry = s.entry /\ t.refs = s.refs /\ t.of = s.of
      /\ t.inside = [s.inside EXCEPT ![c] = H \ {p}]
  BY <1>1, <1>2, <1>4 DEF Semaphores, t
<1>6. \A d \in Channel : t.inside[d] = IF d = t.entry THEN H \ {p} ELSE {}
  BY <1>1, <1>2, <1>5
<1>7. Cardinality(H \ {p}) <= size
  <2>1. /\ Cardinality(H \ {p}) \in Nat /\ Cardinality(H) \in Nat
        /\ Cardinality(H \ {p}) <= Cardinality(H)
    BY <1>1, FewerElements
  <2> QED
    BY <1>1, <2>1
<1>8. Sound(t, R, H \ {p}, size)
  BY <1>1, <1>4, <1>5, <1>6, <1>7 DEF Sound
<1>9. Sound(DropRef(t, p), R \ {p}, H \ {p}, size)
  BY <1>1, <1>8, DropSound
<1> QED
  BY <1>3, <1>9

-----------------------------------------------------------------------------
(* How the executions move *)

Pcs == {"idle", "cap", "use", "capout"} \cup LockWaits \cup LockHeld

\* Process p goes to q, with path x, and no other goes anywhere.
Moved(p, q, x) ==
    /\ proc' \in [Process -> Places] /\ proc'[p].pc = q /\ proc'[p].path = x
    /\ \A r \in Process : r # p => proc'[r] = proc[r]

\* What Go does,
LEMMA WentTo ==
    ASSUME Types, NEW p \in Process, NEW q \in Pcs, Go(p, q)
    PROVE  Moved(p, q, proc[p].path)
<1>1. proc \in [Process -> Places] /\ proc[p] \in Places
  BY DEF Types
<1>2. /\ [proc[p] EXCEPT !.pc = q] \in Places
      /\ [proc[p] EXCEPT !.pc = q].pc = q
      /\ [proc[p] EXCEPT !.pc = q].path = proc[p].path
  BY <1>1 DEF Places, Pcs
<1>3. proc' = [proc EXCEPT ![p] = [proc[p] EXCEPT !.pc = q]]
  BY DEF Go
<1> QED
  BY <1>1, <1>2, <1>3 DEF Moved

\* and an assignment of both fields.
LEMMA PutAt ==
    ASSUME Types, NEW p \in Process, NEW q \in Pcs, NEW x \in Nat,
           proc' = [proc EXCEPT ![p] = [pc |-> q, path |-> x]]
    PROVE  Moved(p, q, x)
BY DEF Types, Moved, Places, Pcs

\* Who is where after a move.
LEMMA WhereMoved ==
    ASSUME NEW p \in Process, NEW q, NEW x, Moved(p, q, x), NEW P
    PROVE  Where(P)' = IF q \in P THEN Where(P) \cup {p} ELSE Where(P) \ {p}
BY DEF Where, Moved

\* What becomes of the lock and of the slots when p goes to q.
LockStep(p, q) ==
    \/ /\ UNCHANGED lock
       /\ q \in LockWaits <=> proc[p].pc \in LockWaits
       /\ q \in LockHeld <=> proc[p].pc \in LockHeld
    \/ /\ lock' = Refer(lock, p) /\ q \in LockWaits
       /\ proc[p].pc \notin LockWaits \cup LockHeld
    \/ /\ lock' = Enter(lock, p) /\ Room(lock, p, 1)
       /\ proc[p].pc \in LockWaits /\ q \in LockHeld
    \/ /\ lock' = DropRef(lock, p)
       /\ proc[p].pc \in LockWaits /\ q \notin LockWaits \cup LockHeld
    \/ /\ lock' = Leave(lock, p)
       /\ proc[p].pc \in LockHeld /\ q \notin LockWaits \cup LockHeld

SlotStep(p, q) ==
    /\ MaxWorktrees = 0 => q # "cap"
    /\ \/ /\ UNCHANGED cap
          /\ q = "cap" <=> proc[p].pc = "cap"
          /\ (q \in Slotted <=> proc[p].pc \in Slotted) \/ MaxWorktrees = 0
       \/ /\ cap' = Refer(cap, p) /\ q = "cap"
          /\ proc[p].pc \notin Slotted \cup {"cap"}
       \/ /\ cap' = Enter(cap, p) /\ Room(cap, p, MaxWorktrees)
          /\ proc[p].pc = "cap" /\ q \in Slotted
       \/ /\ cap' = DropRef(cap, p)
          /\ proc[p].pc = "cap" /\ q \notin Slotted \cup {"cap"}
       \/ /\ cap' = Leave(cap, p) /\ MaxWorktrees # 0
          /\ proc[p].pc \in Slotted /\ q \notin Slotted \cup {"cap"}

\* The lock stays one when its semaphore follows the move.
LEMMA LockFollows ==
    ASSUME LockOK, NEW p \in Process, NEW q, NEW x, Moved(p, q, x), LockStep(p, q)
    PROVE  LockOK'
<1> DEFINE R == Where(LockWaits \cup LockHeld)
           H == Where(LockHeld)
<1>1. /\ Sound(lock, R, H, 1)
      /\ p \in R <=> proc[p].pc \in LockWaits \cup LockHeld
      /\ p \in H <=> proc[p].pc \in LockHeld
      /\ \A a \in LockWaits : a \notin LockHeld
  BY DEF LockOK, Where, LockWaits, LockHeld
<1>2. /\ R' = IF q \in LockWaits \cup LockHeld THEN R \cup {p} ELSE R \ {p}
      /\ H' = IF q \in LockHeld THEN H \cup {p} ELSE H \ {p}
  BY WhereMoved
<1>3. SUFFICES Sound(lock', R', H', 1)
  BY DEF LockOK, Sound, Semaphores, Channel
<1> HIDE DEF R, H
<1>4. CASE /\ UNCHANGED lock
           /\ q \in LockWaits <=> proc[p].pc \in LockWaits
           /\ q \in LockHeld <=> proc[p].pc \in LockHeld
  <2>1. R' = R /\ H' = H
    BY <1>1, <1>2, <1>4
  <2> QED
    BY <1>1, <1>4, <2>1
<1>5. CASE /\ lock' = Refer(lock, p) /\ q \in LockWaits
           /\ proc[p].pc \notin LockWaits \cup LockHeld
  <2>1. R' = R \cup {p} /\ H' = H /\ p \notin R
    BY <1>1, <1>2, <1>5
  <2> QED
    BY <1>1, <1>5, <2>1, ReferSound
<1>6. CASE /\ lock' = Enter(lock, p) /\ Room(lock, p, 1)
           /\ proc[p].pc \in LockWaits /\ q \in LockHeld
  <2>1. R' = R /\ H' = H \cup {p} /\ p \in R /\ p \notin H
    BY <1>1, <1>2, <1>6
  <2> QED
    BY <1>1, <1>6, <2>1, EnterSound
<1>7. CASE /\ lock' = DropRef(lock, p)
           /\ proc[p].pc \in LockWaits /\ q \notin LockWaits \cup LockHeld
  <2>1. R' = R \ {p} /\ H' = H /\ p \in R /\ p \notin H
    BY <1>1, <1>2, <1>7
  <2> QED
    BY <1>1, <1>7, <2>1, DropSound
<1>8. CASE /\ lock' = Leave(lock, p)
           /\ proc[p].pc \in LockHeld /\ q \notin LockWaits \cup LockHeld
  <2>1. R' = R \ {p} /\ H' = H \ {p} /\ p \in H
    BY <1>1, <1>2, <1>8
  <2> QED
    BY <1>1, <1>8, <2>1, LeaveSound
<1> QED
  BY <1>4, <1>5, <1>6, <1>7, <1>8 DEF LockStep

\* So do the slots.
LEMMA SlotsFollow ==
    ASSUME CapOK, NEW p \in Process, NEW q, NEW x, Moved(p, q, x), SlotStep(p, q)
    PROVE  CapOK'
<1> DEFINE R == Where({"cap"} \cup Slotted)
           H == Where(Slotted)
<1>1. CASE MaxWorktrees = 0
  <2>1. Where({"cap"})' = {}
    BY <1>1, WhereMoved DEF CapOK, SlotStep
  <2> QED
    BY <1>1, <2>1 DEF CapOK
<1>2. CASE MaxWorktrees # 0
  <2>1. /\ Sound(cap, R, H, MaxWorktrees) /\ MaxWorktrees \in Nat
        /\ p \in R <=> proc[p].pc \in {"cap"} \cup Slotted
        /\ p \in H <=> proc[p].pc \in Slotted
        /\ "cap" \notin Slotted
    BY <1>2, Channels DEF CapOK, Where, Slotted
  <2>2. /\ R' = IF q \in {"cap"} \cup Slotted THEN R \cup {p} ELSE R \ {p}
        /\ H' = IF q \in Slotted THEN H \cup {p} ELSE H \ {p}
    BY WhereMoved
  <2>3. SUFFICES Sound(cap', R', H', MaxWorktrees)
    BY <1>2 DEF CapOK, Sound, Semaphores, Channel
  <2> HIDE DEF R, H
  <2>4. CASE /\ UNCHANGED cap
             /\ q = "cap" <=> proc[p].pc = "cap"
             /\ q \in Slotted <=> proc[p].pc \in Slotted
    <3>1. R' = R /\ H' = H
      BY <2>1, <2>2, <2>4
    <3> QED
      BY <2>1, <2>4, <3>1
  <2>5. CASE /\ cap' = Refer(cap, p) /\ q = "cap"
             /\ proc[p].pc \notin Slotted \cup {"cap"}
    <3>1. R' = R \cup {p} /\ H' = H /\ p \notin R
      BY <2>1, <2>2, <2>5
    <3> QED
      BY <2>1, <2>5, <3>1, ReferSound
  <2>6. CASE /\ cap' = Enter(cap, p) /\ Room(cap, p, MaxWorktrees)
             /\ proc[p].pc = "cap" /\ q \in Slotted
    <3>1. R' = R /\ H' = H \cup {p} /\ p \in R /\ p \notin H
      BY <2>1, <2>2, <2>6
    <3> QED
      BY <2>1, <2>6, <3>1, EnterSound
  <2>7. CASE /\ cap' = DropRef(cap, p)
             /\ proc[p].pc = "cap" /\ q \notin Slotted \cup {"cap"}
    <3>1. R' = R \ {p} /\ H' = H /\ p \in R /\ p \notin H
      BY <2>1, <2>2, <2>7
    <3> QED
      BY <2>1, <2>7, <3>1, DropSound
  <2>8. CASE /\ cap' = Leave(cap, p)
             /\ proc[p].pc \in Slotted /\ q \notin Slotted \cup {"cap"}
    <3>1. R' = R \ {p} /\ H' = H \ {p} /\ p \in H
      BY <2>1, <2>2, <2>8
    <3> QED
      BY <2>1, <2>8, <3>1, LeaveSound
  <2> QED
    BY <1>2, <2>4, <2>5, <2>6, <2>7, <2>8 DEF SlotStep
<1> QED
  BY <1>1, <1>2

\* One holds the lock at most.
LEMMA Alone ==
    ASSUME LockOK, NEW p \in Process, NEW r \in Process,
           proc[p].pc \in LockHeld, proc[r].pc \in LockHeld
    PROVE  p = r
<1> DEFINE H == Where(LockHeld)
<1>1. p \in H /\ r \in H /\ H \in SUBSET Process /\ Cardinality(H) <= 1
  BY DEF Where, LockOK, Sound
<1> HIDE DEF H
<1>2. IsFiniteSet(H) /\ Cardinality(H) \in Nat
  BY <1>1, Channels, FewerElements
<1>3. SUFFICES ASSUME p # r
               PROVE  FALSE
  OBVIOUS
<1>4. IsFiniteSet({p}) /\ Cardinality({p}) = 1
  BY FS_Singleton
<1>5. Cardinality({p}) + 1 <= Cardinality(H)
  BY <1>1, <1>2, <1>3, OneElementLess
<1> QED
  BY <1>1, <1>2, <1>4, <1>5

\* A move keeps the invariant when it keeps worktrees numbered and nothing in
\* a clone that is not there.
LEMMA StepKeeps ==
    ASSUME ContextsInv, NEW p \in Process, NEW q, NEW x \in Nat, Moved(p, q, x),
           LockStep(p, q), SlotStep(p, q),
           p \in Purger => q \in {"idle", "plock", "purge"},
           p \in User => q \notin {"plock", "purge"},
           seq' \in Nat, seq <= seq', trees' \in SUBSET (Nat \ {Own}),
           x \in {proc[p].path, Own} \/ (x = seq + 1 /\ x <= seq'),
           x # Own => q \in {"use", "rlock", "remove", "capout"},
           \/ UNCHANGED clone /\ trees' \in SUBSET trees /\ q \notin {"clone", "cloning"}
           \/ /\ proc[p].pc \in LockHeld
              /\ clone' = "none" => trees' = {}
              /\ q = "clone" => clone' = "none"
              /\ q = "cloning" => trees' = {}
    PROVE  ContextsInv'
<1>1. Types /\ LockOK /\ CapOK /\ Paths /\ Clones
  BY DEF ContextsInv
<1>2. LockOK' /\ CapOK'
  BY <1>1, LockFollows, SlotsFollow
<1>3. Types'
  BY <1>1, Channels DEF Types, Moved, Process
<1>4. /\ seq \in Nat /\ \A r \in Process : proc[r].path \in Nat
      /\ \A r \in Process : proc[r].path <= seq /\ proc[r].path < seq + 1
  BY <1>1 DEF Types, Paths, Places
<1>5. Paths'
  <2> SUFFICES ASSUME NEW u \in Process
               PROVE  /\ proc'[u].path <= seq'
                      /\ proc'[u].path # Own
                            => proc'[u].pc \in {"use", "rlock", "remove", "capout"}
                      /\ \A v \in Process :
                            proc'[u].path = proc'[v].path /\ u # v => proc'[u].path = Own
    BY DEF Paths
  <2>1. \A r \in Process : r # p => proc'[r] = proc[r]
    BY DEF Moved
  <2>2. proc'[p].path = x /\ proc'[p].pc = q
    BY DEF Moved
  <2>3. x <= seq' /\ \A r \in Process : r # p /\ proc[r].path = x => x = Own
    BY <1>1, <1>4 DEF Paths, Own
  <2> QED
    BY <1>1, <1>4, <2>1, <2>2, <2>3 DEF Paths
<1>6. Clones'
  <2>1. \A r \in Process : r # p => proc'[r] = proc[r]
    BY DEF Moved
  <2>2. proc'[p].pc = q
    BY DEF Moved
  <2>3. CASE UNCHANGED clone /\ trees' \in SUBSET trees /\ q \notin {"clone", "cloning"}
    BY <1>1, <2>1, <2>2, <2>3 DEF Clones, At
  <2>4. CASE /\ proc[p].pc \in LockHeld
             /\ clone' = "none" => trees' = {}
             /\ q = "clone" => clone' = "none"
             /\ q = "cloning" => trees' = {}
    <3>1. \A r \in Process : r # p => proc'[r].pc \notin {"clone", "cloning"}
      BY <1>1, <2>1, <2>4, Alone DEF LockHeld
    <3> QED
      BY <2>2, <2>4, <3>1 DEF Clones, At
  <2> QED
    BY <2>3, <2>4
<1> QED
  BY <1>2, <1>3, <1>5, <1>6 DEF ContextsInv

\* What the steps use of the invariant.
LEMMA Placed ==
    ASSUME ContextsInv
    PROVE  /\ Types /\ seq \in Nat /\ seq <= seq /\ trees \in SUBSET (Nat \ {Own})
           /\ (clone = "none" => trees = {}) /\ 0 \in Nat
           /\ \A p \in Process :
                /\ proc[p].path \in Nat
                /\ p \in Purger => proc[p].pc \in {"idle", "plock", "purge"}
                /\ p \in User => proc[p].pc \notin {"plock", "purge"}
                /\ proc[p].path # Own => proc[p].pc \in {"use", "rlock", "remove", "capout"}
                /\ p \in Purger <=> p \notin User
                /\ proc[p].pc = "cap" => MaxWorktrees # 0
           /\ User \in SUBSET Process /\ Purger \in SUBSET Process
<1>1. Types /\ CapOK /\ Paths /\ Clones
  BY DEF ContextsInv
<1>2. \A p \in Process : proc[p].pc = "cap" => MaxWorktrees # 0
  BY <1>1 DEF CapOK, Where
<1>3. /\ User \in SUBSET Process /\ Purger \in SUBSET Process
      /\ \A p \in Process : p \in Purger <=> p \notin User
  BY Channels DEF Process
<1>4. \A p \in Process : proc[p].path \in Nat
  BY <1>1 DEF Types, Places
<1> QED
  BY <1>1, <1>2, <1>3, <1>4 DEF Types, Paths, Clones

-----------------------------------------------------------------------------
(* The steps *)

\* An acquisition asks for a slot, or for the lock where there are no slots.
LEMMA AcquireInv ==
    ASSUME ContextsInv, NEW u \in User, Acquire(u)
    PROVE  ContextsInv'
<1> DEFINE q == IF MaxWorktrees = 0 THEN "lock" ELSE "cap"
<1>1. /\ proc[u].pc = "idle" /\ Go(u, q) /\ UNCHANGED <<clone, trees, seq>>
      /\ MaxWorktrees = 0 => lock' = Refer(lock, u) /\ UNCHANGED cap
      /\ MaxWorktrees # 0 => cap' = Refer(cap, u) /\ UNCHANGED lock
  BY DEF Acquire, At, disk
<1>2. q \in Pcs /\ q \in {"lock", "cap"}
  BY DEF Pcs, LockWaits
<1>3. Moved(u, q, proc[u].path) /\ proc[u].path = Own
  BY <1>1, <1>2, Placed, WentTo
<1>4. LockStep(u, q) /\ SlotStep(u, q)
  BY <1>1 DEF LockStep, SlotStep, LockWaits, LockHeld, Slotted
<1> HIDE DEF q
<1> QED
  BY <1>1, <1>2, <1>3, <1>4, Placed, StepKeeps

\* A step at which p goes on and touches neither the clone nor a worktree.
LEMMA PlainStep ==
    ASSUME ContextsInv, NEW p \in Process, NEW q \in Pcs, Go(p, q),
           UNCHANGED <<clone, trees, seq>>, LockStep(p, q), SlotStep(p, q),
           p \in Purger => q \in {"idle", "plock", "purge"},
           p \in User => q \notin {"plock", "purge"},
           \/ q \in {"use", "rlock", "remove", "capout"}
           \/ /\ proc[p].pc \notin {"use", "rlock", "remove", "capout"}
              /\ q \notin {"clone", "cloning"}
    PROVE  ContextsInv'
<1>1. Moved(p, q, proc[p].path)
  BY Placed, WentTo
<1>2. proc[p].path # Own => q \in {"use", "rlock", "remove", "capout"}
  BY Placed
<1> QED
  BY <1>1, <1>2, Placed, StepKeeps

\* Entering.
LEMMA EntersInv ==
    ASSUME ContextsInv, NEW p \in Process, Enters(p)
    PROVE  ContextsInv'
<1>1. CASE EnterLock(p)
  <2>1. /\ proc[p].pc \in {"lock", "rlock", "plock"} /\ Room(lock, p, 1)
        /\ lock' = Enter(lock, p) /\ Go(p, Entered[proc[p].pc])
        /\ UNCHANGED <<clone, trees, seq, cap>>
    BY <1>1 DEF EnterLock, Entered, disk
  <2>2. /\ proc[p].pc = "lock" => Entered[proc[p].pc] = "locked"
        /\ proc[p].pc = "rlock" => Entered[proc[p].pc] = "remove"
        /\ proc[p].pc = "plock" => Entered[proc[p].pc] = "purge"
    BY DEF Entered
  <2> DEFINE q == Entered[proc[p].pc]
  <2>3. q \in Pcs
    BY <2>1, <2>2 DEF Pcs, LockHeld
  <2>4. LockStep(p, q) /\ SlotStep(p, q)
    BY <2>1, <2>2 DEF LockStep, SlotStep, LockWaits, LockHeld, Slotted
  <2>5. /\ p \in Purger => q \in {"idle", "plock", "purge"}
        /\ p \in User => q \notin {"plock", "purge"}
        /\ \/ q \in {"use", "rlock", "remove", "capout"}
           \/ /\ proc[p].pc \notin {"use", "rlock", "remove", "capout"}
              /\ q \notin {"clone", "cloning"}
    BY <2>1, <2>2, Placed
  <2> HIDE DEF q
  <2>6. Go(p, q)
    BY <2>1 DEF q
  <2> QED
    BY <2>1, <2>3, <2>4, <2>5, <2>6, PlainStep
<1>2. CASE p \in User /\ EnterCap(p)
  <2>1. /\ proc[p].pc = "cap" /\ Room(cap, p, MaxWorktrees) /\ cap' = Enter(cap, p)
        /\ lock' = Refer(lock, p) /\ Go(p, "lock") /\ UNCHANGED <<clone, trees, seq>>
    BY <1>2 DEF EnterCap, At, disk
  <2>2. LockStep(p, "lock") /\ SlotStep(p, "lock") /\ "lock" \in Pcs
    BY <2>1 DEF LockStep, SlotStep, LockWaits, LockHeld, Slotted, Pcs
  <2> QED
    BY <1>2, <2>1, <2>2, Placed, PlainStep
<1> QED
  BY <1>1, <1>2 DEF Enters

\* Giving up the wait for a slot.
LEMMA CancelCapInv ==
    ASSUME ContextsInv, NEW u \in User, CancelCap(u)
    PROVE  ContextsInv'
<1>1. /\ proc[u].pc = "cap" /\ cap' = DropRef(cap, u) /\ Go(u, "idle")
      /\ UNCHANGED <<lock, clone, trees, seq>>
  BY DEF CancelCap, At, disk
<1>2. LockStep(u, "idle") /\ SlotStep(u, "idle") /\ "idle" \in Pcs
  BY <1>1 DEF LockStep, SlotStep, LockWaits, LockHeld, Slotted, Pcs
<1> QED
  BY <1>1, <1>2, Placed, PlainStep

\* Who gives up waiting for the lock still has a slot.
LEMMA CancelLockInv ==
    ASSUME ContextsInv, NEW p \in Process, CancelLock(p)
    PROVE  ContextsInv'
<1> DEFINE q == AfterCancel(p)
<1>1. /\ proc[p].pc \in {"lock", "plock"} /\ lock' = DropRef(lock, p) /\ Go(p, q)
      /\ UNCHANGED <<cap, clone, trees, seq>>
  BY DEF CancelLock, At, disk
<1>2. q = IF p \in User THEN "capout" ELSE "idle"
  BY DEF AfterCancel
<1>3. p \in User => proc[p].pc = "lock"
  BY <1>1, Placed
<1>4. p \notin User => proc[p].pc = "plock"
  BY <1>1, Placed
<1> HIDE DEF q
<1>5. LockStep(p, q) /\ SlotStep(p, q) /\ q \in Pcs
  BY <1>1, <1>2, <1>3, <1>4 DEF LockStep, SlotStep, LockWaits, LockHeld, Slotted, Pcs
<1> QED
  BY <1>1, <1>2, <1>3, <1>4, <1>5, Placed, PlainStep

\* A release that no longer waits for the lock removes its directory itself.
LEMMA ReleaseTimesOutInv ==
    ASSUME ContextsInv, NEW u \in User, ReleaseTimesOut(u)
    PROVE  ContextsInv'
<1>1. /\ proc[u].pc = "rlock" /\ lock' = DropRef(lock, u) /\ Go(u, "capout")
      /\ UNCHANGED <<cap, clone, seq>> /\ trees' \in SUBSET trees
  BY DEF ReleaseTimesOut, At
<1>2. LockStep(u, "capout") /\ SlotStep(u, "capout") /\ "capout" \in Pcs
  BY <1>1 DEF LockStep, SlotStep, LockWaits, LockHeld, Slotted, Pcs
<1>3. Moved(u, "capout", proc[u].path) /\ trees' \in SUBSET (Nat \ {Own})
  BY <1>1, <1>2, Placed, WentTo
<1> QED
  BY <1>1, <1>2, <1>3, Placed, StepKeeps

\* Leaving the lock for another place that is not next to the clone.
LEMMA UnlockStep ==
    ASSUME ContextsInv, NEW p \in Process, NEW q \in {"use", "capout", "idle"},
           proc[p].pc \in LockHeld, Unlock(p, q), UNCHANGED <<cap, seq>>,
           p \in Purger <=> q = "idle",
           trees' \in SUBSET trees, clone' = "none" => trees' = {}
    PROVE  ContextsInv'
<1>1. lock' = Leave(lock, p) /\ Go(p, q)
  BY DEF Unlock
<1>2. p \in User => proc[p].pc # "purge"
  BY Placed
<1>3. p \in Purger => proc[p].pc = "purge"
  BY Placed DEF LockHeld
<1>4. LockStep(p, q) /\ q \in Pcs
  BY <1>1 DEF LockStep, LockWaits, LockHeld, Pcs
<1>5. SlotStep(p, q)
  BY <1>2, <1>3, Placed DEF SlotStep, LockHeld, Slotted
<1>6. Moved(p, q, proc[p].path) /\ trees' \in SUBSET (Nat \ {Own})
  BY <1>1, <1>4, Placed, WentTo
<1>7. proc[p].path # Own => q \in {"use", "rlock", "remove", "capout"}
  <2>1. p \in Purger => proc[p].path = Own
    BY <1>3, Placed
  <2> QED
    BY <2>1
<1> QED
  BY <1>4, <1>5, <1>6, <1>7, Placed, StepKeeps DEF LockHeld

\* The steps of an acquisition that holds the lock: a local checkout,
LEMMA UseLocalInv ==
    ASSUME ContextsInv, NEW u \in User, UseLocal(u)
    PROVE  ContextsInv'
<1>1. proc[u].pc \in LockHeld /\ Unlock(u, "use") /\ UNCHANGED <<cap, clone, trees, seq>>
  BY DEF UseLocal, At, disk, LockHeld
<1> QED
  BY <1>1, Placed, UnlockStep

\* a look at the clone that ends the acquisition or goes on,
LEMMA PrepareInv ==
    ASSUME ContextsInv, NEW u \in User, Prepare(u)
    PROVE  ContextsInv'
<1>1. proc[u].pc = "locked" /\ UNCHANGED <<cap, clone, trees, seq>>
  BY DEF Prepare, At, disk
<1>2. ASSUME NEW q \in {"clone", "add"}, Go(u, q), UNCHANGED lock, q = "clone" => clone = "none"
      PROVE  ContextsInv'
  <2>1. LockStep(u, q) /\ SlotStep(u, q) /\ q \in Pcs
    BY <1>1, <1>2 DEF LockStep, SlotStep, LockWaits, LockHeld, Slotted, Pcs
  <2>2. Moved(u, q, proc[u].path) /\ proc[u].path = Own
    BY <1>1, <1>2, <2>1, Placed, WentTo
  <2> QED
    BY <1>1, <1>2, <2>1, <2>2, Placed, StepKeeps DEF LockHeld
<1>3. ASSUME Unlock(u, "capout")
      PROVE  ContextsInv'
  BY <1>1, <1>3, Placed, UnlockStep DEF LockHeld
<1> QED
  BY <1>2, <1>3 DEF Prepare

\* While a clone is made nobody else holds the lock, so it is of this one.
LEMMA StartCloneInv ==
    ASSUME ContextsInv, NEW u \in User, StartClone(u)
    PROVE  ContextsInv' /\ trees \in SUBSET trees'
<1>1. proc[u].pc = "clone" /\ UNCHANGED <<cap, seq>> /\ clone = "none" /\ u \in Process
  BY Placed DEF StartClone, At, ContextsInv, Clones
<1>2. clone' = "partial" /\ Go(u, "cloning") /\ UNCHANGED <<lock, trees>> /\ trees = {}
  BY <1>1, Placed DEF StartClone
<1>3. LockStep(u, "cloning") /\ SlotStep(u, "cloning") /\ "cloning" \in Pcs
  BY <1>1, <1>2 DEF LockStep, SlotStep, LockWaits, LockHeld, Slotted, Pcs
<1>4. Moved(u, "cloning", proc[u].path) /\ proc[u].path = Own
  BY <1>1, <1>2, <1>3, Placed, WentTo
<1> QED
  BY <1>1, <1>2, <1>3, <1>4, Placed, StepKeeps DEF LockHeld

\* and remains so until it is marked or wiped.
LEMMA EndCloneInv ==
    ASSUME ContextsInv, NEW u \in User, EndClone(u)
    PROVE  ContextsInv' /\ trees \in SUBSET trees'
<1>1. proc[u].pc = "cloning" /\ UNCHANGED <<cap, seq>> /\ trees = {} /\ u \in Process
  BY Placed DEF EndClone, At, ContextsInv, Clones
<1>2. ASSUME clone' = "ready", Go(u, "add"), UNCHANGED <<lock, trees>>
      PROVE  ContextsInv'
  <2>1. LockStep(u, "add") /\ SlotStep(u, "add") /\ "add" \in Pcs
    BY <1>1, <1>2 DEF LockStep, SlotStep, LockWaits, LockHeld, Slotted, Pcs
  <2>2. Moved(u, "add", proc[u].path) /\ proc[u].path = Own
    BY <1>1, <1>2, <2>1, Placed, WentTo
  <2> QED
    BY <1>1, <1>2, <2>1, <2>2, Placed, StepKeeps DEF LockHeld
<1>3. ASSUME Unlock(u, "capout"), trees' = {}
      PROVE  ContextsInv'
  BY <1>1, <1>3, Placed, UnlockStep DEF LockHeld
<1>4. trees' = {}
  BY <1>1 DEF EndClone, Wiped, disk
<1> QED
  BY <1>1, <1>2, <1>3, <1>4 DEF EndClone

\* A new worktree has a number that none in use has.
LEMMA AddWorktreeInv ==
    ASSUME ContextsInv, NEW u \in User, AddWorktree(u)
    PROVE  ContextsInv' /\ trees \in SUBSET trees'
<1> DEFINE n == seq + 1
<1>1. /\ proc[u].pc = "add" /\ seq' = n /\ lock' = Leave(lock, u) /\ UNCHANGED <<cap, clone>>
      /\ trees' \in {trees, trees \cup {n}}
      /\ trees' # trees => clone = "ready"
      /\ Go(u, "capout") \/ proc' = [proc EXCEPT ![u] = [pc |-> "use", path |-> n]]
  BY DEF AddWorktree, At
<1>2. n \in Nat /\ n # Own /\ seq <= n /\ u \in Process /\ seq \in Nat
  BY Placed DEF Own
<1>3. trees' \in SUBSET (Nat \ {Own}) /\ (clone' = "none" => trees' = {})
  BY <1>1, <1>2, Placed
<1> HIDE DEF n
<1>4. /\ LockStep(u, "capout") /\ SlotStep(u, "capout") /\ "capout" \in Pcs
      /\ LockStep(u, "use") /\ SlotStep(u, "use") /\ "use" \in Pcs
  BY <1>1 DEF LockStep, SlotStep, LockWaits, LockHeld, Slotted, Pcs
<1>5. CASE Go(u, "capout")
  <2>1. Moved(u, "capout", proc[u].path)
    BY <1>2, <1>4, <1>5, Placed, WentTo
  <2> QED
    BY <1>1, <1>2, <1>3, <1>4, <2>1, Placed, StepKeeps DEF LockHeld
<1>6. CASE proc' = [proc EXCEPT ![u] = [pc |-> "use", path |-> n]]
  <2>1. Moved(u, "use", n)
    BY <1>2, <1>4, <1>6, Placed, PutAt
  <2>2. n = seq + 1 /\ n <= seq'
    BY <1>1, <1>2 DEF n
  <2> QED
    BY <1>1, <1>2, <1>3, <1>4, <2>1, <2>2, Placed, StepKeeps DEF LockHeld
<1> QED
  BY <1>1, <1>5, <1>6

\* The steps of a release.
LEMMA ReleaseInv ==
    ASSUME ContextsInv, NEW u \in User, Release(u)
    PROVE  ContextsInv'
<1>1. proc[u].pc = "use" /\ UNCHANGED <<cap, clone, trees, seq>>
  BY DEF Release, At, disk
<1>2. CASE proc[u].path = Own
  <2>1. Go(u, "capout") /\ UNCHANGED lock
    BY <1>2 DEF Release
  <2>2. LockStep(u, "capout") /\ SlotStep(u, "capout") /\ "capout" \in Pcs
    BY <1>1, <2>1 DEF LockStep, SlotStep, LockWaits, LockHeld, Slotted, Pcs
  <2> QED
    BY <1>1, <2>1, <2>2, Placed, PlainStep
<1>3. CASE proc[u].path # Own
  <2>1. Go(u, "rlock") /\ lock' = Refer(lock, u)
    BY <1>3 DEF Release
  <2>2. LockStep(u, "rlock") /\ SlotStep(u, "rlock") /\ "rlock" \in Pcs
    BY <1>1, <2>1 DEF LockStep, SlotStep, LockWaits, LockHeld, Slotted, Pcs
  <2> QED
    BY <1>1, <2>1, <2>2, Placed, PlainStep
<1> QED
  BY <1>2, <1>3

\* A worktree is removed with the lock,
LEMMA RemoveWorktreeInv ==
    ASSUME ContextsInv, NEW u \in User, RemoveWorktree(u)
    PROVE  ContextsInv'
<1>1. /\ proc[u].pc \in LockHeld /\ Unlock(u, "capout") /\ UNCHANGED <<cap, clone, seq>>
      /\ trees' \in SUBSET trees
  BY DEF RemoveWorktree, At, LockHeld
<1> QED
  BY <1>1, Placed, UnlockStep

\* and the slot is given back last.
LEMMA LeaveCapInv ==
    ASSUME ContextsInv, NEW u \in User, LeaveCap(u)
    PROVE  ContextsInv'
<1>1. /\ proc[u].pc = "capout" /\ cap' = (IF MaxWorktrees = 0 THEN cap ELSE Leave(cap, u))
      /\ proc' = [proc EXCEPT ![u] = [pc |-> "idle", path |-> Own]]
      /\ UNCHANGED <<lock, clone, trees, seq>>
  BY DEF LeaveCap, At, disk, Idle
<1>2. "idle" \in Pcs /\ Own \in Nat /\ u \in Process
  BY Placed DEF Pcs, Own
<1>3. Moved(u, "idle", Own)
  BY <1>1, <1>2, Placed, PutAt
<1>4. LockStep(u, "idle") /\ SlotStep(u, "idle")
  BY <1>1 DEF LockStep, SlotStep, LockWaits, LockHeld, Slotted
<1> QED
  BY <1>1, <1>2, <1>3, <1>4, Placed, StepKeeps

\* A purge.
LEMMA StartPurgeInv ==
    ASSUME ContextsInv, NEW p \in Purger, StartPurge(p)
    PROVE  ContextsInv'
<1>1. /\ proc[p].pc = "idle" /\ lock' = Refer(lock, p) /\ Go(p, "plock")
      /\ UNCHANGED <<cap, clone, trees, seq>>
  BY DEF StartPurge, At, disk
<1>2. LockStep(p, "plock") /\ SlotStep(p, "plock") /\ "plock" \in Pcs
  BY <1>1 DEF LockStep, SlotStep, LockWaits, LockHeld, Slotted, Pcs
<1> QED
  BY <1>1, <1>2, Placed, PlainStep

\* It wipes the clone or stops midway.
LEMMA PurgeInv ==
    ASSUME ContextsInv, NEW p \in Purger, Purge(p)
    PROVE  ContextsInv'
<1>1. /\ proc[p].pc \in LockHeld /\ Unlock(p, "idle") /\ UNCHANGED <<cap, seq>>
      /\ trees' \in SUBSET trees
  BY DEF Purge, At, LockHeld, Wiped, disk
<1>2. clone' = "none" => trees' = {}
  BY Placed DEF Purge, Wiped, disk
<1> QED
  BY <1>1, <1>2, Placed, UnlockStep

\* Nobody refers to the channels of a new life of the daemon.
LEMMA EmptySound == \A size \in Nat : Sound(NoSemaphore, {}, {}, size)
<1>1. Cardinality({}) = 0
  BY FS_EmptySet
<1>2. NoSemaphore \in Semaphores
  BY DEF NoSemaphore, Semaphores
<1> QED
  BY <1>1, <1>2, Channels DEF Sound, NoSemaphore

\* The first start.
LEMMA AllIdle ==
    ASSUME proc = [p \in Process |-> Idle], lock = NoSemaphore, cap = NoSemaphore, seq = 0,
           trees \in SUBSET (Nat \ {Own}), clone = "none" => trees = {}
    PROVE  ContextsInv
<1>1. \A p \in Process : proc[p].pc = "idle" /\ proc[p].path = Own
  BY DEF Idle
<1>2. Types
  <2>1. Idle \in Places /\ User \in SUBSET Process /\ Purger \in SUBSET Process
    BY DEF Idle, Places, Own, Process
  <2> QED
    BY <1>1, <2>1 DEF Types
<1>3. /\ Where(LockWaits \cup LockHeld) = {} /\ Where(LockHeld) = {}
      /\ Where({"cap"} \cup Slotted) = {} /\ Where(Slotted) = {} /\ Where({"cap"}) = {}
  BY <1>1 DEF Where, LockWaits, LockHeld, Slotted
<1>4. LockOK /\ CapOK
  BY <1>3, EmptySound, Channels DEF LockOK, CapOK
<1>5. Paths /\ Clones
  BY <1>1 DEF Paths, Clones, At, Own
<1> QED
  BY <1>2, <1>4, <1>5 DEF ContextsInv

\* The daemon dies and starts again.
LEMMA RestartInv ==
    ASSUME ContextsInv, Restart
    PROVE  ContextsInv'
<1>1. /\ lock' = NoSemaphore /\ cap' = NoSemaphore /\ proc' = [p \in Process |-> Idle]
      /\ seq' = 0 /\ UNCHANGED clone /\ trees' \in {trees, {}}
  BY DEF Restart
<1>2. trees' \in SUBSET (Nat \ {Own}) /\ (clone' = "none" => trees' = {})
  BY <1>1, Placed
<1>3. \A p \in Process : proc'[p].pc = "idle" /\ proc'[p].path = Own
  BY <1>1 DEF Idle
<1>4. Types'
  <2>1. Idle \in Places /\ User \in SUBSET Process /\ Purger \in SUBSET Process
    BY DEF Idle, Places, Own, Process
  <2> QED
    BY <1>1, <1>2, <1>3, <2>1 DEF Types
<1>5. /\ Where(LockWaits \cup LockHeld)' = {} /\ Where(LockHeld)' = {}
      /\ Where({"cap"} \cup Slotted)' = {} /\ Where(Slotted)' = {} /\ Where({"cap"})' = {}
  BY <1>3 DEF Where, LockWaits, LockHeld, Slotted
<1>6. LockOK' /\ CapOK'
  BY <1>1, <1>5, EmptySound, Channels DEF LockOK, CapOK
<1>7. Paths' /\ Clones'
  BY <1>1, <1>2, <1>3 DEF Paths, Clones, At, Own
<1> QED
  BY <1>4, <1>6, <1>7 DEF ContextsInv

-----------------------------------------------------------------------------
(* The invariant is one *)

\* It holds in the beginning
LEMMA InitContexts == Init => ContextsInv
BY AllIdle DEF Init

\* and every step keeps it.
LEMMA NextContexts == ContextsInv /\ [Next]_vars => ContextsInv'
<1> SUFFICES ASSUME ContextsInv, [Next]_vars
             PROVE  ContextsInv'
  OBVIOUS
<1>1. ASSUME NEW u \in User, Acquire(u) \/ CancelCap(u) \/ ReleaseTimesOut(u)
      PROVE  ContextsInv'
  BY <1>1, AcquireInv, CancelCapInv, ReleaseTimesOutInv
<1>2. ASSUME NEW p \in Purger, StartPurge(p)
      PROVE  ContextsInv'
  BY <1>2, StartPurgeInv
<1>3. ASSUME NEW p \in Process, Enters(p) \/ CancelLock(p)
      PROVE  ContextsInv'
  BY <1>3, EntersInv, CancelLockInv
<1>4. ASSUME NEW p \in Process, Proceeds(p)
      PROVE  ContextsInv'
  <2>1. CASE p \in User /\ (UseLocal(p) \/ Prepare(p) \/ StartClone(p) \/ EndClone(p))
    BY <2>1, UseLocalInv, PrepareInv, StartCloneInv, EndCloneInv
  <2>2. CASE p \in User /\ (AddWorktree(p) \/ Release(p) \/ RemoveWorktree(p) \/ LeaveCap(p))
    BY <2>2, AddWorktreeInv, ReleaseInv, RemoveWorktreeInv, LeaveCapInv
  <2>3. CASE p \in Purger /\ Purge(p)
    BY <2>3, PurgeInv
  <2> QED
    BY <1>4, <2>1, <2>2, <2>3 DEF Proceeds
<1>5. CASE Restart
  BY <1>5, RestartInv
<1>6. CASE UNCHANGED vars
  <2>1. UNCHANGED <<lock, cap, proc, clone, trees, seq>>
    BY <1>6 DEF vars
  <2>2. /\ Where({"cap"})' = Where({"cap"})
        /\ Where({"cap"} \cup Slotted)' = Where({"cap"} \cup Slotted)
        /\ Where(Slotted)' = Where(Slotted)
        /\ Where(LockHeld)' = Where(LockHeld)
        /\ Where(LockWaits \cup LockHeld)' = Where(LockWaits \cup LockHeld)
    BY <2>1 DEF Where
  <2>3. LockOK' /\ CapOK'
    BY <2>1, <2>2 DEF ContextsInv, LockOK, CapOK
  <2>4. Types' /\ Paths' /\ Clones'
    BY <2>1 DEF ContextsInv, Types, Paths, Clones, At
  <2> QED
    BY <2>3, <2>4 DEF ContextsInv
<1> QED
  BY <1>1, <1>2, <1>3, <1>4, <1>5, <1>6 DEF Next

\* It holds in every reachable state.
THEOREM ContextsInvariance == Spec => []ContextsInv
<1>1. Init => ContextsInv
  BY InitContexts
<1>2. ContextsInv /\ [Next]_vars => ContextsInv'
  BY NextContexts
<1> QED
  BY <1>1, <1>2, PTL DEF Spec

-----------------------------------------------------------------------------
(* What it implies *)

\* One execution or purge at a time is next to the clone, although the channel
\* they wait for is made, dropped and made again.
OneHoldsLock ==
    \A p, r \in Process : proc[p].pc \in LockHeld /\ proc[r].pc \in LockHeld => p = r

\* The lock of a clone is exclusive in every reachable state (manager.go, acquireRepoLock).
THEOREM LockExclusive == Spec => []OneHoldsLock
<1>1. ContextsInv => OneHoldsLock
  BY Alone DEF ContextsInv, OneHoldsLock
<1> QED
  BY <1>1, ContextsInvariance, PTL

\* No more executions than there are slots have one, from the wait for the
\* lock to the removal of the worktree.
SlotsBounded ==
    MaxWorktrees > 0 => Cardinality({p \in Process : proc[p].pc \in Slotted}) <= MaxWorktrees

\* MaxWorktrees is kept in every reachable state (manager.go, acquireWorktreeCap).
THEOREM SlotsRespected == Spec => []SlotsBounded
<1>1. ContextsInv => SlotsBounded
  BY Channels DEF ContextsInv, CapOK, Sound, Where, SlotsBounded
<1> QED
  BY <1>1, ContextsInvariance, PTL

\* A step that takes the worktree of an execution at work is a purge.
LEMMA NextKeeps ==
    ASSUME ContextsInv, [Next]_vars, NEW u \in User, Using(u), Using(u)',
           proc[u].path \in trees \ trees'
    PROVE  \E p \in Purger : At(p, "purge") /\ ~ At(p, "purge")'
<1>1. /\ proc[u].pc = "use" /\ proc'[u].pc = "use" /\ proc[u].path # Own
      /\ ~ (trees \in SUBSET trees') /\ u \in Process
  BY Placed DEF Using, At
<1>2. ASSUME NEW v \in User, RemoveWorktree(v) \/ ReleaseTimesOut(v)
      PROVE  FALSE
  <2>1. /\ proc[v].pc \in {"remove", "rlock"} /\ v \in Process
        /\ \A n \in trees : n # proc[v].path => n \in trees'
    BY <1>2, Placed DEF RemoveWorktree, ReleaseTimesOut, At
  <2>2. proc[u].path = proc[v].path /\ u # v
    BY <1>1, <2>1
  <2> QED
    BY <1>1, <2>1, <2>2 DEF ContextsInv, Paths
<1>3. ASSUME NEW v \in User, StartClone(v) \/ EndClone(v) \/ AddWorktree(v)
      PROVE  FALSE
  BY <1>1, <1>3, StartCloneInv, EndCloneInv, AddWorktreeInv
<1>4. ~ Restart
  BY <1>1 DEF Restart, Idle
<1>5. ASSUME NEW p \in Purger, Purge(p)
      PROVE  \E r \in Purger : At(r, "purge") /\ ~ At(r, "purge")'
  <2>1. proc[p].pc = "purge" /\ Go(p, "idle") /\ p \in Process
    BY <1>5, Placed DEF Purge, Unlock, At
  <2>2. proc'[p].pc = "idle"
    BY <2>1, Placed DEF Go, Types, Places
  <2> QED
    BY <2>1, <2>2 DEF At
<1>6. ASSUME NEW v \in Process,
             \/ v \in User /\ (\/ Acquire(v) \/ CancelCap(v) \/ EnterCap(v) \/ UseLocal(v)
                               \/ Prepare(v) \/ Release(v) \/ LeaveCap(v))
             \/ v \in Purger /\ StartPurge(v)
             \/ EnterLock(v) \/ CancelLock(v)
      PROVE  FALSE
  <2>1. trees' = trees
    BY <1>6 DEF Acquire, CancelCap, EnterCap, UseLocal, Prepare, Release, LeaveCap,
                StartPurge, EnterLock, CancelLock, disk
  <2> QED
    BY <1>1, <2>1
<1>7. CASE UNCHANGED vars
  BY <1>1, <1>7 DEF vars
<1>8. ASSUME Next
      PROVE  \E p \in Purger : At(p, "purge") /\ ~ At(p, "purge")'
  BY <1>2, <1>3, <1>4, <1>5, <1>6, <1>8, Placed DEF Next, Enters, Proceeds
<1> QED
  BY <1>7, <1>8

\* A worktree that an execution works in stays where it is, whatever others
\* do, until a purge takes it away.
THEOREM CheckoutsKept == Spec => CheckoutKept
<1> DEFINE Kept == \A u \in User :
                       Using(u) /\ Using(u)' /\ proc[u].path \in trees \ trees'
                       => \E p \in Purger : At(p, "purge") /\ ~ At(p, "purge")'
<1>1. ContextsInv /\ [Next]_vars => [Kept]_vars
  BY NextKeeps
<1> QED
  BY <1>1, ContextsInvariance, PTL DEF Spec, CheckoutKept
=============================================================================
