---------------------------- MODULE RepoContexts ----------------------------
(***************************************************************************)
(* The checkouts the agents work in: daemon/internal/repoctx/manager.go,   *)
(* for one repository.  An execution takes one of MaxWorktrees slots, then *)
(* the repository's lock while it prepares the shared clone and adds a     *)
(* worktree, works there without the lock, and takes the lock once more to *)
(* remove the worktree.  Lock and slots are channels in maps, counted and  *)
(* dropped when nobody refers to them.  A purge deletes the clone under    *)
(* the lock.  git and the file system are external; a worktree is known by *)
(* the number in its name, all executions having the same token.           *)
(***************************************************************************)
EXTENDS Naturals, FiniteSets, FiniteSetsExt

CONSTANTS
    Reader,        \* executions in ModeRead: reviews
    Writer,        \* executions in ModeWrite: rebases and conflict resolution
    Purger,        \* DELETE /config/clones, the rename, the retention
    MaxWorktrees,  \* max_worktrees_per_repo; 0 for no limit
    MaxSeq,        \* bound on the worktrees of one life of the daemon
    MaxFaults      \* bound on failures of git and of files, and on crashes

User == Reader \cup Writer
Process == User \cup Purger

ASSUME RepoContextsAssumption ==
    /\ IsFiniteSet(Process) /\ User \cap Purger = {}
    /\ MaxWorktrees \in Nat /\ MaxSeq \in Nat /\ MaxFaults \in Nat

VARIABLES
    localDir,      \* where a local checkout was configured, if anywhere
    lock, cap,     \* Manager.locks and Manager.caps of the repository
    proc,          \* the executions and the purges
    clone,         \* the managed clone: "none", "partial" (unmarked) or "ready"
    trees,         \* directories under .worktrees
    registered,    \* worktrees git knows
    seq,           \* wtSeq
    faults

vars == <<localDir, lock, cap, proc, clone, trees, registered, seq, faults>>
disk == <<clone, trees, registered>>

Own == 0                            \* the operator's checkout as a path
Seqs == 1..MaxSeq

-----------------------------------------------------------------------------
(* A counted channel that lives in a map while somebody refers to it.  A    *)
(* goroutine keeps the channel it found, which may no longer be the map's.  *)

Channel == 1..Cardinality(Process)

NoSemaphore == [entry |-> 0, refs |-> [c \in Channel |-> 0],
                inside |-> [c \in Channel |-> {}], of |-> [p \in Process |-> 0]]

Unreferred(s) == {c \in Channel : s.inside[c] = {} /\ \A p \in Process : s.of[p] # c}

Refer(s, p) ==
    LET c == IF s.entry # 0 THEN s.entry ELSE Min(Unreferred(s))
    IN  [s EXCEPT !.entry = c, !.refs[c] = IF s.entry = 0 THEN 1 ELSE @ + 1,
                  !.of[p] = c]

Room(s, p, size) == Cardinality(s.inside[s.of[p]]) < size

Enter(s, p) == [s EXCEPT !.inside[s.of[p]] = @ \cup {p}]

\* Mutant: the entry goes with the first one that leaves.
DropAnyRef(s, p) ==
    LET c == s.of[p]
    IN  [s EXCEPT !.refs[c] = @ - 1, !.of[p] = 0,
                  !.entry = IF s.entry = c THEN 0 ELSE @]

DropRef(s, p) ==
    LET c == s.of[p]
    IN  [s EXCEPT !.refs[c] = @ - 1, !.of[p] = 0,
                  !.entry = IF s.refs[c] = 1 /\ s.entry = c THEN 0 ELSE @]

\* Receive from the channel, then drop the reference to it.
Leave(s, p) == DropRef([s EXCEPT !.inside[s.of[p]] = @ \ {p}], p)

-----------------------------------------------------------------------------
Idle == [pc |-> "idle", path |-> Own]

Init ==
    /\ localDir \in {"none", "base", "repo"}
    /\ lock = NoSemaphore /\ cap = NoSemaphore
    /\ proc = [p \in Process |-> Idle]
    /\ clone = "none" /\ trees = {} /\ registered = {}
    /\ seq = 0 /\ faults = 0

At(p, pc) == proc[p].pc = pc
Go(p, pc) == proc' = [proc EXCEPT ![p].pc = pc]
Fault == faults < MaxFaults /\ faults' = faults + 1

Unlock(p, pc) == lock' = Leave(lock, p) /\ Go(p, pc)

\* resolveLocal; a checkout below local_dir_base is never written to.
Local(u) == localDir = "repo" \/ (localDir = "base" /\ u \in Reader)

-----------------------------------------------------------------------------
(* Slots and lock *)

Started == Cardinality({u \in User : ~ At(u, "idle") /\ proc[u].path = Own})

Acquire(u) ==
    /\ At(u, "idle") /\ seq + Started < MaxSeq
    /\ IF MaxWorktrees = 0
       THEN Go(u, "lock") /\ lock' = Refer(lock, u) /\ UNCHANGED cap
       ELSE Go(u, "cap") /\ cap' = Refer(cap, u) /\ UNCHANGED lock
    /\ UNCHANGED <<localDir, disk, seq, faults>>

\* A slot is free; acquireRepoLock up to its select follows.
EnterCap(u) ==
    /\ At(u, "cap") /\ Room(cap, u, MaxWorktrees)
    /\ cap' = Enter(cap, u) /\ lock' = Refer(lock, u) /\ Go(u, "lock")
    /\ UNCHANGED <<localDir, disk, seq, faults>>

\* What the lock was waited for: to acquire, to release, to purge.
Entered == [lock |-> "locked", rlock |-> "remove", plock |-> "purge"]

EnterLock(p) ==
    /\ proc[p].pc \in DOMAIN Entered /\ Room(lock, p, 1)
    /\ lock' = Enter(lock, p) /\ Go(p, Entered[proc[p].pc])
    /\ UNCHANGED <<localDir, cap, disk, seq, faults>>

LeaveCap(u) ==
    /\ At(u, "capout")
    /\ cap' = (IF MaxWorktrees = 0 THEN cap ELSE Leave(cap, u))
    /\ proc' = [proc EXCEPT ![u] = Idle]
    /\ UNCHANGED <<localDir, lock, disk, seq, faults>>

\* The caller's context ends while it waits.
CancelCap(u) ==
    /\ At(u, "cap") /\ cap' = DropRef(cap, u) /\ Go(u, "idle")
    /\ UNCHANGED <<localDir, lock, disk, seq, faults>>

\* Mutant: who gives up waiting for the lock keeps its slot.
SlotKept(p) == "idle"

AfterCancel(p) == IF p \in User THEN "capout" ELSE "idle"

CancelLock(p) ==
    /\ At(p, "lock") \/ At(p, "plock")
    /\ lock' = DropRef(lock, p) /\ Go(p, AfterCancel(p))
    /\ UNCHANGED <<localDir, cap, disk, seq, faults>>

-----------------------------------------------------------------------------
(* An acquisition with the lock *)

\* A usable local checkout is handed out as it is, without a worktree.
UseLocal(u) ==
    /\ At(u, "locked") /\ Local(u) /\ Unlock(u, "use")
    /\ UNCHANGED <<localDir, cap, disk, seq, faults>>

\* ensureManagedClone looks at the target: one without a marker is not ours, a
\* managed one is brought up to date (with its full history for a writer), and
\* git clean excludes the worktrees of the executions at work.
Prepare(u) ==
    /\ At(u, "locked") /\ ~ Local(u)
    /\ \/ /\ clone = "none" /\ Go(u, "clone")
          /\ UNCHANGED <<lock, faults>>
       \/ clone = "partial" /\ Unlock(u, "capout") /\ UNCHANGED faults
       \/ clone = "ready" /\ Go(u, "add") /\ UNCHANGED <<lock, faults>>
       \/ clone = "ready" /\ Fault /\ Unlock(u, "capout")
    /\ UNCHANGED <<localDir, cap, disk, seq>>

Wiped == clone' = "none" /\ trees' = {} /\ registered' = {}

\* git clone refuses a target that exists, and a target is removed whenever
\* its clone or its marker failed.
StartClone(u) ==
    /\ At(u, "clone")
    /\ IF clone = "none"
       THEN clone' = "partial" /\ Go(u, "cloning") /\ UNCHANGED <<lock, trees, registered>>
       ELSE Wiped /\ Unlock(u, "capout")
    /\ UNCHANGED <<localDir, cap, seq, faults>>

EndClone(u) ==
    /\ At(u, "cloning")
    /\ \/ /\ clone' = "ready" /\ Go(u, "add")
          /\ UNCHANGED <<lock, trees, registered, faults>>
       \/ Fault /\ Unlock(u, "capout") /\ (Wiped \/ UNCHANGED disk)
    /\ UNCHANGED <<localDir, cap, seq>>

\* git worktree add refuses a path that exists or is registered; a command
\* that was killed may leave either behind.
AddWorktree(u) ==
    LET n == seq + 1
        free == clone = "ready" /\ n \notin trees \cup registered
    IN  /\ At(u, "add") /\ seq' = n /\ lock' = Leave(lock, u)
        /\ \/ /\ free /\ proc' = [proc EXCEPT ![u] = [pc |-> "use", path |-> n]]
              /\ trees' = trees \cup {n} /\ registered' = registered \cup {n}
              /\ UNCHANGED faults
           \/ ~ free /\ Go(u, "capout") /\ UNCHANGED <<trees, registered, faults>>
           \/ /\ free /\ Fault /\ Go(u, "capout")
              /\ trees' \in {trees, trees \cup {n}}
              /\ registered' \in {registered, registered \cup {n}}
        /\ UNCHANGED <<localDir, cap, clone>>

-----------------------------------------------------------------------------
(* Handle.Release *)

\* An operator's checkout costs only the slot.
Release(u) ==
    /\ At(u, "use")
    /\ IF proc[u].path = Own
       THEN Go(u, "capout") /\ UNCHANGED lock
       ELSE Go(u, "rlock") /\ lock' = Refer(lock, u)
    /\ UNCHANGED <<localDir, cap, disk, seq, faults>>

RemoveWorktree(u) ==
    /\ At(u, "remove") /\ Unlock(u, "capout")
    /\ \/ /\ proc[u].path \in registered
          /\ trees' = trees \ {proc[u].path}
          /\ registered' = registered \ {proc[u].path} /\ UNCHANGED faults
       \/ proc[u].path \in registered /\ Fault /\ UNCHANGED <<trees, registered>>
       \/ proc[u].path \notin registered /\ UNCHANGED <<trees, registered, faults>>
    /\ UNCHANGED <<localDir, cap, clone, seq>>

\* After releaseTimeout the directory goes without the lock and stays registered.
ReleaseTimesOut(u) ==
    /\ At(u, "rlock")
    /\ lock' = DropRef(lock, u) /\ Go(u, "capout")
    /\ \/ trees' = trees \ {proc[u].path} /\ UNCHANGED faults
       \/ Fault /\ UNCHANGED trees
    /\ UNCHANGED <<localDir, cap, clone, registered, seq>>

-----------------------------------------------------------------------------
(* Purges and restarts *)

StartPurge(p) ==
    /\ At(p, "idle") /\ lock' = Refer(lock, p) /\ Go(p, "plock")
    /\ UNCHANGED <<localDir, cap, disk, seq, faults>>

\* Purge and purgeTarget ask for the marker, not for executions at work.
Purge(p) ==
    /\ At(p, "purge") /\ Unlock(p, "idle")
    /\ \/ clone = "ready" /\ Wiped /\ UNCHANGED faults
       \/ /\ clone = "ready" /\ Fault             \* RemoveAll stops midway
          /\ clone' \in {"partial", "ready"}
          /\ trees' \in SUBSET trees /\ registered' \in SUBSET registered
       \/ clone # "ready" /\ UNCHANGED <<disk, faults>>
    /\ UNCHANGED <<localDir, cap, seq>>

\* The daemon dies.  Its next life sweeps .worktrees of every marked clone
\* before the first acquisition, unless an update drains or git fails.
Restart ==
    /\ Fault
    /\ lock' = NoSemaphore /\ cap' = NoSemaphore
    /\ proc' = [p \in Process |-> Idle] /\ seq' = 0
    /\ \/ clone = "ready" /\ trees' = {} /\ registered' = {}
       \/ UNCHANGED <<trees, registered>>
    /\ UNCHANGED <<localDir, clone>>

Enters(p) == EnterLock(p) \/ (p \in User /\ EnterCap(p))

Proceeds(p) ==
    \/ /\ p \in User
       /\ \/ UseLocal(p) \/ Prepare(p) \/ StartClone(p) \/ EndClone(p)
          \/ AddWorktree(p) \/ Release(p) \/ RemoveWorktree(p) \/ LeaveCap(p)
    \/ p \in Purger /\ Purge(p)

Next ==
    \/ \E u \in User : Acquire(u) \/ CancelCap(u) \/ ReleaseTimesOut(u)
    \/ \E p \in Purger : StartPurge(p)
    \/ \E p \in Process : Enters(p) \/ Proceeds(p) \/ CancelLock(p)
    \/ Restart

\* git and the agents end by their timeouts, and a channel serves those that
\* wait to send in the order they came.
Fairness == \A p \in Process : WF_vars(Proceeds(p)) /\ SF_vars(Enters(p))

Spec == Init /\ [][Next]_vars /\ Fairness

-----------------------------------------------------------------------------
(* Properties *)

Using(u) == At(u, "use")

\* A worktree that an execution works in is its own and stays where it is
\* while others prepare the clone, fail, release or are cancelled: only a
\* purge takes it away.
CheckoutKept ==
    [][\A u \in User :
          Using(u) /\ Using(u)' /\ proc[u].path \in trees \ trees'
          => \E p \in Purger : At(p, "purge") /\ ~ At(p, "purge")']_vars

\* However slots and lock change hands, and whoever gives up or dies, an
\* acquisition ends: with a checkout or with an error.
AcquireReturns == \A u \in User : At(u, "cap") ~> At(u, "use") \/ At(u, "idle")
=============================================================================
