-------------------------- MODULE AdmissionBarrier --------------------------
(***************************************************************************)
(* What the work gate promises, without leases, clocks, files or counters: *)
(* work begins only while the barrier is open, the barrier is sealed only  *)
(* when nothing runs, and a seal is lifted only after it was confirmed in  *)
(* the present life of the process.                                        *)
(***************************************************************************)
CONSTANTS Lease, NoLease, Job

VARIABLES
    barrier,    \* "open", "draining" or "sealed"
    owner,      \* who drains or sealed it
    confirmed,  \* the seal may be lifted
    busy        \* the jobs at work

vars == <<barrier, owner, confirmed, busy>>

Init == barrier = "open" /\ owner = NoLease /\ ~confirmed /\ busy = {}

Begin(j) ==
    /\ barrier = "open"
    /\ busy' = busy \cup {j}
    /\ UNCHANGED <<barrier, owner, confirmed>>

End(j) ==
    /\ busy' = busy \ {j}
    /\ UNCHANGED <<barrier, owner, confirmed>>

Drain(l) ==
    /\ barrier = "open"
    /\ barrier' = "draining" /\ owner' = l
    /\ UNCHANGED <<confirmed, busy>>

Close ==
    /\ barrier = "draining" /\ busy = {}
    /\ barrier' = "sealed"
    /\ UNCHANGED <<owner, confirmed, busy>>

Confirm ==
    /\ barrier = "sealed"
    /\ confirmed' = TRUE
    /\ UNCHANGED <<barrier, owner, busy>>

\* A drain may be given up; a seal must have been confirmed.
Lift ==
    /\ barrier = "draining" \/ (barrier = "sealed" /\ confirmed)
    /\ barrier' = "open" /\ owner' = NoLease /\ confirmed' = FALSE
    /\ UNCHANGED busy

\* A job may find an abandoned drain over and begin at once.
LiftAndBegin(j) ==
    /\ barrier = "draining"
    /\ barrier' = "open" /\ owner' = NoLease
    /\ busy' = busy \cup {j}
    /\ UNCHANGED confirmed

\* An abandoned drain may pass to another owner.
TakeOver(l) ==
    /\ barrier = "draining"
    /\ owner' = l
    /\ UNCHANGED <<barrier, confirmed, busy>>

\* The process dies: its work and a confirmation die with it, and only an
\* unconfirmed seal is certain to be found again.
Die ==
    /\ busy' = {} /\ confirmed' = FALSE
    /\ IF barrier = "sealed" /\ ~confirmed
       THEN UNCHANGED <<barrier, owner>>
       ELSE /\ barrier' \in {"open", "draining", "sealed"}
            /\ owner' \in IF barrier' = "open" THEN {NoLease} ELSE Lease

Next ==
    \/ \E j \in Job : Begin(j) \/ End(j) \/ LiftAndBegin(j)
    \/ \E l \in Lease : Drain(l) \/ TakeOver(l)
    \/ Close \/ Confirm \/ Lift \/ Die

Spec == Init /\ [][Next]_vars

=============================================================================
