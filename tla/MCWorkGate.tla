----------------------------- MODULE MCWorkGate -----------------------------
(***************************************************************************)
(* WorkGate's mapping to AdmissionBarrier, which TLC checks here and       *)
(* WorkGateProofs proves.                                                  *)
(***************************************************************************)
EXTENDS WorkGate

\* A running process answers from memory, a dead one is what its marker says.
BarrierState ==
    IF proc = "down"
    THEN IF disk.sealed THEN "sealed"
         ELSE IF disk = NoMarker THEN "open" ELSE "draining"
    ELSE IF gate.sealed THEN "sealed"
         ELSE IF gate.draining THEN "draining" ELSE "open"

BarrierOwner == IF proc = "down" THEN disk.lease ELSE gate.lease

Working == {j \in Job : Live(j)}

Barrier == INSTANCE AdmissionBarrier WITH
    barrier <- BarrierState, owner <- BarrierOwner,
    confirmed <- gate.authorized, busy <- Working

\* The gate implements the barrier: whatever the files, the clock and crashes
\* do, work begins only behind an open barrier, a seal is set only when
\* nothing runs and is lifted only after a confirmation (gate.go).
ImplementsBarrier == Barrier!Spec

=============================================================================
