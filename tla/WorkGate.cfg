CONSTANTS
    Lease = {l1, l2}
    NoLease = NoLease
    Kind = {review, publish}
    Job = {j1, j2}
    TTL = 2
    MaxTime = 5
SPECIFICATION FairSpec
INVARIANTS TypeOK AccountingExact SealedIdle SealDurable
PROPERTIES SealHeld LeaseHonoured ImplementsBarrier AbandonedDrainReopens RestoredLeaseBootstraps
