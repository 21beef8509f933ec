\* A pull request whose repository is deleted, or access to it revoked.
CONSTANTS
    PRs = {p1}
    Slots = 1
    MaxBackoff = 2
    EvictAfter = 3
    SnapshotAge = 0
    MaxQueue = 1
    MaxEvents = 1
    MaxFaults = 0
SPECIFICATION Spec
PROPERTY GoneForgotten
