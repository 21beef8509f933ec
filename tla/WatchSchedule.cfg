\* One pull request with two checks in flight: pull requests share only the
\* queue and the slots.
CONSTANTS
    PRs = {p1}
    Slots = 2
    MaxBackoff = 2
    EvictAfter = 3
    SnapshotAge = 0
    MaxQueue = 1
    MaxEvents = 1
    MaxFaults = 1
SPECIFICATION Spec
INVARIANT TypeOK
PROPERTIES OpenChecked QuietSettles ClosedForgotten RequestNoticed
