\* One dry run while the loop merges; nothing fails and nothing else happens.
CONSTANTS
    DryRuns = {d1}
    Configs <- DirectOnly
    MaxAttempts = 1
    MaxWaits = 1
    MaxSkips = 1
    MaxChanges = 1
    MaxFaults = 0
SPECIFICATION Spec
INVARIANT InFlightOwned
CHECK_DEADLOCK FALSE
