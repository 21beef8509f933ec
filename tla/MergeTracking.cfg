\* The loop and one dry run, a few commits, and one thing that happens besides.
CONSTANTS
    DryRuns = {d1}
    Configs <- MCConfigs
    MaxAttempts = 1
    MaxWaits = 1
    MaxSkips = 1
    MaxChanges = 1
    MaxFaults = 1
SPECIFICATION Spec
INVARIANT TypeOK
PROPERTIES MergesDecidedCommit ClaimsOwned ReadyMerges MergedSettles
CHECK_DEADLOCK FALSE
