\* Two reviews, a rebase and a purge, with slots for two.
CONSTANTS
    Reader = {r1, r2}
    Writer = {w1}
    Purger = {p1}
    MaxWorktrees = 2
    MaxSeq = 3
    MaxFaults = 1
SPECIFICATION Spec
PROPERTIES CheckoutKept AcquireReturns
