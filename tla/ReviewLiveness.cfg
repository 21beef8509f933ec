\* Every kind of fault: nothing stays pending, no request is ignored.
CONSTANTS
    Automatic = {a1}
    Manual = {}
    Publisher = {p1}
    Fault = {"claim", "lookup", "generate", "insert", "transient", "permanent",
             "reply", "mark", "release", "lose", "pause", "outlive", "second",
             "crash"}
    MaxHead = 1
    MaxRows = 2
    MaxMessages = 1
    MaxEvents = 2
    MaxPeerPosts = 0
    MaxFaults = 2
SPECIFICATION FairSpec
INVARIANT SubmissionsBounded
PROPERTIES PendingResolved RequestServed
\* The pull request may be closed for good and everything bounded spent.
CHECK_DEADLOCK FALSE
