\* Two publish workers and a message that is queued twice.
CONSTANTS
    Automatic = {}
    Manual = {m1}
    Publisher = {p1, p2}
    Fault = {"transient"}
    MaxHead = 1
    MaxRows = 1
    MaxMessages = 2
    MaxEvents = 1
    MaxPeerPosts = 0
    MaxFaults = 1
SPECIFICATION Spec
INVARIANT PostsWithinRows
CHECK_DEADLOCK FALSE
