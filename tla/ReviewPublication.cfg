\* Automatic, forced and deferred publication of one pull request together.
CONSTANTS
    Automatic = {a1}
    Manual = {m1}
    Publisher = {p1}
    Fault = {"mark", "reply", "transient", "permanent", "crash", "release"}
    MaxHead = 2
    MaxRows = 2
    MaxMessages = 1
    MaxEvents = 2
    MaxPeerPosts = 1
    MaxFaults = 1
SPECIFICATION Spec
INVARIANTS TypeOK PostsAccounted
PROPERTY NoUnaskedRereview
\* The pull request may be closed for good and everything bounded spent.
CHECK_DEADLOCK FALSE
