CONSTANTS
    Lease = {l1, l2}
    NoLease = NoLease
    Kind = {review}
    Job = {j1}
    TTL = 2
    MaxTime = 4
    MaxBoots = 4
SPECIFICATION HandshakeSpec
INVARIANTS HandshakeTypeOK InstallQuiet ReplacementVerified
    ReplacedMeansInstalling InstallingNeverOwnerless
