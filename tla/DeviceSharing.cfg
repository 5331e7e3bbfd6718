SPECIFICATION SharingSpec
CONSTANTS
    Process = {p1, p2, p3}
    Nobody = Nobody
    Deployers = {d1, d2}
    MaxLost = 2
    MaxOthers = 3
    Children = {w1, w2, w3}
    Handlers = {h1, h2}
    Recoveries = {r1}
    NoChild = none
    MaxReboots = 1
    Browsers = {b1, b2}
    RequestThreads = {t1, t2}
    Records = 3
    MaxRequests = 2
    MaxTokens = 1
    MaxLostReplies = 1
    MaxOutside = 1
INVARIANTS
    OwnerIsRegistered
    NoOrphans
PROPERTIES
    LockIsGivenUp
    PassMeansDeployed
    LostOwnerIsReplaced
    UploadIsStaged
