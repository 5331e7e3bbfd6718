SPECIFICATION CommandsSpec
CONSTANTS
    Shells = {s1, s2}
    MaxSize = 2
    MaxPuts = 2
    MaxReads = 1
    Names = {a, b, c}
    Upload = Upload
    Free = Free
    Places = 4
    MaxChanges = 8
    MaxListings = 2
    Word = 64
    Space = 16
    Paragraph = 4
    ChunkSize = 2
    Backing = 12
    MailboxBase = 9
    MailboxSize = 3
    Byte = {"a", "b", "0"}
    Files <- Loaded
    Checked <- Compared
    Uploaders = {1, 2}
    MaxLoads = 2
    MaxLost = 1
    Modulus = 4
    MaxUpdates = 4
    MaxRestarts = 1
    Samples = 2
    Attempts = 2
INVARIANTS
    TargetIsWhole
    ReadingIsExact
    ChecksAgree
    PassMeansProgress
PROPERTIES
    UploadIsOwn
