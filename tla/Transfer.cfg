SPECIFICATION FairSpec
CONSTANTS
    Size = 2
    Chunk = 2
    MAX_RETRIES = 2
    MaxSessions = 2
    MaxWrites = 2
    MaxRequests = 2
INVARIANTS TypeOK LandedIsComplete RegisteredOnce CompletedIsRegistered
PROPERTIES ImplementsUpload EveryUploadSettles
