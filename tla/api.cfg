\* Two requests at a time, of any handlers, one after another without end.
SPECIFICATION ApiFairSpec
CONSTANTS
    r1 = r1
    r2 = r2
    Requests = {r1, r2}
    MaxConnections = 3
    MaxActive = 3
    MaxDays = 2
INVARIANTS ApiTypeOK HandlesAccounted RedisErrorsBounded
PROPERTIES RefusedOnlyForLeaks HeldOnlyByPeers
