CONSTANTS
    r1 = r1
    r2 = r2
    alice = alice
    anna = anna
    u1 = u1
    va = va
    vb = vb
    Total = 2
    Slots = 1
    Versions = {va, vb}
    NoVersion = none
    MaxSession = 1
    MaxAttempt = 1
    Requests = {r1, r2}
    Clients = {alice, anna}
    Users = {u1}
    UserOf <- MCUserOf
    FileOf <- MCFileOf
    HashOf <- NoHashes
    Indexes <- MCIndexes
    Operations = {"Init", "Chunk", "Complete"}
    Nobody = nobody
    NoHash = nohash
SPECIFICATION Spec
INVARIANT MutexIsReleased
