CONSTANTS
    r1 = r1
    r2 = r2
    alice = alice
    anna = anna
    u1 = u1
    va = va
    vb = vb
    Total = 1
    Slots = 1
    Versions = {va, vb}
    NoVersion = none
    MaxSession = 1
    MaxAttempt = 1
    Requests = {r1, r2}
    Clients = {alice}
    Users = {u1}
    UserOf <- MCUserOf
    FileOf <- MCFileOf
    HashOf <- NoHashes
    Indexes = {0}
    Operations = {"Init", "Chunk", "Abort"}
    Nobody = nobody
    NoHash = nohash
SPECIFICATION Spec
INVARIANT ManagerOwnsLive
