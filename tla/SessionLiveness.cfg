CONSTANTS
    r1 = r1
    r2 = r2
    alice = alice
    anna = anna
    u1 = u1
    va = va
    vb = vb
    Total = 1
    Slots = 1
    Versions = {va, vb}
    NoVersion = none
    MaxSession = 1
    MaxAttempt = 0
    Requests = {r1, r2}
    Clients = {alice}
    Users = {u1}
    UserOf <- MCUserOf
    FileOf <- MCFileOf
    HashOf <- MCHashOf
    Indexes = {0}
    Operations = {"Init", "Chunk", "Complete", "Abort", "Expire"}
    Nobody = nobody
    NoHash = nohash
SPECIFICATION FairSpec
PROPERTIES AbortEndsPipeline CompleteReturns ExpiredIsReclaimed
