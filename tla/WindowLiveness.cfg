\* Every wait ends: one slot, so that requests really park.
CONSTANTS
    ChunkSize = 2
    TotalSize = 3
    Slots = 1
    MaxRead = 2
    w1 = w1
    w2 = w2
    w3 = w3
    v1 = v1
    v2 = v2
    Writers = {w1, w2}
    Versions = {v1}
    NoVersion = none
    Reader = reader
SPECIFICATION FairSpec
PROPERTIES AdmissionBounded CloseReleases
