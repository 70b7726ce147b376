\* Three chunks, the last one short, two slots, two requests at a time.
CONSTANTS
    ChunkSize = 2
    TotalSize = 5
    Slots = 2
    MaxRead = 2
    w1 = w1
    w2 = w2
    w3 = w3
    v1 = v1
    v2 = v2
    Writers = {w1, w2}
    Versions = {v1, v2}
    NoVersion = none
    Reader = reader
SPECIFICATION Spec
SYMMETRY Symm
INVARIANTS TypeOK NoRingRace StreamIntact NoLostWakeup AckedIsHeld SnapshotExact
PROPERTIES CRCWriteOnce ImplementsStream
