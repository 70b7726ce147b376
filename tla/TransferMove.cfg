CONSTANTS
    Root = root
    a = a
    b = b
    job1 = job1
    job2 = job2
    NoJob = nojob
    Files = {a, b}
    Existing = {}
    PartialFiles = FALSE
    Jobs = {job1, job2}
    TypeOf <- MoveAndMerge
    MaySync = {job1}
    MaxTasks = 4
    MaxRetried = 1
SPECIFICATION Spec
SYMMETRY Symm
INVARIANTS TypeOK GroupCountsTasks NothingLost MovedIsGone
CHECK_DEADLOCK FALSE
