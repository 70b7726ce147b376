CONSTANTS
    Root = root
    a = a
    b = b
    job1 = job1
    job2 = job2
    NoJob = nojob
    Files = {a}
    Existing = {}
    PartialFiles = TRUE
    Jobs = {job1}
    TypeOf <- OneMove
    MaySync = {}
    MaxTasks = 2
    MaxRetried = 1
SPECIFICATION Spec
INVARIANT NothingLost
CHECK_DEADLOCK FALSE
