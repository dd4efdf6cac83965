\* Starts and Workers: two processes; the last one does not stop, since nobody would start another.
\* The provider is never assumed to answer: FairSpec bounds its call by the worker's own timers.
CONSTANTS
    r1 = r1
    r2 = r2
    ann = ann
    ben = ben
    None = None
    Runs = {r1, r2}
    Owners = {ann, ben}
    Owner <- MCOwner
    FreeRuns = {r2}
    Starts = 2
    Workers <- MCWorkers
    Attempts = {a1, a2}
    MaxText = 2
    Texts <- MCTexts
    CheckpointChars = 2
    Concurrency = 2
    LeaseTime = 1
    MaxCreated = 0
SPECIFICATION FairSpec
INVARIANTS CalledOnce LeasesTended TextSafe
PROPERTIES NoOverlap TextKept UsesLifecycle RunsEnd
CHECK_DEADLOCK FALSE
