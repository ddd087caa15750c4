CONSTANTS
    t1 = t1
    t2 = t2
    q1 = q1
    q2 = q2
    j1 = j1
    j2 = j2
    f1 = f1
    s1 = s1
    s2 = s2
    p1 = p1
    p2 = p2
    NoBuf = NoBuf
    NoJob = NoJob
    NoFence = NoFence
    Threads = {t1, t2}
    Queues = {q1}
    Jobs = {j1, j2}
    Fences = {f1}
    ScratchBufs = {}
    PreemptBufs = {}
    AllocSize <- NoBufs
    ScratchSize <- NoScratch
    EmptyJobs = {}
    InOrder = {}
    Synchronous = {}
    Preemption = FALSE
    SubmitErrors = TRUE
    JobErrors = TRUE
    MayUse <- OwnQueue
    FenceQueue <- FenceOnFirst
    QueueDepth = 1
    PreloadSizes = {}
SPECIFICATION FairSpec
INVARIANTS SuccessMeansDone
PROPERTIES CallsReturn
