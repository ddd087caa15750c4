CONSTANTS
    t1 = t1
    t2 = t2
    q1 = q1
    q2 = q2
    j1 = j1
    j2 = j2
    f1 = f1
    s1 = s1
    s2 = s2
    p1 = p1
    p2 = p2
    NoBuf = NoBuf
    NoJob = NoJob
    NoFence = NoFence
    Threads = {t1, t2}
    Queues = {q1, q2}
    Jobs = {j1, j2}
    Fences = {}
    ScratchBufs = {s1, s2}
    PreemptBufs = {p1, p2}
    AllocSize <- BufSizes
    ScratchSize <- TwoSizes
    EmptyJobs = {}
    InOrder = {}
    Synchronous = {}
    Preemption = TRUE
    SubmitErrors = FALSE
    JobErrors = FALSE
    MayUse <- OwnQueue
    FenceQueue <- FenceOnFirst
    QueueDepth = 1
    PreloadSizes = {2}
SPECIFICATION Spec
SYMMETRY PreemptSymmetry
INVARIANTS TypeOK ScratchExclusive InUseNotReclaimable PreemptionPerQueue NoPreemptionLeak
