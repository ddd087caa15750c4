CONSTANTS
    t1 = t1
    t2 = t2
    q1 = q1
    q2 = q2
    j1 = j1
    j2 = j2
    f1 = f1
    s1 = s1
    s2 = s2
    p1 = p1
    p2 = p2
    NoBuf = NoBuf
    NoJob = NoJob
    NoFence = NoFence
    Threads = {t1, t2}
    Queues = {q1, q2}
    Jobs = {j1, j2}
    Fences = {f1}
    ScratchBufs = {}
    PreemptBufs = {p1, p2}
    AllocSize <- NoBufs
    ScratchSize <- NoScratch
    EmptyJobs = {j2}
    InOrder = {q1}
    Synchronous = {q2}
    Preemption = TRUE
    SubmitErrors = FALSE
    JobErrors = FALSE
    MayUse <- SharedQueue
    FenceQueue <- FenceOnFirst
    QueueDepth = 1
    PreloadSizes = {}
SPECIFICATION Spec
SYMMETRY PreemptSymmetry
INVARIANTS InUseNotReclaimable
