CONSTANTS
    la = la
    lb = lb
    lc = lc
    ld = ld
    inorder = inorder
    other = other
    turbo = turbo
    Jobs = {la, lb, lc, ld}
    Queues = {inorder, other, turbo}
    NumBufs <- FirstTwo
    InOrder = {inorder}
    Turbo = {turbo}
    Background = {other}
    QueueDepth = 2
    SubmitErrors = {turbo}
    DispatchInOrder = {inorder}
    Accepts <- Apart
    NoBuf = NoBuf
    Lost = Lost
SPECIFICATION FairSpec
INVARIANTS TypeOK 
PROPERTIES FifoOrder FifoProgress
