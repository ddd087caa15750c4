CONSTANTS
    Threads = {t1, t2}
    PageSize = 2
    MmapPages = {4, 5}
    UserBlocks <- Blocks
    Fds = {d1, d2}
    Bos = {b1, b2, b3, b4}
    NoBo = NoBo
    ShareFds = FALSE
SPECIFICATION Spec
SYMMETRY MemorySymmetry
INVARIANTS TypeOK HandlesStayOpen OwnedMemoryFound FreeTakesItsOwn 
