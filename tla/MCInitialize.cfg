\* The threads end, and the process may be halted.
SPECIFICATION FairSpec
CONSTANTS
    Root = Root
    A = A
    B = B
    C = C
    t1 = t1
    t2 = t2
    Threads = {t1, t2}
    Classes = {Root, A, B, C}
    NoClass = NoClass
    Superclass <- MCSuperclass
    Sends <- MCSends
    Programs <- MCPrograms
INVARIANT
    Contiguous
PROPERTIES
    OthersWait
    MessagesReturn
CHECK_DEADLOCK FALSE
