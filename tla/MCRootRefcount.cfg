SPECIFICATION FairSpec
CONSTANTS
    Threads = {t1, t2}
    NoThread = NoThread
    Refs = {r1, r2, r3}
    NoRef = NoRef
    Classes = {P, R}
    RawClasses = {R}
    RC_HALF = 1
    SpuriousFailure = FALSE
INVARIANTS
    RetainCountExact
    NoUseAfterFree
    FreedLeavesNothing
PROPERTIES
    IsaMoves
    ImplementsAbstractRefcount
    OperationsFinish
