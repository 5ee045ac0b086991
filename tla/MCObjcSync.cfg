SPECIFICATION FairSpec
CONSTANTS
    a = a
    b = b
    c = c
    Threads = {t1, t2}
    NoThread = NoThread
    Objects = {a, b}
    NoObject = NoObject
    Lists = {1, 2}
    ListOf <- MCListOf
    Datas = {d1, d2}
    NoData = NoData
    Slots = 1
    Rank <- MCRank
    MaxDepth = 3
    MaxStrays = 1
INVARIANTS
    OneDataPerObject
PROPERTIES
    ImplementsAbstractSync
    EverybodyLeaves
