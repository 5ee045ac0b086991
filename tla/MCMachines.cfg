\* An image that is not loaded and a program that has made its changes have
\* nothing left to do.
SPECIFICATION MCSpec
CONSTANTS
    Nil = Nil
    NSObject = NSObject
    Middle = Middle
    Leaf = Leaf
    NewClass = NewClass
    NoClass = NoClass
    RootCategory = RootCategory
    MiddleCategory = MiddleCategory
    LateCategory = LateCategory
    A1 = A1
    A2 = A2
    B1 = B1
    B2 = B2
    C2 = C2
    B2Copy = B2Copy
    NewStructure = NewStructure
    A = A
    B = B
    C = C
    NameD = NameD
    t1 = t1
    t2 = t2
    x = x
    y = y
    aKey = aKey
    property = property
    alice = alice
    bob = bob
    friends = friends
    mates = mates
    work = work
    office = office
    Base = Base
    Sub = Sub
    foo = foo
    bar = bar
    oldImp = oldImp
    newImp = newImp
    Threads = {t1, t2}
    NoThread = NoThread
    Classes = {Base, Sub}
    Supers <- MCSupers
    Selectors = {foo, bar}
    Key <- MCKey
    Imps = {newImp}
    Forward = Forward
    None = None
    Methods <- MCMethods
    Messages <- MCMessages
    INIT_CACHE_SIZE = 2
    Memory = {1, 2, 3, 4, 5}
    Empty = Empty
    garbage_threshold = 2
    Changers = {t2}
    MaxOps <- MCMaxOps
    MaxChanges = 2
INVARIANTS
    ReadersSafe
    CallsCurrent
    DefaultsSafe
    CategoriesInOrder
    ValuesHeld
    LocksOrdered
    CaughtUp
PROPERTIES
    SendsReturn
    ProtocolsKept
CHECK_DEADLOCK FALSE
