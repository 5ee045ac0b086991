SPECIFICATION FairSpec
CONSTANTS
    a = a
    b = b
    C = C
    Threads = {t1, t2}
    NoThread = NoThread
    Objects = {a, b}
    Nil = Nil
    Locations = {x}
    NoLocation = NoLocation
    Classes = {C}
    NoClass = NoClass
    ClassOf <- MCClassOf
    TableOf <- MCTableOf
    Initialized = {}
    MaxDepth = 3
PROPERTIES
    OperationsFinish
