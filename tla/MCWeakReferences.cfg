SPECIFICATION Spec
CONSTANTS
    a = a
    b = b
    C = C
    Threads = {t1, t2}
    NoThread = NoThread
    Objects = {a, b}
    Nil = Nil
    Locations = {x, y}
    NoLocation = NoLocation
    Classes = {C}
    NoClass = NoClass
    ClassOf <- MCClassOf
    TableOf <- MCTableOf
    Initialized = {}
    MaxDepth = 2
SYMMETRY Symmetry
INVARIANTS
    Registered
PROPERTIES
    ImplementsAbstractWeak
