\* A program that has used up a bound and a process that ended with an
\* exception nobody caught have nothing left to do.
SPECIFICATION MCSpec
CONSTANTS
    Machines = {"names", "weak", "dense", "map", "hash", "trampolines",
                "layouts", "ivars", "handlers"}
    Nil = Nil
    EmptyKey = EmptyKey
    Tombstone = Tombstone
    NotAKey = NotAKey
    b1 = b1
    b2 = b2
    A1 = A1
    A2 = A2
    B1 = B1
    A = A
    B = B
    NSException = NSException
    CustomException = CustomException
    MissingException = MissingException
    NoClass = NoClass
    Compiled = {A1, A2, B1}
    NameOf <- MCNameOf
    WeakLinked = {B1}
    Futures = {Future}
    Made = {NewStructure}
    AddressesReused = FALSE
INVARIANTS
    NamesExact
    TablesExact
    LayoutsFit
    HandlersKept
CHECK_DEADLOCK FALSE
