SPECIFICATION FairSpec
CONSTANTS
    default = default
    tracking = tracking
    repeats = repeats
    once = once
    source = source
    observer = observer
    Modes = {default, tracking}
    Timers = {repeats, once}
    Others = {source, observer}
    Observers = {observer}
    Interval <- MCInterval
    Tolerance <- MCTolerance
    FirstFire <- MCFirstFire
    Movers = {w1}
    Setters = {w2}
    Programs <- MCPrograms
    MaxNesting = 2
INVARIANTS
    TimersStayArmed
    RegisteredWhereItIs
PROPERTIES
    TimersFire
CHECK_DEADLOCK FALSE
