SPECIFICATION FairSpec
CONSTANTS
    default = default
    tracking = tracking
    s0 = s0
    s1 = s1
    before = before
    after = after
    Modes = {default, tracking}
    Sources0 = {s0}
    Sources1 = {s1}
    Observers = {after}
    SourcesOf <- MCSourcesOf
    Activities <- MCActivities
    Repeats = {after}
    Order <- MCOrder
    MainModes = {default}
    Wakers = {w}
    Programs <- MCPrograms
    MaxNesting = 2
INVARIANTS
    NoLostWakeup
    BlocksInOrder
PROPERTIES
    SourcesServed
