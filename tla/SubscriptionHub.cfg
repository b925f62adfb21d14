SPECIFICATION Spec
CONSTANTS
    Subscribers = {s1, s2}
    Params <- MCParams
    Settings <- MCSettings
    MaxHeight = 3
    ChanSize = 1
    ReorderSize = 2
    Blocks <- MCBlocks
    Nil = Nil
CHECK_DEADLOCK FALSE
INVARIANTS
    TypeOK
    SentAsFiltered
    SentInOrder
    NothingMissed
PROPERTIES
    DispatchCompletes
    EventuallySent
