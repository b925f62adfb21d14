SPECIFICATION Spec
CONSTANTS
    Settings <- MCSettings
    MaxHeight = 2
    ChanBufferSize = 1
    MaxInterrupts = 2
    MaxRestarts = 1
    Nil = Nil
CHECK_DEADLOCK FALSE
INVARIANTS
    TypeOK
    StartedOnlyWhatWasBuilt
    OneStore
    ExitsOnlyWhenQuiet
    ServedWhatWasIndexed
PROPERTIES
    ShutdownCompletes
