SPECIFICATION Spec
CONSTANTS
    Vipers <- MCVipers
    Width = 8
    Nil = Nil
CHECK_DEADLOCK FALSE
INVARIANTS
    TypeOK
    ConfigsFollowSettings
    BackFillReady
