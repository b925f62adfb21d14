SPECIFICATION Spec
CONSTANTS
    Settings <- MCSettings
    Nil = Nil
INVARIANTS
    OneChain
