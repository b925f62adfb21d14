SPECIFICATION Spec
CONSTANTS
    Payloads <- MCPayloads
    ForeignPayloads = {ethPayload}
    CIDStrings <- MCCIDStrings
    CIDWrappers <- MCCIDWrappers
    StrayCIDs <- MCStrayCIDs
    ForeignCIDs = {ethCIDWrapper}
    Nil = Nil
INVARIANTS
    TypeOK
    PublishedIsStored
    BlocksUnderTheirCid
    IndexedCanBeFetched
PROPERTIES
    ImplementsDataPath
