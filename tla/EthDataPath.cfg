SPECIFICATION Spec
CONSTANTS
    CIDStrings <- MCCIDStrings
    CIDWrappers <- MCCIDWrappers
    ForeignCIDs = {btcCIDWrapper}
    MaxDifficulty = 2
    Raws <- MCRaws
    CidOf <- MCCidOf
    Unencodable <- MCUnencodable
    Nil = Nil
INVARIANTS
    TypeOK
    FetchedWhatWasAskedFor
    KeysStayWithTheirNode
    CidsAreStored
