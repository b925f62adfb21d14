SPECIFICATION Spec
CONSTANTS
    Addresses <- MCAddresses
    Lower <- MCLower
    FirstBlock <- MCFirstBlock
    Events = {"Transfer"}
    Starts = {7}
    Options = {"Piping"}
    Nil = Nil
INVARIANTS
    TypeOK
    FiltersOfContractsExist
    LogsUnderTheirContract
PROPERTIES
    StoredAsConfigured
    InitAppliesConfiguration
