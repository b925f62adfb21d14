SPECIFICATION Spec
CONSTANTS
    Subscriptions <- AllSubscriptions
    ForeignSettings = {btcSettings}
    ForeignPayloads = {btcPayload}
    Nil = Nil
INVARIANTS
    TypeOK
    ReceiptsAsSpecified
    StateNodesAsSpecified
    MonotoneUnderRelaxation
