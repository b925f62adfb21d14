SPECIFICATION Spec
CONSTANTS
    Subscriptions <- TrieSubscriptions
    ForeignSettings = {btcSettings}
    ForeignPayloads = {btcPayload}
    Nil = Nil
INVARIANTS
    StorageNodesAsSpecified
