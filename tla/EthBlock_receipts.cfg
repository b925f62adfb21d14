SPECIFICATION Spec
CONSTANTS
    Blocks <- MCBlocks
    ReceiptLists <- MCReceiptLists
    Unencodable <- MCUnencodable
    Nil = Nil
INVARIANTS
    ReceiptsVerified
