SPECIFICATION Spec
CONSTANTS
    Sizes = {0, 1, 2, 4}
    MaxBatchSize = 3
    MaxMessages = 3
    MaxSent = 5
    MaxLink = 2
INVARIANTS BatchesFit FullIsAlone Accounting
PROPERTIES InOrder
