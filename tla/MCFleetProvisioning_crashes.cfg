SPECIFICATION Spec
CONSTANTS
    MaxTransactions = 2
    MaxFaults = 2
    MaxCrashes = 2
INVARIANTS
    CanBeUndone
    OwnedOrUndone
    RestoredIsRestored
CHECK_DEADLOCK FALSE
PROPERTY TransactionsSettle
