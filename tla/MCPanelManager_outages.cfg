CONSTANTS
    AutoRepair = TRUE
    MaxTries = 2
    MaxReports = 4
    MaxOutages = 2
    MaxOrders = 1
    MaxAuto = 1
SPECIFICATION PanelSpec
CHECK_DEADLOCK FALSE
INVARIANT OfflineHasPath
INVARIANT QuietAfterShutdown
PROPERTY VerdictsAreSeen
PROPERTY EventuallyFlagged
