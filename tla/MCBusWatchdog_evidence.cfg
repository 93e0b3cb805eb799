CONSTANTS
    StaleAfter = 3
    Retention = 1
    MaxFaults = 3
SPECIFICATION Spec
INVARIANT EvidenceIsHonest
PROPERTY RebootIsAttributed
PROPERTY DeadBusReboots
