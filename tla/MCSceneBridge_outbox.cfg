CONSTANTS
    Commands = {c1}
    MaxRuns = 2
    MaxMessages = 2
    MaxRestarts = 1
    MaxFaults = 2
SPECIFICATION Spec
CHECK_DEADLOCK FALSE
INVARIANT WritesOnce
INVARIANT AnswersAgree
INVARIANT AcceptedIsProven
PROPERTY OutboxDrains
