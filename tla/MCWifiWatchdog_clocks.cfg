CONSTANTS
    Cooldown = 3
    Cap = 2
    Window = 6
    MaxFailures = 2
    MaxStep = 2
    Debounce = 2
    SoftAfter = 1
    RestartAfter = 2
    RebootAfter = 2
SPECIFICATION WifiSpec
PROPERTY RebootsAreBounded
PROPERTY RecoveriesAreEarned
PROPERTY NeverWedged
