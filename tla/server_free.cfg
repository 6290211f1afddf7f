\* One address is enough.
CONSTANTS
    Configured = {"ipv4"}
    MaxLines = 1
SPECIFICATION LifeSpec
INVARIANTS
    NoInvalidFree
