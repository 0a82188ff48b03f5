\* Two APs, either of which may come up after its start timed out.
CONSTANTS
    ApCount = 2
    WideIds = {}
    ProbeRounds = 1
    LateStart = TRUE
SPECIFICATION BringupSpec
INVARIANT PrivateSlots
CHECK_DEADLOCK FALSE
