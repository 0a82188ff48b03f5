\* A USB keyboard alone, whose reports bring up to two new keys.
CONSTANTS
    MAX_LINE = 3
    RUNTIME_EVENT_BUDGET = 2
    Letters = {a}
    Ps2 = {FALSE}
    ReportKeys = 2
    MaxKeys = 3
    MaxPortEvents = 0
SPECIFICATION ConsoleSpec
INVARIANT CommandIsTyped
