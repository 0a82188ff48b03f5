\* A PS/2 keyboard alone.
CONSTANTS
    MAX_LINE = 3
    RUNTIME_EVENT_BUDGET = 2
    Letters = {a}
    Ps2 = {TRUE}
    ReportKeys = 0
    MaxKeys = 1
    MaxPortEvents = 0
SPECIFICATION ConsoleSpec
INVARIANT HandlerNeverSpins
