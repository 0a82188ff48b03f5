\* No device: the probe command alone has moved the command ring.
CONSTANTS
    ControlTrbs = 15
    BulkTrbs = 2
    CommandTrbs = 5
    EventTrbs = 3
    FirstControl = 0
    Devices = {"none"}
    MaxSuspends = 1
    MaxCommands = 2
SPECIFICATION LifecycleSpec
INVARIANT ResumedRingsAgree
CHECK_DEADLOCK FALSE
