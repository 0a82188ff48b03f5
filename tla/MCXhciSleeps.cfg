\* No device: init may fail after it has started the controller.
CONSTANTS
    ControlTrbs = 15
    BulkTrbs = 2
    CommandTrbs = 5
    EventTrbs = 3
    FirstControl = 0
    Devices = {"none"}
    MaxSuspends = 1
    MaxCommands = 2
SPECIFICATION LifecycleSpec
INVARIANT SleepsStopped
CHECK_DEADLOCK FALSE
