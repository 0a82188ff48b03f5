\* Two functions that want the same vector, and writes that go wrong; three
\* buses of one device with two functions; three BARs, and a window of four
\* pages; six frames; two user pages below an entry each; a keyboard, a
\* storage device or none on the controller, two suspends, and a command ring
\* that wraps after boot.
CONSTANTS
    Functions = {"xhci", "other"}
    MaxFaults = 2
    LastBus = 2
    DeviceCount = 1
    FunctionCount = 2
    MAX_PCI_DEVICES = 4
    MaxMapFailures = 1
    Wirings <- MCWirings
    Bars = 3
    MmioPageSize = 2
    Bases = {2, 3, 4, 8}
    Sizes = {1, 2, 4, 8}
    WindowPages = 4
    MaxAperture = 4
    MAX_PCI_MMIO_MAPPINGS = 3
    MaxMapFailed = 2
    MAX_FRAMES = 6
    FRAME_SIZE = 2
    Limits = {3, 6}
    Alignments = {1, 2}
    MaxGrants = 3
    UserPages = 2
    PagesPerEntry = 1
    PAGE_SIZE = 2
    MaxCopy = 3
    MaxPins = 2
    MaxGeneration = 2
    ControlTrbs = 15
    BulkTrbs = 2
    CommandTrbs = 5
    EventTrbs = 3
    FirstControl = 0
    Devices = {"none", "keyboard", "storage"}
    MaxSuspends = 2
    MaxCommands = 2
SPECIFICATION PlatformSpec
INVARIANT SuspendClean
INVARIANT EnumerationSound
INVARIANT MessageWhole
INVARIANT VectorHeld
INVARIANT InventoryComplete
INVARIANT ResourcesIntact
INVARIANT GrantsDisjoint
PROPERTY LeasesSound
CHECK_DEADLOCK FALSE
