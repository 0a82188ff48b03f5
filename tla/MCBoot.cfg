\* Bring-up of three APs, one of which has an x2APIC identifier; an AP that
\* missed its deadline stays away.  Then the BSP and one AP with the tasks of
\* main.rs (idle, init, one worker per AP) and two stress rounds.  Bring-up
\* ends, so the run may stop.
CONSTANTS
    ApCount = 3
    WideIds = {3}
    ProbeRounds = 2
    LateStart = FALSE
    MAX_CPUS = 2
    MAX_RUN_QUEUE_TASKS = 3
    TaskIds = {1, 2, 3}
    StressRounds = 2
SPECIFICATION ProcessorsSpec
INVARIANT HandoffUsesRightFrames
INVARIANT SlotNamesRunningTask
INVARIANT SlotsAgree
PROPERTY OnlineAnswered
PROPERTY KickServed
PROPERTY BootCompletes
CHECK_DEADLOCK FALSE
