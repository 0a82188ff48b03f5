\* Run queues: three CPUs, four tasks, and queues that hold exactly four, so
\* that every queue can be filled by the tasks there are.  Calls: init and one
\* service, two slots for capabilities, one handler at a time inside another;
\* their number is bounded, so a run may stop.
CONSTANTS
    MAX_CPUS = 3
    MAX_RUN_QUEUE_TASKS = 4
    TaskIds = {1, 2, 3, 4}
    OvertakingBound = 2
    MAX_CAPABILITIES = 2
    Tasks = {1, 2, 3}
    CapScopes <- MCScopes
    Permissions = {"PROCESS_SIGNAL", "WRITE", "IPC_SEND", "IPC_RECV"}
    MaxGrants = 2
    Pids <- MCPids
    parent_pid <- MCParent
    scheduler_task <- MCTask
    Used = {"Kill", "Term", "Usr1"}
    Workloads <- MCWorkloads
    Asked <- MCAsked
    Grants <- MCGrants
    MaxCalls <- MCCalls
    MaxNesting = 2
SPECIFICATION TasksSpec
INVARIANT TaskInOnePlace
INVARIANT BoundedOvertaking
INVARIANT AuditTruthful
INVARIANT SigReturnRestores
PROPERTY SchedulingKeepsTasks
PROPERTY RevokedStaysRevoked
PROPERTY SignalsAuthorized
PROPERTY KillTerminates
PROPERTY SignalNotLost
CHECK_DEADLOCK FALSE
