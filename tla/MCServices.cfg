\* Two message queues of three slots that wrap; an audit log of three slots
\* that two CPUs wrap more than once; five system calls, enough for a signal
\* inside a handler and both returns; machines with and without a PS/2
\* keyboard and enough events to exhaust a pass; tables of two sockets and two
\* sessions whose slots are used again; four packets from a peer.  The counters
\* are bounded and a PS/2 handler may spin for ever, so a run may stop.
CONSTANTS
    MAX_QUEUES = 2
    QUEUE_CAPACITY = 3
    Messages = {m1, m2}
    MaxSent = 7
    AUDIT_LOG_SIZE = 3
    Cpus = {c1, c2}
    Actions = {a1}
    MaxEvents = 7
    MaxTicks = 3
    MaxEntries = 5
    MAX_LINE = 2
    RUNTIME_EVENT_BUDGET = 2
    Letters = {a}
    Ps2 = {TRUE, FALSE}
    ReportKeys = 2
    MaxKeys = 3
    MaxPortEvents = 4
    MAX_SOCKETS = 2
    MAX_DISCOVERED = 2
    MAX_SESSIONS = 2
    MaxSocketIds = 3
    MaxSessionIds = 3
    MaxPackets = 4
SPECIFICATION ServicesSpec
INVARIANT RegistersPreserved
INVARIANT NoLostWakeup
INVARIANT CommandHasAllKeys
INVARIANT AcceptedInOrder
PROPERTY Fifo
PROPERTY KeepsNewest
PROPERTY StaleIdRefused
PROPERTY LineServed
CHECK_DEADLOCK FALSE
