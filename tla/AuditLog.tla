------------------------------- MODULE AuditLog -------------------------------
(***************************************************************************)
(* The audit log (kernel/src/audit.rs): a ring of the last AUDIT_LOG_SIZE  *)
(* events.  A producer takes its tick and CPU under the scheduler lock,    *)
(* releases it, and only then takes the audit lock and records, so other   *)
(* CPUs and the timer run between the two.  Who the event is about, what   *)
(* happened and how it ended is the event's Action here.                   *)
(***************************************************************************)
EXTENDS Integers, Sequences

CONSTANTS
    AUDIT_LOG_SIZE,
    Cpus,
    Actions,     \* origin, action, capability and result of an event
    MaxEvents,   \* bound on total_events for model checking
    MaxTicks     \* bound on total_ticks for model checking

ASSUME LogSizeAssumption == AUDIT_LOG_SIZE \in Nat \ {0}
ASSUME AuditBoundsAssumption == MaxEvents \in Nat /\ MaxTicks \in Nat

VARIABLES
    events,        \* slot -> <<event>>, or <<>> for None
    log_head, log_count,
    next_seq, total_events, overwritten,
    total_ticks,   \* of the scheduler
    snapshot       \* what each CPU captured and has not yet recorded

ring == <<events, log_head, log_count, next_seq, total_events, overwritten>>
auditVars == <<ring, total_ticks, snapshot>>

LogSlots == 0..(AUDIT_LOG_SIZE - 1)
None == <<>>

AuditEvents == [seq : 1..MaxEvents, tick : 0..MaxTicks, cpu_id : Cpus, action : Actions]

AuditInit ==
    /\ events = [s \in LogSlots |-> None]
    /\ log_head = 0 /\ log_count = 0
    /\ next_seq = 1 /\ total_events = 0 /\ overwritten = 0
    /\ total_ticks = 0
    /\ snapshot = [c \in Cpus |-> None]

\* The timer.
Tick ==
    /\ total_ticks < MaxTicks
    /\ total_ticks' = total_ticks + 1
    /\ UNCHANGED <<ring, snapshot>>

\* snapshot_tick_cpu: identity and time of the event, with interrupts off.
Snapshot(c) ==
    /\ snapshot[c] = None
    /\ snapshot' = [snapshot EXCEPT ![c] = <<total_ticks>>]
    /\ UNCHANGED <<ring, total_ticks>>

\* Fault: an event that displaces another one is not counted.
RecordUncounted(c, action) ==
    /\ snapshot[c] # None
    /\ total_events < MaxEvents
    /\ LET event == [seq |-> next_seq, tick |-> snapshot[c][1], cpu_id |-> c, action |-> action]
           idx == (log_head + log_count) % AUDIT_LOG_SIZE
       IN events' = [events EXCEPT ![idx] = <<event>>]
    /\ IF log_count < AUDIT_LOG_SIZE
       THEN log_count' = log_count + 1 /\ UNCHANGED <<log_head, overwritten>>
       ELSE /\ log_head' = (log_head + 1) % AUDIT_LOG_SIZE
            /\ UNCHANGED <<log_count, overwritten>>
    /\ next_seq' = next_seq + 1
    /\ total_events' = total_events + 1
    /\ snapshot' = [snapshot EXCEPT ![c] = None]
    /\ UNCHANGED total_ticks

\* record_at under the audit lock.
RecordAt(c, action) ==
    /\ snapshot[c] # None
    /\ total_events < MaxEvents
    /\ LET event == [seq |-> next_seq, tick |-> snapshot[c][1], cpu_id |-> c, action |-> action]
           idx == (log_head + log_count) % AUDIT_LOG_SIZE
       IN events' = [events EXCEPT ![idx] = <<event>>]
    /\ IF log_count < AUDIT_LOG_SIZE
       THEN log_count' = log_count + 1 /\ UNCHANGED <<log_head, overwritten>>
       ELSE /\ log_head' = (log_head + 1) % AUDIT_LOG_SIZE
            /\ overwritten' = overwritten + 1
            /\ UNCHANGED log_count
    /\ next_seq' = next_seq + 1
    /\ total_events' = total_events + 1
    /\ snapshot' = [snapshot EXCEPT ![c] = None]
    /\ UNCHANGED total_ticks

AuditNext ==
    \/ Tick
    \/ \E c \in Cpus : Snapshot(c) \/ \E action \in Actions : RecordAt(c, action)

AuditSpec == AuditInit /\ [][AuditNext]_auditVars

-----------------------------------------------------------------------------
\* The slot of the i-th newest event, from 0.
NewestSlot(i) == (log_head + log_count - 1 - i) % AUDIT_LOG_SIZE

\* last_n(n): up to n events, newest first.
LastN(n) ==
    [i \in 1..(IF n < log_count THEN n ELSE log_count) |-> events[NewestSlot(i - 1)][1]]

\* What a reader is given, turned round: oldest first.
Held == LET read == LastN(AUDIT_LOG_SIZE) IN [i \in 1..Len(read) |-> read[Len(read) + 1 - i]]

Trail == INSTANCE BoundedTrail WITH
    Limit <- AUDIT_LOG_SIZE, Events <- AuditEvents, trail <- Held, gone <- overwritten

\* The ring implements a bounded trail, through any number of wraps: what
\* last_n returns are the newest events with consecutive numbers, as many as
\* are counted as overwritten are gone, and the events of one CPU are in the
\* order of their ticks, although the tick is taken before the audit lock and
\* CPUs overtake each other in between.
KeepsNewest == Trail!TrailSpec
=============================================================================
