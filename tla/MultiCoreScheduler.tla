-------------------------- MODULE MultiCoreScheduler --------------------------
(***************************************************************************)
(* The per-CPU run-queue coordinator (kernel/src/sched.rs, struct          *)
(* MultiCoreScheduler).  Every method runs under the lock of the global    *)
(* MULTICORE_SCHEDULER, so one method call is one step; the callers are    *)
(* all processors and the boot code, in any order.  A call that returns an *)
(* error or finds nothing to do changes nothing and is a stuttering step.  *)
(* The statistics counters (dispatches, steals, idle_dispatches) are only  *)
(* printed and are left out.                                               *)
(***************************************************************************)
EXTENDS CpuRunQueue, FiniteSets

CONSTANTS
    MAX_CPUS,   \* static topology limit
    TaskIds     \* the task identifiers callers ever pass, 0 (never a task) aside

ASSUME MaxCpusAssumption == MAX_CPUS \in Nat \ {0}
ASSUME TaskIdsAssumption == TaskIds \subseteq Nat \ {0}

\* The task table hands out the identifiers and is no larger than one queue
\* (MAX_TASKS = MAX_RUN_QUEUE_TASKS = 64).
ASSUME TasksFitAssumption ==
    IsFiniteSet(TaskIds) /\ Cardinality(TaskIds) <= MAX_RUN_QUEUE_TASKS

VARIABLES
    queues,          \* run queue of every CPU of the static table
    current,         \* runtime[cpu].current, NoTask for None
    cpu_count,       \* CPUs that take part in dispatch
    next_assignment  \* rotating tie-breaker of `enqueue`

vars == <<queues, current, cpu_count, next_assignment>>

NoTask == 0
Cpus == 0..(MAX_CPUS - 1)
ActiveCpus == 0..(cpu_count - 1)
Load(c) == Len(queues[c].tasks)

Init ==
    /\ queues = [c \in Cpus |-> NewQueue]
    /\ current = [c \in Cpus |-> NoTask]
    /\ cpu_count = 1
    /\ next_assignment = 0

\* Queued or running on an active CPU: what `enqueue` calls a duplicate.
Owned(t) == \E c \in ActiveCpus : Contains(queues[c], t) \/ current[c] = t

-----------------------------------------------------------------------------
\* configure(n): clamp the CPU count and drop every queue and running slot.
Configure(n) ==
    /\ cpu_count' = IF n < 1 THEN 1 ELSE IF n > MAX_CPUS THEN MAX_CPUS ELSE n
    /\ queues' = [c \in Cpus |-> NewQueue]
    /\ current' = [c \in Cpus |-> NoTask]
    /\ next_assignment' = 0

\* The offset from next_assignment at which the scan of `enqueue` settles:
\* the first one of least load.
CandidateAt(offset) == (next_assignment + offset) % cpu_count

SelectedOffset(offset) ==
    \A o \in ActiveCpus :
        /\ Load(CandidateAt(offset)) <= Load(CandidateAt(o))
        /\ Load(CandidateAt(offset)) = Load(CandidateAt(o)) => offset <= o

\* enqueue(task): assign to the least-loaded active CPU.
Enqueue(t) ==
    /\ ~Owned(t)
    /\ \E offset \in ActiveCpus :
        LET selected == CandidateAt(offset) IN
        /\ SelectedOffset(offset)
        /\ CanEnqueue(queues[selected], t)
        /\ queues' = [queues EXCEPT ![selected] = Enqueued(queues[selected], t)]
        /\ next_assignment' = (selected + 1) % cpu_count
    /\ UNCHANGED <<current, cpu_count>>

EnqueueOnCpu(c, t) ==
    /\ c < cpu_count
    /\ ~Owned(t)
    /\ CanEnqueue(queues[c], t)
    /\ queues' = [queues EXCEPT ![c] = Enqueued(queues[c], t)]
    /\ UNCHANGED <<current, cpu_count, next_assignment>>

\* dequeue(cpu, task): give up the running slot if the task runs there,
\* otherwise leave the queue of that CPU.
Dequeue(c, t) ==
    /\ c < cpu_count
    /\ \/ /\ current[c] = t
          /\ current' = [current EXCEPT ![c] = NoTask]
          /\ UNCHANGED queues
       \/ /\ current[c] # t
          /\ Contains(queues[c], t)
          /\ queues' = [queues EXCEPT ![c] = Removed(queues[c], t)]
          /\ UNCHANGED current
    /\ UNCHANGED <<cpu_count, next_assignment>>

\* pick_next(cpu): advance the cursor, remove nothing.
PickNext(c) ==
    /\ c < cpu_count
    /\ Load(c) > 0
    /\ queues' = [queues EXCEPT ![c] = Advanced(queues[c])]
    /\ UNCHANGED <<current, cpu_count, next_assignment>>

\* The victim of a steal: the longest peer queue, the lowest CPU among equals.
Victim(thief, v) ==
    /\ v \in ActiveCpus \ {thief}
    /\ Load(v) > 0
    /\ \A d \in ActiveCpus \ {thief} :
        Load(d) < Load(v) \/ (Load(d) = Load(v) /\ v <= d)

\* steal(thief): the oldest task of the victim moves to the thief's queue.
\* (The enqueue on the thief's side cannot fail: see TaskInOnePlace.)
Steal(thief) ==
    /\ thief < cpu_count
    /\ Load(thief) < MAX_RUN_QUEUE_TASKS
    /\ \E v \in Cpus :
        LET t == queues[v].tasks[1] IN
        /\ Victim(thief, v)
        /\ queues' = [queues EXCEPT ![v] = Removed(queues[v], t),
                                    ![thief] = Enqueued(queues[thief], t)]
    /\ UNCHANGED <<current, cpu_count, next_assignment>>

\* Fault: dispatch forgets to test for a Busy CPU.
DispatchLocalBusy(c) ==
    /\ c < cpu_count
    /\ Load(c) > 0
    /\ queues' = [queues EXCEPT ![c] = Popped(queues[c])]
    /\ current' = [current EXCEPT ![c] = NextTask(queues[c])]
    /\ UNCHANGED <<cpu_count, next_assignment>>

\* dispatch(cpu) is dispatch_excluding_mode(cpu, None, true); a CPU that is
\* Busy keeps its task.  A CPU that is not takes the next task of its queue.
DispatchLocal(c) ==
    /\ c < cpu_count
    /\ current[c] = NoTask
    /\ Load(c) > 0
    /\ queues' = [queues EXCEPT ![c] = Popped(queues[c])]
    /\ current' = [current EXCEPT ![c] = NextTask(queues[c])]
    /\ UNCHANGED <<cpu_count, next_assignment>>

\* The same with an empty queue and stealing allowed: the task `steal` put
\* on the empty queue is popped again at once.
DispatchStolen(c) ==
    /\ c < cpu_count
    /\ current[c] = NoTask
    /\ Load(c) = 0
    /\ \E v \in Cpus :
        LET t == queues[v].tasks[1] IN
        /\ Victim(c, v)
        /\ queues' = [queues EXCEPT ![v] = Removed(queues[v], t),
                                    ![c] = Popped(Enqueued(queues[c], t))]
        /\ current' = [current EXCEPT ![c] = t]
    /\ UNCHANGED <<cpu_count, next_assignment>>

Dispatch(c) == DispatchLocal(c) \/ DispatchStolen(c)

\* Fault: complete reads the running slot without taking it.
CompleteKeepsSlot(c) ==
    /\ c < cpu_count
    /\ current[c] # NoTask
    /\ CanEnqueue(queues[c], current[c])
    /\ queues' = [queues EXCEPT ![c] = Enqueued(queues[c], current[c])]
    /\ UNCHANGED <<current, cpu_count, next_assignment>>

\* complete(cpu): the running slot is taken before the enqueue is tried, so a
\* queue that refuses the task would lose it.
Complete(c) ==
    /\ c < cpu_count
    /\ current[c] # NoTask
    /\ current' = [current EXCEPT ![c] = NoTask]
    /\ queues' = IF CanEnqueue(queues[c], current[c])
                 THEN [queues EXCEPT ![c] = Enqueued(queues[c], current[c])]
                 ELSE queues
    /\ UNCHANGED <<cpu_count, next_assignment>>

\* bounded_handoff(cpu, allow_steal): a running task goes back to the queue
\* and the CPU to its idle continuation; an idle CPU dispatches one task.
BoundedHandoff(c, allow_steal) ==
    \/ Complete(c)
    \/ DispatchLocal(c)
    \/ allow_steal /\ DispatchStolen(c)

\* Steps that only move tasks between queues and running slots.
Scheduling ==
    \E c \in Cpus : PickNext(c) \/ Steal(c) \/ Dispatch(c) \/ Complete(c)

Next ==
    \/ \E n \in 0..(MAX_CPUS + 1) : Configure(n)
    \/ \E t \in TaskIds : Enqueue(t)
    \/ \E c \in Cpus, t \in TaskIds : EnqueueOnCpu(c, t) \/ Dequeue(c, t)
    \/ \E c \in Cpus : PickNext(c) \/ Steal(c)
    \/ \E c \in Cpus, allow_steal \in BOOLEAN : BoundedHandoff(c, allow_steal)

Spec == Init /\ [][Next]_vars

-----------------------------------------------------------------------------
\* Every queue is a bounded sequence of real tasks whose cursor designates one
\* of them, and every running slot holds a task or nothing.
TypeOK ==
    /\ queues \in [Cpus -> [tasks : Seq(TaskIds), cursor : Nat]]
    /\ current \in [Cpus -> TaskIds \cup {NoTask}]
    /\ cpu_count \in 1..MAX_CPUS
    /\ next_assignment \in 0..(cpu_count - 1)
    /\ \A c \in Cpus :
        /\ Load(c) <= MAX_RUN_QUEUE_TASKS
        /\ queues[c].cursor < Load(c) \/ queues[c].cursor = 0

NoRepeat(q) ==
    \A i, j \in 1..Len(q.tasks) : q.tasks[i] = q.tasks[j] => i = j

\* A task stands at one position of one queue or in one running slot, never
\* in two places at once: no two CPUs can select the same task, whatever the
\* order of enqueues, steals, dispatches and completions.
TaskInOnePlace ==
    /\ \A c \in Cpus : NoRepeat(queues[c])
    /\ \A c, d \in Cpus, t \in TaskIds :
        Contains(queues[c], t) /\ Contains(queues[d], t) => c = d
    /\ \A c, d \in Cpus, t \in TaskIds :
        current[c] = t => ~Contains(queues[d], t)
    /\ \A c, d \in Cpus :
        current[c] = current[d] => c = d \/ current[c] = NoTask

\* No task waits on, or occupies, a CPU outside the configured topology,
\* where nobody would ever dispatch it.
NoStrandedTask ==
    \A c \in Cpus \ ActiveCpus : queues[c].tasks = <<>> /\ current[c] = NoTask

\* Picking, stealing, dispatching and completing move tasks about but never
\* lose one and never invent one.  In particular `complete` never drops the
\* task it has already taken out of the running slot ("complete cannot fail
\* here", bounded_handoff): with no more tasks than one queue can hold, the
\* queue always has room.
SchedulingKeepsTasks ==
    [][Scheduling => \A t \in TaskIds : Owned(t)' <=> Owned(t)]_vars
=============================================================================
