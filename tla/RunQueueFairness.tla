--------------------------- MODULE RunQueueFairness ---------------------------
(***************************************************************************)
(* How fair the cursor of CpuRunQueue is.  The scheduler is driven by      *)
(* `configure`, which boot calls once the CPUs are up, by `enqueue` and by *)
(* the bounded handoffs of the CPUs alone: no task is dequeued and every   *)
(* CPU works on its own queue.  A history variable counts who runs while a *)
(* task waits.                                                             *)
(***************************************************************************)
EXTENDS MultiCoreScheduler

CONSTANT OvertakingBound

\* overtaken[t][u]: how often u was dispatched by the CPU on whose queue t
\* waits since t was last put on it.
VARIABLE overtaken

fairVars == <<queues, current, cpu_count, next_assignment, overtaken>>

Waits(c, t) == Contains(queues[c], t)

FairInit ==
    /\ Init
    /\ overtaken = [t \in TaskIds |-> [u \in TaskIds |-> 0]]

\* After a step, what each task has seen: a task that waits on c across a
\* dispatch of c counts the dispatched task, a task that does not wait
\* forgets.
Observe ==
    overtaken' = [t \in TaskIds |-> [u \in TaskIds |->
        IF \A c \in Cpus : ~(Waits(c, t) /\ Waits(c, t)') THEN 0
        ELSE IF \E c \in Cpus : Waits(c, t) /\ current'[c] = u /\ current[c] # u
        THEN overtaken[t][u] + 1
        ELSE overtaken[t][u]]]

FairNext ==
    /\ \/ \E n \in 0..(MAX_CPUS + 1) : Configure(n)
       \/ \E t \in TaskIds : Enqueue(t)
       \/ \E c \in Cpus : BoundedHandoff(c, FALSE)
    /\ Observe

FairSpec == FairInit /\ [][FairNext]_fairVars

-----------------------------------------------------------------------------
\* `remove` shifts the queue under the cursor of `next`, so the order is not
\* the round-robin order; still a waiting task is overtaken by any single
\* other task at most OvertakingBound times, and so waits no longer than that.
BoundedOvertaking == \A t, u \in TaskIds : overtaken[t][u] <= OvertakingBound
=============================================================================
