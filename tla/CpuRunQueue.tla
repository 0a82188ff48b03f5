----------------------------- MODULE CpuRunQueue -----------------------------
(***************************************************************************)
(* The fixed-size run queue of one logical CPU (kernel/src/sched.rs,       *)
(* struct CpuRunQueue).  The array prefix tasks[..len] is the sequence     *)
(* "tasks"; the cursor is the index, from 0, of the task `next` returns.   *)
(* Task identifiers are natural numbers and 0 is never a task.             *)
(***************************************************************************)
EXTENDS Integers, Sequences

CONSTANT MAX_RUN_QUEUE_TASKS

ASSUME QueueCapacityAssumption == MAX_RUN_QUEUE_TASKS \in Nat \ {0}

NewQueue == [tasks |-> <<>>, cursor |-> 0]

Contains(q, t) == \E i \in 1..Len(q.tasks) : q.tasks[i] = t

\* Fault: a queue that refuses its last slot.
CanEnqueueOffByOne(q, t) ==
    t # 0 /\ ~Contains(q, t) /\ Len(q.tasks) < MAX_RUN_QUEUE_TASKS - 1

\* The three early returns of `enqueue`: InvalidTask, Duplicate and Full.
CanEnqueue(q, t) ==
    /\ t # 0
    /\ ~Contains(q, t)
    /\ Len(q.tasks) < MAX_RUN_QUEUE_TASKS

Enqueued(q, t) == [tasks |-> Append(q.tasks, t), cursor |-> q.cursor]

\* Index of the first occurrence (`position`).
Position(q, t) ==
    CHOOSE i \in 1..Len(q.tasks) :
        q.tasks[i] = t /\ \A j \in 1..Len(q.tasks) : q.tasks[j] = t => i <= j

\* `copy_within(index + 1..len, index)` and the decrement of len.
ShiftedOver(s, i) == [j \in 1..(Len(s) - 1) |-> IF j < i THEN s[j] ELSE s[j + 1]]

\* `remove` of a task that is in the queue: the cursor keeps its index, so
\* it now designates the task after the one it designated when the removed
\* task stood before it.
Removed(q, t) ==
    [tasks  |-> ShiftedOver(q.tasks, Position(q, t)),
     cursor |-> IF Len(q.tasks) = 1 THEN 0 ELSE q.cursor % (Len(q.tasks) - 1)]

\* Fault: the youngest task first.
NextTaskYoungest(q) == q.tasks[Len(q.tasks)]

\* The task `next` returns, and the queue it leaves.
NextTask(q) == q.tasks[(q.cursor % Len(q.tasks)) + 1]

Advanced(q) == [tasks |-> q.tasks, cursor |-> (q.cursor + 1) % Len(q.tasks)]

\* The queue `pop_next`, and `pop_next_excluding(None)`, leaves behind: next
\* and then remove.
Popped(q) == Removed(Advanced(q), NextTask(q))
=============================================================================
