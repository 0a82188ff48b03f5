------------------------------ MODULE SmpProofs ------------------------------
(***************************************************************************)
(* Several processors: the run queues, their coordinator and the fairness  *)
(* of the queues; the bring-up of the APs; and the handoffs of the CPUs    *)
(* once they wait in their loops.  All for any number of CPUs, any queue   *)
(* capacity and any set of tasks.                                          *)
(***************************************************************************)
EXTENDS SmpBringup, ContextHandoff, RunQueueFairness, FiniteSetTheorems, TLAPS

-----------------------------------------------------------------------------
(* The run queues.                                                         *)

\* A well-formed run queue: typed, bounded, its cursor inside, no task twice.
QueueOK(q) ==
    /\ q \in [tasks : Seq(TaskIds), cursor : Nat]
    /\ Len(q.tasks) <= MAX_RUN_QUEUE_TASKS
    /\ q.cursor < Len(q.tasks) \/ q.cursor = 0
    /\ NoRepeat(q)

-----------------------------------------------------------------------------
\* The remainder of a division lies below the divisor.
LEMMA ModRange ==
    ASSUME NEW a \in Nat, NEW b \in Nat \ {0}
    PROVE  a % b \in 0..(b - 1)
  OBVIOUS

\* What `enqueue` leaves of a queue that accepts the task: the same tasks and
\* the new one.
LEMMA EnqueuedQueue ==
    ASSUME NEW q, QueueOK(q), NEW t \in TaskIds, CanEnqueue(q, t)
    PROVE  /\ QueueOK(Enqueued(q, t))
           /\ \A x : Contains(Enqueued(q, t), x) <=> Contains(q, x) \/ x = t
           /\ Len(Enqueued(q, t).tasks) = Len(q.tasks) + 1
<1> DEFINE e == Enqueued(q, t)
<1>1. q.tasks \in Seq(TaskIds) /\ q.cursor \in Nat
  BY DEF QueueOK
<1>2. e.tasks = Append(q.tasks, t) /\ e.cursor = q.cursor
  BY DEF Enqueued
<1>3. /\ e.tasks \in Seq(TaskIds)
      /\ Len(e.tasks) = Len(q.tasks) + 1
      /\ \A i \in 1..Len(q.tasks) : e.tasks[i] = q.tasks[i]
      /\ e.tasks[Len(q.tasks) + 1] = t
  BY <1>1, <1>2
<1>4. Len(e.tasks) <= MAX_RUN_QUEUE_TASKS
  BY <1>1, <1>3, QueueCapacityAssumption DEF CanEnqueue
<1>5. e.cursor < Len(e.tasks) \/ e.cursor = 0
  BY <1>1, <1>2, <1>3 DEF QueueOK
<1>6. NoRepeat(e)
  BY <1>1, <1>3 DEF NoRepeat, QueueOK, CanEnqueue, Contains
<1>7. e \in [tasks : Seq(TaskIds), cursor : Nat]
  BY <1>1, <1>3 DEF Enqueued
<1>8. ASSUME NEW x PROVE Contains(e, x) <=> Contains(q, x) \/ x = t
  <2>1. ASSUME Contains(e, x) PROVE Contains(q, x) \/ x = t
    <3>1. PICK i \in 1..(Len(q.tasks) + 1) : e.tasks[i] = x
      BY <1>3, <2>1 DEF Contains
    <3>2. CASE i \in 1..Len(q.tasks)
      BY <1>3, <3>1, <3>2 DEF Contains
    <3>3. CASE i = Len(q.tasks) + 1
      BY <1>3, <3>1, <3>3
    <3> QED
      BY <1>1, <3>1, <3>2, <3>3
  <2>2. ASSUME Contains(q, x) PROVE Contains(e, x)
    BY <1>1, <1>3, <2>2 DEF Contains
  <2>3. Contains(e, t)
    BY <1>1, <1>3 DEF Contains
  <2> QED
    BY <2>1, <2>2, <2>3
<1> QED
  BY <1>3, <1>4, <1>5, <1>6, <1>7, <1>8 DEF QueueOK

\* `remove` takes out exactly the task it is asked for; the others stay, each
\* once, and the cursor stays inside the shorter queue.
LEMMA RemovedQueue ==
    ASSUME NEW q, QueueOK(q), NEW t, Contains(q, t)
    PROVE  /\ QueueOK(Removed(q, t))
           /\ \A x : Contains(Removed(q, t), x) <=> Contains(q, x) /\ x # t
           /\ Len(Removed(q, t).tasks) = Len(q.tasks) - 1
<1> DEFINE s == q.tasks
           p == Position(q, t)
           r == Removed(q, t)
<1>1. s \in Seq(TaskIds) /\ q.cursor \in Nat /\ Len(s) \in Nat
  BY DEF QueueOK
<1>2. p \in 1..Len(s) /\ s[p] = t
  <2>1. PICK i \in 1..Len(s) : s[i] = t
    BY DEF Contains
  <2>2. \A j \in 1..Len(s) : s[j] = t => i <= j
    BY <1>1, <2>1 DEF QueueOK, NoRepeat
  <2> QED
    BY <2>1, <2>2 DEF Position
<1>3. /\ r.tasks = [j \in 1..(Len(s) - 1) |-> IF j < p THEN s[j] ELSE s[j + 1]]
      /\ r.cursor = IF Len(s) = 1 THEN 0 ELSE q.cursor % (Len(s) - 1)
  BY DEF Removed, ShiftedOver
<1>4. /\ r.tasks \in Seq(TaskIds)
      /\ Len(r.tasks) = Len(s) - 1
  <2>1. Len(s) - 1 \in Nat
    BY <1>1, <1>2
  <2>2. \A j \in 1..(Len(s) - 1) : r.tasks[j] \in TaskIds
    BY <1>1, <1>2, <1>3
  <2>3. r.tasks \in [1..(Len(s) - 1) -> TaskIds]
    BY <1>3, <2>2
  <2> QED
    BY <2>1, <2>3
<1>5. r.cursor \in Nat /\ (r.cursor < Len(r.tasks) \/ r.cursor = 0)
  <2>1. CASE Len(s) = 1
    BY <1>3, <2>1
  <2>2. CASE Len(s) # 1
    <3>1. Len(s) - 1 \in Nat \ {0}
      BY <1>1, <1>2, <2>2
    <3>2. q.cursor % (Len(s) - 1) \in 0..((Len(s) - 1) - 1)
      BY <1>1, <3>1, ModRange
    <3> QED
      BY <1>1, <1>3, <1>4, <2>2, <3>1, <3>2
  <2> QED
    BY <2>1, <2>2
<1>6. Len(r.tasks) <= MAX_RUN_QUEUE_TASKS
  BY <1>1, <1>4, QueueCapacityAssumption DEF QueueOK
<1>7. NoRepeat(r)
  <2> SUFFICES ASSUME NEW i \in 1..(Len(s) - 1), NEW j \in 1..(Len(s) - 1),
                      r.tasks[i] = r.tasks[j]
               PROVE  i = j
    BY <1>4 DEF NoRepeat
  <2> DEFINE shift(k) == IF k < p THEN k ELSE k + 1
  <2>1. shift(i) \in 1..Len(s) /\ shift(j) \in 1..Len(s)
    BY <1>1, <1>2
  <2>2. s[shift(i)] = s[shift(j)]
    BY <1>3
  <2>3. shift(i) = shift(j)
    <3> HIDE DEF shift
    <3> QED
      BY <2>1, <2>2 DEF QueueOK, NoRepeat
  <2> QED
    BY <1>1, <1>2, <2>3
<1>8. r \in [tasks : Seq(TaskIds), cursor : Nat]
  BY <1>3, <1>4, <1>5 DEF Removed
<1>9. ASSUME NEW x PROVE Contains(r, x) <=> Contains(q, x) /\ x # t
  <2>1. ASSUME Contains(r, x) PROVE Contains(q, x) /\ x # t
    <3>1. PICK j \in 1..(Len(s) - 1) : r.tasks[j] = x
      BY <1>4, <2>1 DEF Contains
    <3>2. CASE j < p
      BY <1>1, <1>2, <1>3, <3>1, <3>2 DEF Contains, QueueOK, NoRepeat
    <3>3. CASE ~(j < p)
      <4>1. j + 1 \in 1..Len(s) /\ j + 1 # p /\ x = s[j + 1]
        BY <1>1, <1>2, <1>3, <3>1, <3>3
      <4> QED
        BY <1>1, <1>2, <4>1 DEF Contains, QueueOK, NoRepeat
    <3> QED
      BY <3>2, <3>3
  <2>2. ASSUME Contains(q, x), x # t PROVE Contains(r, x)
    <3>1. PICK i \in 1..Len(s) : s[i] = x
      BY <2>2 DEF Contains
    <3>2. i # p
      BY <1>2, <2>2, <3>1
    <3>3. CASE i < p
      <4>1. i \in 1..(Len(s) - 1) /\ r.tasks[i] = x
        BY <1>1, <1>2, <1>3, <3>1, <3>3
      <4> QED
        BY <1>4, <4>1 DEF Contains
    <3>4. CASE ~(i < p)
      <4>1. i - 1 \in 1..(Len(s) - 1) /\ ~(i - 1 < p) /\ (i - 1) + 1 = i
        BY <1>1, <1>2, <3>1, <3>2, <3>4
      <4>2. r.tasks[i - 1] = x
        BY <1>3, <3>1, <4>1
      <4> QED
        BY <1>4, <4>1, <4>2 DEF Contains
    <3> QED
      BY <3>3, <3>4
  <2> QED
    BY <2>1, <2>2
<1> QED
  BY <1>4, <1>5, <1>6, <1>7, <1>8, <1>9 DEF QueueOK

\* `next` on a queue that is not empty returns one of its tasks and moves
\* only the cursor.
LEMMA AdvancedQueue ==
    ASSUME NEW q, QueueOK(q), Len(q.tasks) > 0
    PROVE  /\ QueueOK(Advanced(q))
           /\ Advanced(q).tasks = q.tasks
           /\ NextTask(q) \in TaskIds
           /\ Contains(q, NextTask(q))
<1>1. q.tasks \in Seq(TaskIds) /\ q.cursor \in Nat /\ Len(q.tasks) \in Nat \ {0}
  BY DEF QueueOK
<1>2. /\ (q.cursor % Len(q.tasks)) + 1 \in 1..Len(q.tasks)
      /\ (q.cursor + 1) % Len(q.tasks) \in 0..(Len(q.tasks) - 1)
  <2>1. q.cursor + 1 \in Nat
    BY <1>1
  <2>2. /\ q.cursor % Len(q.tasks) \in 0..(Len(q.tasks) - 1)
        /\ (q.cursor + 1) % Len(q.tasks) \in 0..(Len(q.tasks) - 1)
    BY <1>1, <2>1, ModRange
  <2> QED
    BY <1>1, <2>2
<1>3. NextTask(q) \in TaskIds /\ Contains(q, NextTask(q))
  BY <1>1, <1>2 DEF NextTask, Contains
<1>4. /\ Advanced(q).tasks = q.tasks
      /\ Advanced(q).cursor \in Nat
      /\ Advanced(q).cursor < Len(q.tasks)
      /\ Advanced(q) \in [tasks : Seq(TaskIds), cursor : Nat]
  BY <1>1, <1>2 DEF Advanced
<1> QED
  BY <1>3, <1>4 DEF QueueOK, NoRepeat

\* `pop_next` removes exactly the task it returns.
LEMMA PoppedQueue ==
    ASSUME NEW q, QueueOK(q), Len(q.tasks) > 0
    PROVE  /\ QueueOK(Popped(q))
           /\ NextTask(q) \in TaskIds
           /\ Contains(q, NextTask(q))
           /\ \A x : Contains(Popped(q), x) <=> Contains(q, x) /\ x # NextTask(q)
<1>1. /\ QueueOK(Advanced(q))
      /\ Advanced(q).tasks = q.tasks
      /\ NextTask(q) \in TaskIds
      /\ Contains(q, NextTask(q))
  BY AdvancedQueue
<1>2. \A x : Contains(Advanced(q), x) <=> Contains(q, x)
  BY <1>1 DEF Contains
<1> QED
  BY <1>1, <1>2, RemovedQueue DEF Popped
\* A queue without repetitions that does not hold a task has room for it: the
\* other tasks are too few to fill it.
LEMMA RoomForTask ==
    ASSUME NEW q, QueueOK(q), NEW t \in TaskIds, ~Contains(q, t)
    PROVE  CanEnqueue(q, t)
<1> DEFINE others == TaskIds \ {t}
           n == Len(q.tasks)
<1>1. n \in Nat /\ q.tasks \in [1..n -> others]
  BY DEF QueueOK, Contains
<1>2. /\ IsFiniteSet(others)
      /\ Cardinality(others) = Cardinality(TaskIds) - 1
      /\ Cardinality(TaskIds) \in Nat
  BY TasksFitAssumption, FS_RemoveElement, FS_CardinalityType
<1>3. IsFiniteSet(1..n) /\ Cardinality(1..n) = n
  <2>1. 1 \in Int /\ n \in Int
    BY <1>1
  <2>2. IsFiniteSet(1..n)
    BY <2>1, FS_Interval
  <2>3. Cardinality(1..n) = IF 1 > n THEN 0 ELSE n - 1 + 1
    BY <2>1, FS_Interval
  <2> QED
    BY <1>1, <2>2, <2>3
<1>4. ~(Cardinality(others) < n)
  <2>1. SUFFICES ASSUME Cardinality(others) < n PROVE FALSE
    OBVIOUS
  <2>2. \E i, j \in 1..n : i # j /\ q.tasks[i] = q.tasks[j]
    BY <1>1, <1>2, <1>3, <2>1, FS_PigeonHole
  <2> QED
    BY <2>2 DEF QueueOK, NoRepeat
<1>5. n < MAX_RUN_QUEUE_TASKS
  BY <1>1, <1>2, <1>4, TasksFitAssumption, QueueCapacityAssumption
<1> QED
  BY <1>5, TaskIdsAssumption DEF CanEnqueue

-----------------------------------------------------------------------------
\* The inductive invariant, queue by queue.
IInv ==
    /\ queues \in [Cpus -> [tasks : Seq(TaskIds), cursor : Nat]]
    /\ \A c \in Cpus : QueueOK(queues[c])
    /\ current \in [Cpus -> TaskIds \cup {NoTask}]
    /\ cpu_count \in 1..MAX_CPUS
    /\ next_assignment \in 0..(cpu_count - 1)
    /\ \A c, d \in Cpus, t \in TaskIds :
        Contains(queues[c], t) /\ Contains(queues[d], t) => c = d
    /\ \A c, d \in Cpus, t \in TaskIds :
        current[c] = t => ~Contains(queues[d], t)
    /\ \A c, d \in Cpus :
        current[c] = current[d] => c = d \/ current[c] = NoTask
    /\ NoStrandedTask

\* The inductive invariant is the conjunction of the three invariants.
LEMMA InvariantParts == IInv <=> TypeOK /\ TaskInOnePlace /\ NoStrandedTask
  BY DEF IInv, TypeOK, TaskInOnePlace, QueueOK, Load

\* The duplicate test of `enqueue` covers every CPU, the inactive ones too.
LEMMA NotOwnedAnywhere ==
    ASSUME IInv, NEW t \in TaskIds, ~Owned(t)
    PROVE  \A c \in Cpus : ~Contains(queues[c], t) /\ current[c] # t
<1> SUFFICES ASSUME NEW c \in Cpus
             PROVE  ~Contains(queues[c], t) /\ current[c] # t
  OBVIOUS
<1>1. CASE c \in ActiveCpus
  BY <1>1 DEF Owned
<1>2. CASE c \notin ActiveCpus
  <2>1. queues[c].tasks = <<>> /\ current[c] = NoTask
    BY <1>2 DEF IInv, NoStrandedTask
  <2> QED
    BY <2>1, TaskIdsAssumption DEF Contains, NoTask
<1> QED
  BY <1>1, <1>2

\* A task of a queue is one of the tasks.
LEMMA ContainedIsTask ==
    ASSUME IInv, NEW c \in Cpus, NEW t, Contains(queues[c], t)
    PROVE  t \in TaskIds
  BY DEF IInv, Contains

\* The active CPUs are CPUs of the table, and are those below cpu_count.
LEMMA ActiveCpu ==
    ASSUME IInv
    PROVE  /\ ActiveCpus \subseteq Cpus
           /\ \A c \in Cpus : c < cpu_count <=> c \in ActiveCpus
           /\ \A c \in Cpus \ ActiveCpus : Load(c) = 0
  BY MaxCpusAssumption DEF IInv, ActiveCpus, Cpus, NoStrandedTask, Load

\* The parts of the invariant after a step, put together.  What a step may do
\* to the topology is checked once, here.
LEMMA AfterStep ==
    ASSUME queues' \in [Cpus -> [tasks : Seq(TaskIds), cursor : Nat]],
           \A d \in Cpus : QueueOK(queues'[d]),
           current' \in [Cpus -> TaskIds \cup {NoTask}],
           cpu_count' \in 1..MAX_CPUS,
           next_assignment' \in 0..(cpu_count' - 1),
           \A d, e \in Cpus, x \in TaskIds :
              Contains(queues'[d], x) /\ Contains(queues'[e], x) => d = e,
           \A d, e \in Cpus, x \in TaskIds :
              current'[d] = x => ~Contains(queues'[e], x),
           \A d, e \in Cpus :
              current'[d] = current'[e] => d = e \/ current'[d] = NoTask,
           NoStrandedTask'
    PROVE  IInv'
  BY DEF IInv, QueueOK, Contains, Cpus, NoTask, NoRepeat

\* Putting a task nobody owns on the queue of an active CPU.
LEMMA AddToQueue ==
    ASSUME IInv, NEW t \in TaskIds, ~Owned(t), NEW c \in ActiveCpus,
           CanEnqueue(queues[c], t),
           queues' = [queues EXCEPT ![c] = Enqueued(queues[c], t)],
           next_assignment' \in 0..(cpu_count - 1),
           UNCHANGED <<current, cpu_count>>
    PROVE  IInv'
<1>1. c \in Cpus /\ QueueOK(queues[c])
  BY ActiveCpu DEF IInv
<1>2. /\ QueueOK(Enqueued(queues[c], t))
      /\ \A x : Contains(Enqueued(queues[c], t), x) <=> Contains(queues[c], x) \/ x = t
  BY <1>1, EnqueuedQueue
<1>3. \A d \in Cpus : ~Contains(queues[d], t) /\ current[d] # t
  BY NotOwnedAnywhere
<1>4. /\ queues' \in [Cpus -> [tasks : Seq(TaskIds), cursor : Nat]]
      /\ queues'[c] = Enqueued(queues[c], t)
      /\ \A d \in Cpus \ {c} : queues'[d] = queues[d]
  BY <1>1, <1>2 DEF IInv, QueueOK
<1>5. \A d \in Cpus : QueueOK(queues'[d])
  BY <1>2, <1>4 DEF IInv
<1>6. \A d \in Cpus, x \in TaskIds :
        Contains(queues'[d], x) <=> Contains(queues[d], x) \/ (d = c /\ x = t)
  BY <1>2, <1>4
<1>7. NoStrandedTask'
  BY <1>4 DEF IInv, NoStrandedTask, ActiveCpus, Cpus
<1>8. \A d, e \in Cpus, x \in TaskIds :
        Contains(queues'[d], x) /\ Contains(queues'[e], x) => d = e
  BY <1>3, <1>6 DEF IInv
<1>9. \A d, e \in Cpus, x \in TaskIds : current'[d] = x => ~Contains(queues'[e], x)
  BY <1>3, <1>6 DEF IInv
<1> QED
  BY <1>4, <1>5, <1>7, <1>8, <1>9, AfterStep DEF IInv

-----------------------------------------------------------------------------
\* The initial state satisfies the invariant.
LEMMA InitInvariant == Init => IInv
<1> SUFFICES ASSUME Init PROVE IInv
  OBVIOUS
<1>1. QueueOK(NewQueue) /\ NewQueue.tasks = <<>> /\ \A x : ~Contains(NewQueue, x)
  BY QueueCapacityAssumption DEF QueueOK, NewQueue, NoRepeat, Contains
<1> QED
  BY <1>1, MaxCpusAssumption DEF Init, IInv, NoStrandedTask, NoTask, QueueOK, Contains

\* `configure` starts over.
LEMMA ConfigureInvariant ==
    ASSUME IInv, NEW n \in 0..(MAX_CPUS + 1), Configure(n)
    PROVE  IInv'
<1>1. QueueOK(NewQueue) /\ NewQueue.tasks = <<>> /\ \A x : ~Contains(NewQueue, x)
  BY QueueCapacityAssumption DEF QueueOK, NewQueue, NoRepeat, Contains
<1>2. cpu_count' \in 1..MAX_CPUS /\ next_assignment' \in 0..(cpu_count' - 1)
  BY MaxCpusAssumption DEF Configure
<1>3. \A c \in Cpus : queues'[c] = NewQueue /\ current'[c] = NoTask
  BY DEF Configure
<1>4. /\ queues' \in [Cpus -> [tasks : Seq(TaskIds), cursor : Nat]]
      /\ current' \in [Cpus -> TaskIds \cup {NoTask}]
  BY <1>1 DEF Configure, QueueOK
<1>5. \A c \in Cpus : QueueOK(queues'[c]) /\ \A x : ~Contains(queues'[c], x)
  BY <1>1, <1>3
<1>6. NoStrandedTask'
  BY <1>1, <1>3 DEF NoStrandedTask, Cpus
<1> QED
  BY <1>2, <1>3, <1>4, <1>5, <1>6, AfterStep

\* `enqueue` selects an active CPU whatever the loads are.
LEMMA EnqueueInvariant ==
    ASSUME IInv, NEW t \in TaskIds, Enqueue(t)
    PROVE  IInv'
<1>1. PICK offset \in ActiveCpus :
        /\ CanEnqueue(queues[CandidateAt(offset)], t)
        /\ queues' = [queues EXCEPT ![CandidateAt(offset)] =
                            Enqueued(queues[CandidateAt(offset)], t)]
        /\ next_assignment' = (CandidateAt(offset) + 1) % cpu_count
  BY DEF Enqueue
<1>2. cpu_count \in Nat \ {0} /\ next_assignment + offset \in Nat
  BY <1>1, MaxCpusAssumption DEF IInv, ActiveCpus
<1>3. CandidateAt(offset) \in ActiveCpus
  BY <1>2, ModRange DEF CandidateAt, ActiveCpus
<1>4. CandidateAt(offset) + 1 \in Nat
  BY <1>2, <1>3 DEF ActiveCpus
<1>5. next_assignment' \in 0..(cpu_count - 1)
  BY <1>1, <1>2, <1>4, ModRange
<1> QED
  BY <1>1, <1>3, <1>5, AddToQueue DEF Enqueue

\* `enqueue_on_cpu` refuses CPUs outside the topology and owned tasks.
LEMMA EnqueueOnCpuInvariant ==
    ASSUME IInv, NEW c \in Cpus, NEW t \in TaskIds, EnqueueOnCpu(c, t)
    PROVE  IInv'
  BY AddToQueue, ActiveCpu DEF EnqueueOnCpu, IInv

\* `dequeue` takes a task away from one running slot or one queue.
LEMMA DequeueInvariant ==
    ASSUME IInv, NEW c \in Cpus, NEW t \in TaskIds, Dequeue(c, t)
    PROVE  IInv'
<1>1. CASE current' = [current EXCEPT ![c] = NoTask] /\ UNCHANGED queues
  <2>1. NoStrandedTask'
    BY <1>1 DEF Dequeue, IInv, NoStrandedTask, ActiveCpus, Cpus
  <2>2. /\ current' \in [Cpus -> TaskIds \cup {NoTask}]
        /\ current'[c] = NoTask
        /\ \A d \in Cpus \ {c} : current'[d] = current[d]
    BY <1>1 DEF IInv
  <2>3. NoTask \notin TaskIds
    BY TaskIdsAssumption DEF NoTask
  <2>4. \A d, e \in Cpus, x \in TaskIds : current'[d] = x => ~Contains(queues'[e], x)
    BY <1>1, <2>2, <2>3 DEF IInv
  <2>5. \A d, e \in Cpus :
          current'[d] = current'[e] => d = e \/ current'[d] = NoTask
    BY <2>2 DEF IInv
  <2> QED
    BY <1>1, <2>1, <2>2, <2>3, <2>4, <2>5, AfterStep DEF Dequeue, IInv
<1>2. CASE /\ Contains(queues[c], t)
           /\ queues' = [queues EXCEPT ![c] = Removed(queues[c], t)]
           /\ UNCHANGED current
  <2>1. /\ QueueOK(Removed(queues[c], t))
        /\ \A x : Contains(Removed(queues[c], t), x) <=> Contains(queues[c], x) /\ x # t
    BY <1>2, RemovedQueue DEF IInv
  <2>2. /\ queues' \in [Cpus -> [tasks : Seq(TaskIds), cursor : Nat]]
        /\ queues'[c] = Removed(queues[c], t)
        /\ \A d \in Cpus \ {c} : queues'[d] = queues[d]
    BY <1>2, <2>1 DEF IInv, QueueOK
  <2>3. \A d \in Cpus : QueueOK(queues'[d])
    BY <2>1, <2>2 DEF IInv
  <2>4. \A d \in Cpus, x \in TaskIds : Contains(queues'[d], x) => Contains(queues[d], x)
    BY <2>1, <2>2
  <2>5. NoStrandedTask'
    BY <1>2, <2>2, ActiveCpu DEF Dequeue, IInv, NoStrandedTask, ActiveCpus, Cpus
  <2>6. \A d, e \in Cpus, x \in TaskIds :
          Contains(queues'[d], x) /\ Contains(queues'[e], x) => d = e
    BY <2>4 DEF IInv
  <2>7. \A d, e \in Cpus, x \in TaskIds : current'[d] = x => ~Contains(queues'[e], x)
    BY <1>2, <2>4 DEF IInv
  <2> QED
    BY <1>2, <2>2, <2>3, <2>5, <2>6, <2>7, AfterStep DEF Dequeue, IInv
<1> QED
  BY <1>1, <1>2 DEF Dequeue

\* `pick_next` moves a cursor only.
LEMMA PickNextInvariant ==
    ASSUME IInv, NEW c \in Cpus, PickNext(c)
    PROVE  IInv' /\ \A x \in TaskIds : Owned(x)' <=> Owned(x)
<1>1. QueueOK(Advanced(queues[c])) /\ Advanced(queues[c]).tasks = queues[c].tasks
  BY AdvancedQueue DEF PickNext, Load, IInv
<1>2. /\ queues' \in [Cpus -> [tasks : Seq(TaskIds), cursor : Nat]]
      /\ \A d \in Cpus : QueueOK(queues'[d]) /\ queues'[d].tasks = queues[d].tasks
  BY <1>1 DEF PickNext, IInv, QueueOK
<1>3. \A d \in Cpus, x \in TaskIds : Contains(queues'[d], x) <=> Contains(queues[d], x)
  BY <1>2 DEF Contains
<1>4. NoStrandedTask'
  BY <1>2 DEF PickNext, IInv, NoStrandedTask, ActiveCpus, Cpus
<1>5. \A d, e \in Cpus, x \in TaskIds :
        Contains(queues'[d], x) /\ Contains(queues'[e], x) => d = e
  BY <1>3 DEF IInv
<1>6. \A d, e \in Cpus, x \in TaskIds : current'[d] = x => ~Contains(queues'[e], x)
  BY <1>3 DEF IInv, PickNext
<1>7. \A x \in TaskIds : Owned(x)' <=> Owned(x)
  BY <1>3, ActiveCpu DEF PickNext, Owned, ActiveCpus
<1> QED
  BY <1>2, <1>4, <1>5, <1>6, <1>7, AfterStep DEF PickNext, IInv

\* `steal` moves the oldest task of a peer to the thief; the enqueue on the
\* thief's side cannot be refused as a duplicate.
LEMMA StealInvariant ==
    ASSUME IInv, NEW c \in Cpus, Steal(c)
    PROVE  IInv' /\ \A x \in TaskIds : Owned(x)' <=> Owned(x)
<1>1. PICK v \in Cpus :
        /\ Victim(c, v)
        /\ queues' = [queues EXCEPT ![v] = Removed(queues[v], queues[v].tasks[1]),
                                    ![c] = Enqueued(queues[c], queues[v].tasks[1])]
  BY DEF Steal
<1> DEFINE t == queues[v].tasks[1]
<1>2. v # c /\ QueueOK(queues[v]) /\ QueueOK(queues[c])
  BY <1>1 DEF Victim, IInv
<1>3. Contains(queues[v], t) /\ t \in TaskIds
  BY <1>1, <1>2 DEF Victim, Load, Contains, QueueOK
<1>4. CanEnqueue(queues[c], t)
  <2>1. ~Contains(queues[c], t)
    BY <1>2, <1>3 DEF IInv
  <2> QED
    BY <1>3, <2>1, TaskIdsAssumption DEF CanEnqueue, Steal, Load
<1>5. /\ QueueOK(Removed(queues[v], t))
      /\ \A x : Contains(Removed(queues[v], t), x) <=> Contains(queues[v], x) /\ x # t
  BY <1>2, <1>3, RemovedQueue
<1>6. /\ QueueOK(Enqueued(queues[c], t))
      /\ \A x : Contains(Enqueued(queues[c], t), x) <=> Contains(queues[c], x) \/ x = t
  BY <1>2, <1>3, <1>4, EnqueuedQueue
<1> HIDE DEF t
<1>7. /\ queues' \in [Cpus -> [tasks : Seq(TaskIds), cursor : Nat]]
      /\ queues'[v] = Removed(queues[v], t)
      /\ queues'[c] = Enqueued(queues[c], t)
      /\ \A d \in Cpus \ {c, v} : queues'[d] = queues[d]
  BY <1>1, <1>2, <1>5, <1>6 DEF IInv, QueueOK, t
<1>8. \A d \in Cpus : QueueOK(queues'[d])
  BY <1>5, <1>6, <1>7 DEF IInv
<1>9. \A d \in Cpus, x \in TaskIds :
        Contains(queues'[d], x) <=> IF x = t THEN d = c ELSE Contains(queues[d], x)
  <2>1. ASSUME NEW d \in Cpus, NEW x \in TaskIds, d # c, d # v
        PROVE  Contains(queues'[d], x) <=> IF x = t THEN d = c ELSE Contains(queues[d], x)
    BY <1>3, <1>7, <2>1 DEF IInv
  <2> QED
    BY <1>2, <1>5, <1>6, <1>7, <2>1
<1>10. \A d, e \in Cpus, x \in TaskIds :
        Contains(queues'[d], x) /\ Contains(queues'[e], x) => d = e
  BY <1>9 DEF IInv
<1>11. \A d, e \in Cpus, x \in TaskIds : current'[d] = x => ~Contains(queues'[e], x)
  BY <1>3, <1>9 DEF IInv, Steal
<1>12. c \in ActiveCpus /\ v \in ActiveCpus
  BY <1>1, ActiveCpu DEF Steal, Victim
<1>13. NoStrandedTask'
  BY <1>7, <1>12 DEF Steal, IInv, NoStrandedTask, ActiveCpus, Cpus
<1>14. \A x \in TaskIds : Owned(x)' <=> Owned(x)
  <2>1. ActiveCpus' = ActiveCpus /\ ActiveCpus \subseteq Cpus /\ current' = current
    BY ActiveCpu DEF Steal, ActiveCpus
  <2> QED
    BY <1>3, <1>9, <1>12, <2>1 DEF Owned
<1> QED
  BY <1>7, <1>8, <1>10, <1>11, <1>13, <1>14, AfterStep DEF Steal, IInv

\* A CPU that is not Busy takes the next task of its own queue.
LEMMA DispatchLocalInvariant ==
    ASSUME IInv, NEW c \in Cpus, DispatchLocal(c)
    PROVE  IInv' /\ \A x \in TaskIds : Owned(x)' <=> Owned(x)
<1> DEFINE t == NextTask(queues[c])
<1>1. /\ QueueOK(Popped(queues[c]))
      /\ t \in TaskIds
      /\ Contains(queues[c], t)
      /\ \A x : Contains(Popped(queues[c]), x) <=> Contains(queues[c], x) /\ x # t
  BY PoppedQueue DEF DispatchLocal, Load, IInv
<1> HIDE DEF t
<1>2. /\ queues' \in [Cpus -> [tasks : Seq(TaskIds), cursor : Nat]]
      /\ queues'[c] = Popped(queues[c])
      /\ \A d \in Cpus \ {c} : queues'[d] = queues[d]
  BY <1>1 DEF DispatchLocal, IInv, QueueOK
<1>3. /\ current' \in [Cpus -> TaskIds \cup {NoTask}]
      /\ current'[c] = t
      /\ \A d \in Cpus \ {c} : current'[d] = current[d]
  BY <1>1 DEF DispatchLocal, IInv, t
<1>4. \A d \in Cpus : QueueOK(queues'[d])
  BY <1>1, <1>2 DEF IInv
<1>5. \A d \in Cpus, x \in TaskIds : Contains(queues'[d], x) <=> Contains(queues[d], x) /\ x # t
  BY <1>1, <1>2 DEF IInv
<1>6. \A d \in Cpus : current[d] # t
  BY <1>1 DEF IInv
<1>7. \A d, e \in Cpus, x \in TaskIds :
        Contains(queues'[d], x) /\ Contains(queues'[e], x) => d = e
  BY <1>5 DEF IInv
<1>8. \A d, e \in Cpus, x \in TaskIds : current'[d] = x => ~Contains(queues'[e], x)
  BY <1>3, <1>5 DEF IInv
<1>9. \A d, e \in Cpus :
        current'[d] = current'[e] => d = e \/ current'[d] = NoTask
  BY <1>3, <1>6 DEF IInv
<1>10. NoStrandedTask'
  BY <1>2, <1>3, ActiveCpu DEF DispatchLocal, IInv, NoStrandedTask, ActiveCpus, Cpus
<1>11. \A x \in TaskIds : Owned(x)' <=> Owned(x)
  <2>1. ActiveCpus' = ActiveCpus /\ ActiveCpus \subseteq Cpus /\ c \in ActiveCpus
    BY ActiveCpu DEF DispatchLocal, ActiveCpus
  <2>2. current[c] \notin TaskIds
    BY TaskIdsAssumption DEF DispatchLocal, NoTask
  <2> QED
    BY <1>1, <1>3, <1>5, <2>1, <2>2 DEF Owned
<1> QED
  BY <1>2, <1>3, <1>4, <1>7, <1>8, <1>9, <1>10, <1>11, AfterStep DEF DispatchLocal, IInv

\* A CPU with nothing to do takes the oldest task of a peer: what it enqueues
\* on its empty queue is what it pops.
LEMMA DispatchStolenInvariant ==
    ASSUME IInv, NEW c \in Cpus, DispatchStolen(c)
    PROVE  IInv' /\ \A x \in TaskIds : Owned(x)' <=> Owned(x)
<1>1. PICK v \in Cpus :
        /\ Victim(c, v)
        /\ queues' = [queues EXCEPT
                        ![v] = Removed(queues[v], queues[v].tasks[1]),
                        ![c] = Popped(Enqueued(queues[c], queues[v].tasks[1]))]
        /\ current' = [current EXCEPT ![c] = queues[v].tasks[1]]
  BY DEF DispatchStolen
<1> DEFINE t == queues[v].tasks[1]
           e == Enqueued(queues[c], t)
<1>2. v # c /\ QueueOK(queues[v]) /\ QueueOK(queues[c])
  BY <1>1 DEF Victim, IInv
<1>3. Contains(queues[v], t) /\ t \in TaskIds
  BY <1>1, <1>2 DEF Victim, Load, Contains, QueueOK
<1>4. CanEnqueue(queues[c], t) /\ \A x : ~Contains(queues[c], x)
  <2>1. Len(queues[c].tasks) = 0
    BY DEF DispatchStolen, Load
  <2>2. \A x : ~Contains(queues[c], x)
    BY <2>1 DEF Contains
  <2> QED
    BY <1>3, <2>1, <2>2, TaskIdsAssumption, QueueCapacityAssumption DEF CanEnqueue
<1>5. /\ QueueOK(Removed(queues[v], t))
      /\ \A x : Contains(Removed(queues[v], t), x) <=> Contains(queues[v], x) /\ x # t
  BY <1>2, <1>3, RemovedQueue
<1>6. /\ QueueOK(e)
      /\ \A x : Contains(e, x) <=> x = t
      /\ Len(e.tasks) > 0
  <2>1. /\ QueueOK(e)
        /\ \A x : Contains(e, x) <=> Contains(queues[c], x) \/ x = t
        /\ Len(e.tasks) = Len(queues[c].tasks) + 1
    BY <1>2, <1>3, <1>4, EnqueuedQueue
  <2> QED
    BY <1>4, <2>1 DEF DispatchStolen, Load
<1> HIDE DEF e
<1>7. QueueOK(Popped(e)) /\ \A x : ~Contains(Popped(e), x)
  BY <1>6, PoppedQueue
<1> HIDE DEF t
<1>8. /\ queues' \in [Cpus -> [tasks : Seq(TaskIds), cursor : Nat]]
      /\ queues'[v] = Removed(queues[v], t)
      /\ queues'[c] = Popped(e)
      /\ \A d \in Cpus \ {c, v} : queues'[d] = queues[d]
  BY <1>1, <1>2, <1>5, <1>7 DEF IInv, QueueOK, t, e
<1>9. /\ current' \in [Cpus -> TaskIds \cup {NoTask}]
      /\ current'[c] = t
      /\ \A d \in Cpus \ {c} : current'[d] = current[d]
  BY <1>1, <1>3 DEF IInv, t
<1>10. \A d \in Cpus : QueueOK(queues'[d])
  BY <1>5, <1>7, <1>8 DEF IInv
<1>11. \A d \in Cpus, x \in TaskIds : Contains(queues'[d], x) <=> Contains(queues[d], x) /\ x # t
  <2>1. ASSUME NEW d \in Cpus, NEW x \in TaskIds, d # c, d # v
        PROVE  Contains(queues'[d], x) <=> Contains(queues[d], x) /\ x # t
    BY <1>3, <1>8, <2>1 DEF IInv
  <2> QED
    BY <1>2, <1>4, <1>5, <1>7, <1>8, <2>1
<1>12. \A d \in Cpus : current[d] # t
  BY <1>3 DEF IInv
<1>13. \A d, f \in Cpus, x \in TaskIds :
        Contains(queues'[d], x) /\ Contains(queues'[f], x) => d = f
  BY <1>11 DEF IInv
<1>14. \A d, f \in Cpus, x \in TaskIds : current'[d] = x => ~Contains(queues'[f], x)
  BY <1>9, <1>11 DEF IInv
<1>15. \A d, f \in Cpus :
        current'[d] = current'[f] => d = f \/ current'[d] = NoTask
  BY <1>9, <1>12 DEF IInv
<1>16. c \in ActiveCpus /\ v \in ActiveCpus
  BY <1>1, ActiveCpu DEF DispatchStolen, Victim
<1>17. NoStrandedTask'
  <2>1. ActiveCpus' = ActiveCpus
    BY DEF DispatchStolen, ActiveCpus
  <2>2. \A d \in Cpus \ ActiveCpus : queues'[d] = queues[d] /\ current'[d] = current[d]
    BY <1>8, <1>9, <1>16
  <2>3. \A d \in Cpus \ ActiveCpus : queues[d].tasks = <<>> /\ current[d] = NoTask
    BY DEF IInv, NoStrandedTask
  <2> QED
    BY <2>1, <2>2, <2>3 DEF NoStrandedTask, Cpus
<1>18. \A x \in TaskIds : Owned(x)' <=> Owned(x)
  <2>1. ActiveCpus' = ActiveCpus /\ ActiveCpus \subseteq Cpus
    BY ActiveCpu DEF DispatchStolen, ActiveCpus
  <2>2. current[c] \notin TaskIds
    BY TaskIdsAssumption DEF DispatchStolen, NoTask
  <2> QED
    BY <1>3, <1>9, <1>11, <1>16, <2>1, <2>2 DEF Owned
<1> QED
  BY <1>8, <1>9, <1>10, <1>13, <1>14, <1>15, <1>17, <1>18, AfterStep DEF DispatchStolen, IInv

\* `complete` empties the running slot, and the queue of the CPU has room for
\* the task that leaves it.
LEMMA CompleteInvariant ==
    ASSUME IInv, NEW c \in Cpus, Complete(c)
    PROVE  IInv' /\ \A x \in TaskIds : Owned(x)' <=> Owned(x)
<1> DEFINE t == current[c]
<1>1. t \in TaskIds /\ QueueOK(queues[c]) /\ NoTask \notin TaskIds
  BY TaskIdsAssumption DEF Complete, IInv, NoTask
<1>2. \A d \in Cpus : ~Contains(queues[d], t) /\ (d # c => current[d] # t)
  BY <1>1 DEF IInv
<1> HIDE DEF t
<1>3. /\ current' \in [Cpus -> TaskIds \cup {NoTask}]
      /\ current'[c] = NoTask
      /\ \A d \in Cpus \ {c} : current'[d] = current[d]
  BY DEF Complete, IInv
<1>4. /\ queues' \in [Cpus -> [tasks : Seq(TaskIds), cursor : Nat]]
      /\ \A d \in Cpus : QueueOK(queues'[d])
      /\ \A d \in Cpus, x \in TaskIds :
            Contains(queues'[d], x) <=> Contains(queues[d], x) \/ (x = t /\ d = c)
      /\ \A d \in Cpus \ {c} : queues'[d] = queues[d]
  <2>1. CanEnqueue(queues[c], t)
    BY <1>1, <1>2, RoomForTask
  <2>2. /\ QueueOK(Enqueued(queues[c], t))
        /\ \A x : Contains(Enqueued(queues[c], t), x) <=> Contains(queues[c], x) \/ x = t
    BY <1>1, <2>1, EnqueuedQueue
  <2>3. queues' = [queues EXCEPT ![c] = Enqueued(queues[c], t)]
    BY <2>1 DEF Complete, t
  <2>4. /\ queues' \in [Cpus -> [tasks : Seq(TaskIds), cursor : Nat]]
        /\ queues'[c] = Enqueued(queues[c], t)
        /\ \A d \in Cpus \ {c} : queues'[d] = queues[d]
    BY <2>2, <2>3 DEF IInv, QueueOK
  <2>5. \A d \in Cpus : QueueOK(queues'[d])
    BY <2>2, <2>4 DEF IInv
  <2>6. ASSUME NEW d \in Cpus, NEW x \in TaskIds
        PROVE  Contains(queues'[d], x) <=> Contains(queues[d], x) \/ (x = t /\ d = c)
    <3>1. CASE d = c
      BY <2>2, <2>4, <3>1
    <3>2. CASE d # c
      BY <2>4, <3>2
    <3> QED
      BY <3>1, <3>2
  <2> QED
    BY <2>4, <2>5, <2>6
<1>5. \A d, e \in Cpus, x \in TaskIds :
        Contains(queues'[d], x) /\ Contains(queues'[e], x) => d = e
  <2>1. \A d, e \in Cpus, x \in TaskIds :
          Contains(queues[d], x) /\ Contains(queues[e], x) => d = e
    BY DEF IInv
  <2> QED
    BY <1>2, <1>4, <2>1
<1>6. \A d, e \in Cpus, x \in TaskIds : current'[d] = x => ~Contains(queues'[e], x)
  <2> SUFFICES ASSUME NEW d \in Cpus, NEW e \in Cpus, NEW x \in TaskIds, current'[d] = x
               PROVE  ~Contains(queues'[e], x)
    OBVIOUS
  <2>1. d # c /\ current[d] = x /\ x # t
    BY <1>1, <1>2, <1>3
  <2>2. ~Contains(queues[e], x)
    BY <2>1 DEF IInv
  <2> QED
    BY <1>4, <2>1, <2>2
<1>7. \A d, e \in Cpus :
        current'[d] = current'[e] => d = e \/ current'[d] = NoTask
  BY <1>3 DEF IInv
<1>8. NoStrandedTask'
  BY <1>3, <1>4, ActiveCpu DEF Complete, IInv, NoStrandedTask, ActiveCpus, Cpus
<1>9. \A x \in TaskIds : Owned(x)' <=> Owned(x)
  <2>1. ActiveCpus' = ActiveCpus /\ ActiveCpus \subseteq Cpus /\ c \in ActiveCpus
    BY ActiveCpu DEF Complete, ActiveCpus
  <2> QED
    BY <1>1, <1>3, <1>4, <2>1 DEF Owned, t
<1> QED
  BY <1>3, <1>4, <1>5, <1>6, <1>7, <1>8, <1>9, AfterStep DEF Complete, IInv

-----------------------------------------------------------------------------
\* Every step of the scheduler preserves the inductive invariant.
LEMMA StepInvariant == IInv /\ [Next]_vars => IInv'
<1> SUFFICES ASSUME IInv, [Next]_vars PROVE IInv'
  OBVIOUS
<1>1. CASE \E n \in 0..(MAX_CPUS + 1) : Configure(n)
  BY <1>1, ConfigureInvariant
<1>2. CASE \E t \in TaskIds : Enqueue(t)
  BY <1>2, EnqueueInvariant
<1>3. CASE \E c \in Cpus, t \in TaskIds : EnqueueOnCpu(c, t) \/ Dequeue(c, t)
  BY <1>3, EnqueueOnCpuInvariant, DequeueInvariant
<1>4. CASE \E c \in Cpus : PickNext(c) \/ Steal(c)
  BY <1>4, PickNextInvariant, StealInvariant
<1>5. CASE \E c \in Cpus, allow_steal \in BOOLEAN : BoundedHandoff(c, allow_steal)
  BY <1>5, CompleteInvariant, DispatchLocalInvariant, DispatchStolenInvariant
  DEF BoundedHandoff
<1>6. CASE UNCHANGED vars
  <2>1. queues' = queues /\ current' = current /\ cpu_count' = cpu_count /\ next_assignment' = next_assignment
    BY <1>6 DEF vars
  <2>2. NoStrandedTask'
    BY <2>1, Zenon DEF IInv, NoStrandedTask, ActiveCpus, Cpus, NoTask
  <2> QED
    BY <2>1, <2>2, AfterStep DEF IInv
<1> QED
  BY <1>1, <1>2, <1>3, <1>4, <1>5, <1>6 DEF Next

\* The coordinator of the run queues is type correct: queues stay within their
\* capacity and their cursors within the queues, through every sequence of
\* enqueues, steals, dispatches and reconfigurations.
THEOREM TypeCorrect == Spec => []TypeOK
<1>1. Init => IInv
  BY InitInvariant
<1>2. IInv /\ [Next]_vars => IInv'
  BY StepInvariant
<1>3. IInv => TypeOK
  BY InvariantParts
<1> QED
  BY <1>1, <1>2, <1>3, PTL DEF Spec

\* No task is ever in two queues, twice in one, on two CPUs, or queued while
\* it runs: two CPUs can never be handed the same task.
THEOREM OnePlace == Spec => []TaskInOnePlace
<1>1. Init => IInv
  BY InitInvariant
<1>2. IInv /\ [Next]_vars => IInv'
  BY StepInvariant
<1>3. IInv => TaskInOnePlace
  BY InvariantParts
<1> QED
  BY <1>1, <1>2, <1>3, PTL DEF Spec

\* No task is left on a CPU outside the configured topology.
THEOREM NothingStranded == Spec => []NoStrandedTask
<1>1. Init => IInv
  BY InitInvariant
<1>2. IInv /\ [Next]_vars => IInv'
  BY StepInvariant
<1>3. IInv => NoStrandedTask
  BY InvariantParts
<1> QED
  BY <1>1, <1>2, <1>3, PTL DEF Spec

\* Picking, stealing, dispatching and completing neither lose nor invent a
\* task; in particular `complete` always finds room for the task it has
\* already taken out of the running slot.
THEOREM TasksKept == Spec => SchedulingKeepsTasks
<1>1. Init => IInv
  BY InitInvariant
<1>2. IInv /\ [Next]_vars => IInv'
  BY StepInvariant
<1>3. IInv => [Scheduling => \A t \in TaskIds : Owned(t)' <=> Owned(t)]_vars
  <2> SUFFICES ASSUME IInv, Scheduling
               PROVE  \A t \in TaskIds : Owned(t)' <=> Owned(t)
    OBVIOUS
  <2>1. PICK c \in Cpus : PickNext(c) \/ Steal(c) \/ Dispatch(c) \/ Complete(c)
    BY DEF Scheduling
  <2> QED
    BY <2>1, PickNextInvariant, StealInvariant, DispatchLocalInvariant,
       DispatchStolenInvariant, CompleteInvariant DEF Dispatch
<1> QED
  BY <1>1, <1>2, <1>3, PTL DEF Spec, SchedulingKeepsTasks

-----------------------------------------------------------------------------
(* How long a task waits.                                                  *)

\* How often t's CPU can still dispatch another task before it dispatches the
\* i-th task of q, at most: every dispatch from before the task moves it
\* forward, and between two such dispatches the cursor runs to the end once.
Weight(i) == i * (MAX_RUN_QUEUE_TASKS + 1)
Left(q, i) == Weight(i - 1) + IF q.cursor > i - 1 THEN MAX_RUN_QUEUE_TASKS - q.cursor ELSE 0
Most == MAX_RUN_QUEUE_TASKS * MAX_RUN_QUEUE_TASKS - 1

LEMMA Weights ==
    /\ \A i \in Nat : Weight(i) \in Nat /\ Weight(i + 1) = Weight(i) + MAX_RUN_QUEUE_TASKS + 1
    /\ \A i \in Nat : i < MAX_RUN_QUEUE_TASKS => Weight(i) <= Most
    /\ Most \in Nat
<1>1. PICK n \in Nat : n + 1 = MAX_RUN_QUEUE_TASKS
    <2>1. MAX_RUN_QUEUE_TASKS - 1 \in Nat /\ (MAX_RUN_QUEUE_TASKS - 1) + 1 = MAX_RUN_QUEUE_TASKS
        BY QueueCapacityAssumption
    <2> QED BY <2>1
<1>2. ASSUME NEW i \in Nat PROVE i * ((n + 1) + 1) \in Nat /\ (i + 1) * ((n + 1) + 1) = i * ((n + 1) + 1) + (n + 1) + 1
    OBVIOUS
<1>3. (n + 1) * (n + 1) - 1 = n * ((n + 1) + 1) /\ n * ((n + 1) + 1) \in Nat
    OBVIOUS
<1>4. ASSUME NEW i \in Nat, i < n + 1 PROVE i * ((n + 1) + 1) <= n * ((n + 1) + 1)
    <2>1. PICK d \in Nat : n = i + d
        <3>1. n - i \in Nat /\ n = i + (n - i)
            BY <1>4
        <3> QED BY <3>1
    <2>2. PICK m \in Nat : m = (n + 1) + 1
        OBVIOUS
    <2>3. (i + d) * m = i * m + d * m /\ i * m \in Nat /\ d * m \in Nat
        OBVIOUS
    <2> QED BY <2>1, <2>2, <2>3
<1> QED BY <1>1, <1>2, <1>3, <1>4 DEF Weight, Most

\* What pop_next leaves: the task at the cursor is gone, those behind it have
\* moved up, and the cursor has moved past the gap or back to the start.
LEMMA PoppedPlaces ==
    ASSUME NEW q, QueueOK(q), Len(q.tasks) > 0
    PROVE  /\ NextTask(q) = q.tasks[q.cursor + 1]
           /\ Len(Popped(q).tasks) = Len(q.tasks) - 1
           /\ \A j \in 1..(Len(q.tasks) - 1) :
                 Popped(q).tasks[j] = IF j <= q.cursor THEN q.tasks[j] ELSE q.tasks[j + 1]
           /\ Popped(q).cursor \in {0, q.cursor + 1}
<1> DEFINE n == Len(q.tasks)
           p == q.cursor
           a == Advanced(q)
<1>1. q.tasks \in Seq(TaskIds) /\ p \in Nat /\ n \in Nat \ {0} /\ p < n
    BY DEF QueueOK
<1>2. p % n = p /\ (p + 1) % n \in {0, p + 1} /\ (p + 1) % n \in 0..(n - 1)
    <2> HIDE DEF n, p
    <2>1. p % n = p
        BY <1>1
    <2>2. CASE p + 1 = n
        BY <1>1, <2>2
    <2>3. CASE p + 1 < n
        BY <1>1, <2>3
    <2> QED BY <1>1, <2>1, <2>2, <2>3
<1>3. NextTask(q) = q.tasks[p + 1]
    BY <1>2 DEF NextTask
<1>4. a.tasks = q.tasks /\ a.cursor = (p + 1) % n
    BY DEF Advanced
<1>5. Position(a, NextTask(q)) = p + 1
    <2>1. p + 1 \in 1..n /\ NoRepeat(q)
        BY <1>1 DEF QueueOK
    <2>2. \A i \in 1..n : q.tasks[i] = q.tasks[p + 1] => i = p + 1
        BY <2>1 DEF NoRepeat
    <2>3. \A i \in 1..n : (q.tasks[i] = q.tasks[p + 1] /\ \A j \in 1..n : q.tasks[j] = q.tasks[p + 1] => i <= j) <=> i = p + 1
        BY <1>1, <2>1, <2>2
    <2> QED BY <1>3, <1>4, <2>1, <2>3 DEF Position
<1>6. Popped(q).tasks = [j \in 1..(n - 1) |-> IF j < p + 1 THEN q.tasks[j] ELSE q.tasks[j + 1]]
    BY <1>4, <1>5 DEF Popped, Removed, ShiftedOver
<1>7. Popped(q).cursor = IF n = 1 THEN 0 ELSE a.cursor % (n - 1)
    BY <1>4 DEF Popped, Removed
<1>8. Popped(q).cursor \in {0, p + 1}
    <2>1. PICK x : x = a.cursor /\ x \in {0, p + 1} /\ x \in 0..(n - 1)
        BY <1>2, <1>4
    <2>2. CASE n # 1
        <3>1. x % (n - 1) = IF x = n - 1 THEN 0 ELSE x
            <4> HIDE DEF n, p
            <4>1. CASE x = n - 1
                BY <1>1, <2>2, <4>1
            <4>2. CASE x # n - 1
                BY <1>1, <2>1, <2>2, <4>2
            <4> QED BY <4>1, <4>2
        <3> QED BY <1>7, <2>1, <2>2, <3>1
    <2> QED BY <1>7, <2>2
<1>9. Len(Popped(q).tasks) = n - 1
    <2>1. n - 1 \in Nat
        BY <1>1
    <2> QED BY <1>6, <2>1
<1>10. \A j \in 1..(n - 1) : j < p + 1 <=> j <= p
    BY <1>1
<1> QED BY <1>3, <1>6, <1>8, <1>9, <1>10

\* A task that waits while its CPU dispatches another one comes nearer.
LEMMA PoppedNearer ==
    ASSUME NEW q, QueueOK(q), Len(q.tasks) > 0, NEW j \in 1..Len(Popped(q).tasks)
    PROVE  \E i \in 1..Len(q.tasks) : /\ q.tasks[i] = Popped(q).tasks[j]
                                      /\ Left(q, i) \in Nat /\ Left(Popped(q), j) \in Nat
                                      /\ Left(Popped(q), j) < Left(q, i)
<1> DEFINE n == Len(q.tasks)
           p == q.cursor
           x == Popped(q).cursor
           N == MAX_RUN_QUEUE_TASKS
<1>1. p \in Nat /\ n \in Nat \ {0} /\ p < n /\ n <= N /\ N \in Nat
    BY QueueCapacityAssumption DEF QueueOK
<1>2. /\ j \in 1..(n - 1) /\ x \in {0, p + 1}
      /\ Popped(q).tasks[j] = IF j <= p THEN q.tasks[j] ELSE q.tasks[j + 1]
    BY PoppedPlaces
<1>3. j - 1 \in Nat /\ Weight(j - 1) \in Nat /\ Weight(j) = Weight(j - 1) + N + 1 /\ (j - 1) + 1 = j /\ (j + 1) - 1 = j
    <2>1. j - 1 \in Nat /\ (j - 1) + 1 = j /\ (j + 1) - 1 = j
        BY <1>2
    <2> QED BY <2>1, Weights
<1>4. CASE j <= p
    <2>1. j \in 1..n /\ q.tasks[j] = Popped(q).tasks[j]
        BY <1>1, <1>2, <1>4
    <2>2. Left(q, j) = Weight(j - 1) + (N - p)
        BY <1>1, <1>2, <1>4 DEF Left
    <2>3. Left(Popped(q), j) = Weight(j - 1) + IF x = 0 THEN 0 ELSE N - (p + 1)
        BY <1>1, <1>2, <1>4 DEF Left
    <2> HIDE DEF n, p, x, N
    <2>4. Left(q, j) \in Nat /\ Left(Popped(q), j) \in Nat /\ Left(Popped(q), j) < Left(q, j)
        BY <1>1, <1>3, <2>2, <2>3
    <2> QED BY <2>1, <2>4 DEF n
<1>5. CASE p < j
    <2>1. j + 1 \in 1..n /\ q.tasks[j + 1] = Popped(q).tasks[j]
        BY <1>1, <1>2, <1>5
    <2>2. Left(q, j + 1) = Weight(j)
        BY <1>1, <1>2, <1>3, <1>5 DEF Left
    <2>3. Left(Popped(q), j) = Weight(j - 1) + IF x > j - 1 THEN N - x ELSE 0
        BY DEF Left
    <2>4. x \in Nat /\ (x > j - 1 => x <= N)
        BY <1>1, <1>2, <1>5
    <2> HIDE DEF n, p, x, N
    <2>5. Left(q, j + 1) \in Nat /\ Left(Popped(q), j) \in Nat /\ Left(Popped(q), j) < Left(q, j + 1)
        BY <1>1, <1>3, <2>2, <2>3, <2>4
    <2> QED BY <2>1, <2>5 DEF n
<1> QED BY <1>1, <1>2, <1>4, <1>5

\* A task that is put on a queue has the whole bound before it; the others
\* keep what they had.
LEMMA EnqueuedLeft ==
    ASSUME NEW q, QueueOK(q), NEW t, CanEnqueue(q, t), NEW j \in 1..Len(Enqueued(q, t).tasks)
    PROVE  /\ Left(Enqueued(q, t), j) \in Nat
           /\ \/ /\ j \in 1..Len(q.tasks) /\ q.tasks[j] = Enqueued(q, t).tasks[j]
                 /\ Left(Enqueued(q, t), j) = Left(q, j)
              \/ Enqueued(q, t).tasks[j] = t /\ Left(Enqueued(q, t), j) <= Most
<1> DEFINE n == Len(q.tasks)
           N == MAX_RUN_QUEUE_TASKS
<1>1. /\ q.tasks \in Seq(TaskIds) /\ q.cursor \in Nat /\ n \in Nat /\ n < N /\ N \in Nat
      /\ q.cursor < n \/ q.cursor = 0
    BY QueueCapacityAssumption DEF QueueOK, CanEnqueue
<1>2. Enqueued(q, t).tasks = Append(q.tasks, t) /\ Enqueued(q, t).cursor = q.cursor
    BY DEF Enqueued
<1>3. /\ Len(Enqueued(q, t).tasks) = n + 1 /\ Enqueued(q, t).tasks[n + 1] = t
      /\ \A i \in 1..n : Enqueued(q, t).tasks[i] = q.tasks[i]
    BY <1>1, <1>2
<1>4. j \in 1..(n + 1) /\ j - 1 \in Nat /\ Weight(j - 1) \in Nat
    <2>1. j \in 1..(n + 1)
        BY <1>3
    <2>2. j - 1 \in Nat
        <3> HIDE DEF n
        <3> QED BY <1>1, <2>1
    <2> QED BY <2>1, <2>2, Weights
<1>5. Left(Enqueued(q, t), j) = Left(q, j)
    BY <1>2 DEF Left
<1>6. Left(q, j) \in Nat
    BY <1>1, <1>4 DEF Left
<1>7. CASE j = n + 1
    <2>0. j - 1 = n /\ ~(q.cursor > n)
        <3> HIDE DEF n
        <3> QED BY <1>1, <1>7
    <2>1. Left(q, j) = Weight(n) /\ Weight(n) <= Most
        <3>1. Left(q, j) = Weight(n) + 0
            BY <2>0 DEF Left
        <3>2. Weight(n) \in Nat /\ Weight(n) <= Most
            BY <1>1, Weights
        <3> QED BY <3>1, <3>2
    <2> QED BY <1>3, <1>5, <1>6, <1>7, <2>1
<1>8. CASE j \in 1..n
    BY <1>3, <1>5, <1>6, <1>8
<1> QED BY <1>1, <1>4, <1>7, <1>8

\* Nobody counts for a task that does not wait, and what a task has seen and
\* may still see stays within the bound.
FairInv ==
    /\ IInv
    /\ overtaken \in [TaskIds -> [TaskIds -> Nat]]
    /\ \A t, u \in TaskIds : (\A c \in Cpus : ~Waits(c, t)) => overtaken[t][u] = 0
    /\ \A c \in Cpus : \A i \in 1..Len(queues[c].tasks) : \A u \in TaskIds :
           Left(queues[c], i) \in Nat /\ overtaken[queues[c].tasks[i]][u] + Left(queues[c], i) <= Most

LEMMA FairStart == FairInit => FairInv
<1> SUFFICES ASSUME FairInit PROVE FairInv
    OBVIOUS
<1>1. IInv
    BY InitInvariant DEF FairInit
<1>2. overtaken \in [TaskIds -> [TaskIds -> Nat]] /\ \A t, u \in TaskIds : overtaken[t][u] = 0
    BY DEF FairInit
<1>3. \A c \in Cpus : Len(queues[c].tasks) = 0
    BY DEF FairInit, Init, NewQueue
<1> QED BY <1>1, <1>2, <1>3 DEF FairInv

\* What a step may do: after it every waiting task was waiting on the same CPU
\* and has no more left before it, and less when its CPU dispatched; or it
\* waits anew.
LEMMA FairAfter ==
    ASSUME FairInv, IInv', Observe,
           \A c \in Cpus : \A j \in 1..Len(queues'[c].tasks) :
               LET t == queues'[c].tasks[j] IN
               /\ Left(queues'[c], j) \in Nat
               /\ \/ (\A d \in Cpus : ~Waits(d, t)) /\ Left(queues'[c], j) <= Most
                  \/ \E i \in 1..Len(queues[c].tasks) :
                         /\ queues[c].tasks[i] = t
                         /\ Left(queues'[c], j) <= Left(queues[c], i)
                         /\ (\E u \in TaskIds : current'[c] = u /\ current[c] # u) =>
                                Left(queues'[c], j) < Left(queues[c], i)
    PROVE  FairInv'
<1>1. overtaken' = [t \in TaskIds |-> [u \in TaskIds |->
        IF \A c \in Cpus : ~(Waits(c, t) /\ Waits(c, t)') THEN 0
        ELSE IF \E c \in Cpus : Waits(c, t) /\ current'[c] = u /\ current[c] # u
        THEN overtaken[t][u] + 1
        ELSE overtaken[t][u]]]
    BY DEF Observe
<1>2. overtaken \in [TaskIds -> [TaskIds -> Nat]]
    BY DEF FairInv
<1>3. overtaken' \in [TaskIds -> [TaskIds -> Nat]]
    BY <1>1, <1>2
<1>4. ASSUME NEW t \in TaskIds, NEW u \in TaskIds
      PROVE  /\ (\A c \in Cpus : ~(Waits(c, t) /\ Waits(c, t)')) => overtaken'[t][u] = 0
             /\ overtaken'[t][u] \in {0, overtaken[t][u], overtaken[t][u] + 1}
             /\ overtaken'[t][u] \in {0, overtaken[t][u]} \/ \E c \in Cpus : Waits(c, t) /\ current'[c] = u /\ current[c] # u
    BY <1>1
<1>5. \A t, u \in TaskIds : (\A c \in Cpus : ~Waits(c, t)') => overtaken'[t][u] = 0
    BY <1>4
<1>6. ASSUME NEW c \in Cpus, NEW j \in 1..Len(queues'[c].tasks), NEW u \in TaskIds
      PROVE  overtaken'[queues'[c].tasks[j]][u] + Left(queues'[c], j) <= Most
    <2>1. PICK t, l : t = queues'[c].tasks[j] /\ l = Left(queues'[c], j)
        OBVIOUS
    <2>2. t \in TaskIds /\ l \in Nat
        <3>1. queues'[c].tasks \in Seq(TaskIds)
            BY DEF IInv, QueueOK
        <3> QED BY <2>1, <3>1
    <2>3. CASE (\A d \in Cpus : ~Waits(d, t)) /\ l <= Most
        <3>1. overtaken'[t][u] = 0
            BY <1>4, <2>2, <2>3
        <3> QED BY <2>1, <2>2, <2>3, <3>1
    <2>4. ASSUME NEW i \in 1..Len(queues[c].tasks), queues[c].tasks[i] = t, l <= Left(queues[c], i),
                 (\E v \in TaskIds : current'[c] = v /\ current[c] # v) => l < Left(queues[c], i)
          PROVE  overtaken'[t][u] + l <= Most
        <3>1. PICK k, o : k = Left(queues[c], i) /\ o = overtaken[t][u] /\ k \in Nat /\ o \in Nat /\ o + k <= Most
            BY <1>2, <2>2, <2>4 DEF FairInv
        <3>2. Waits(c, t) /\ \A d \in Cpus : Waits(d, t) => d = c
            <4>1. Waits(c, t)
                BY <2>4 DEF Waits, Contains
            <4> QED BY <2>2, <4>1 DEF FairInv, IInv, Waits
        <3>3. Most \in Nat
            BY Weights
        <3>a. l \in Nat /\ l <= k /\ k \in Nat /\ o \in Nat /\ o + k <= Most
            BY <2>2, <2>4, <3>1
        <3>4. CASE overtaken'[t][u] \in {0, o}
            BY ONLY <3>a, <3>3, <3>4
        <3>5. CASE \E d \in Cpus : Waits(d, t) /\ current'[d] = u /\ current[d] # u
            <4>1. l < k
                BY <2>4, <3>1, <3>2, <3>5
            <4>2. overtaken'[t][u] \in {0, o, o + 1}
                BY <1>4, <2>2, <3>1
            <4> QED BY ONLY <3>a, <3>3, <4>1, <4>2
        <3> QED BY <1>4, <2>2, <3>1, <3>4, <3>5
    <2> QED BY <2>1, <2>3, <2>4
<1> QED BY <1>3, <1>5, <1>6 DEF FairInv

\* A step of one CPU on its own queue, and one that leaves the queues alone.
LEMMA FairLocal ==
    ASSUME FairInv, IInv', Observe, NEW c \in Cpus, \A d \in Cpus \ {c} : queues'[d] = queues[d] /\ current'[d] = current[d],
           \A j \in 1..Len(queues'[c].tasks) :
               LET t == queues'[c].tasks[j] IN
               /\ Left(queues'[c], j) \in Nat
               /\ \/ (\A d \in Cpus : ~Waits(d, t)) /\ Left(queues'[c], j) <= Most
                  \/ \E i \in 1..Len(queues[c].tasks) :
                         /\ queues[c].tasks[i] = t
                         /\ Left(queues'[c], j) <= Left(queues[c], i)
                         /\ (\E u \in TaskIds : current'[c] = u /\ current[c] # u) =>
                                Left(queues'[c], j) < Left(queues[c], i)
    PROVE  FairInv'
<1>1. ASSUME NEW d \in Cpus, d # c, NEW j \in 1..Len(queues'[d].tasks)
      PROVE  /\ Left(queues'[d], j) \in Nat
             /\ \E i \in 1..Len(queues[d].tasks) :
                    /\ queues[d].tasks[i] = queues'[d].tasks[j]
                    /\ Left(queues'[d], j) <= Left(queues[d], i)
                    /\ ~(\E u \in TaskIds : current'[d] = u /\ current[d] # u)
    <2>1. queues'[d] = queues[d] /\ current'[d] = current[d]
        BY <1>1
    <2>2. TaskIds = {} \/ Left(queues[d], j) \in Nat
        BY <1>1, <2>1 DEF FairInv
    <2>3. queues[d].tasks[j] \in TaskIds
        BY <1>1, <2>1 DEF FairInv, IInv, QueueOK
    <2>4. PICK l \in Nat : l = Left(queues[d], j)
        BY <2>2, <2>3
    <2>5. l <= l
        OBVIOUS
    <2> QED BY <1>1, <2>1, <2>4, <2>5
<1> QED BY <1>1, FairAfter

LEMMA FairEnqueue == ASSUME FairInv, NEW t \in TaskIds, Enqueue(t), Observe PROVE FairInv'
<1>1. IInv /\ IInv'
    BY EnqueueInvariant DEF FairInv
<1>2. PICK offset \in ActiveCpus : LET c == CandidateAt(offset) IN
          CanEnqueue(queues[c], t) /\ queues' = [queues EXCEPT ![c] = Enqueued(queues[c], t)]
    BY DEF Enqueue
<1>3. PICK c \in Cpus : c = CandidateAt(offset)
    <2>1. cpu_count \in Nat \ {0} /\ cpu_count <= MAX_CPUS /\ next_assignment \in Nat /\ offset \in Nat
        BY <1>1, MaxCpusAssumption DEF IInv, ActiveCpus
    <2>2. next_assignment + offset \in Nat
        BY <2>1
    <2>3. (next_assignment + offset) % cpu_count \in 0..(cpu_count - 1)
        BY <2>1, <2>2, ModRange
    <2>4. 0..(cpu_count - 1) \subseteq Cpus
        BY <2>1, MaxCpusAssumption DEF Cpus
    <2> QED BY <2>3, <2>4 DEF CandidateAt
<1>4. CanEnqueue(queues[c], t) /\ queues' = [queues EXCEPT ![c] = Enqueued(queues[c], t)]
    BY <1>2, <1>3
<1>5. /\ queues'[c] = Enqueued(queues[c], t) /\ QueueOK(queues[c])
      /\ \A d \in Cpus \ {c} : queues'[d] = queues[d] /\ current'[d] = current[d]
      /\ current' = current
    BY <1>1, <1>4 DEF IInv, Enqueue
<1>6. \A d \in Cpus : ~Waits(d, t)
    BY <1>1, NotOwnedAnywhere DEF Enqueue, Waits
<1>7. ASSUME NEW j \in 1..Len(queues'[c].tasks)
      PROVE  /\ Left(queues'[c], j) \in Nat
             /\ \/ (\A d \in Cpus : ~Waits(d, queues'[c].tasks[j])) /\ Left(queues'[c], j) <= Most
                \/ \E i \in 1..Len(queues[c].tasks) :
                       /\ queues[c].tasks[i] = queues'[c].tasks[j]
                       /\ Left(queues'[c], j) <= Left(queues[c], i)
                       /\ ~(\E u \in TaskIds : current'[c] = u /\ current[c] # u)
    <2>1. /\ Left(queues'[c], j) \in Nat
          /\ \/ /\ j \in 1..Len(queues[c].tasks) /\ queues[c].tasks[j] = queues'[c].tasks[j]
                /\ Left(queues'[c], j) = Left(queues[c], j)
             \/ queues'[c].tasks[j] = t /\ Left(queues'[c], j) <= Most
        BY <1>4, <1>5, EnqueuedLeft
    <2>2. PICK l \in Nat : l = Left(queues'[c], j)
        BY <2>1
    <2>3. l <= l
        OBVIOUS
    <2> QED BY <1>5, <1>6, <2>1, <2>2, <2>3
<1> QED BY <1>1, <1>5, <1>7, FairLocal

LEMMA FairComplete == ASSUME FairInv, NEW c \in Cpus, Complete(c), Observe PROVE FairInv'
<1>1. IInv /\ IInv'
    BY CompleteInvariant DEF FairInv
<1>2. PICK t \in TaskIds : t = current[c]
    BY <1>1 DEF IInv, Complete
<1>3. \A d \in Cpus : ~Waits(d, t)
    BY <1>1, <1>2 DEF IInv, Waits
<1>4. CanEnqueue(queues[c], t) /\ QueueOK(queues[c])
    BY <1>1, <1>3, RoomForTask DEF IInv, Waits
<1>5. /\ queues'[c] = Enqueued(queues[c], t) /\ current'[c] = NoTask
      /\ \A d \in Cpus \ {c} : queues'[d] = queues[d] /\ current'[d] = current[d]
    BY <1>1, <1>2, <1>4 DEF IInv, Complete
<1>6. \A u \in TaskIds : current'[c] # u
    BY <1>5, TaskIdsAssumption DEF NoTask
<1>7. ASSUME NEW j \in 1..Len(queues'[c].tasks)
      PROVE  /\ Left(queues'[c], j) \in Nat
             /\ \/ (\A d \in Cpus : ~Waits(d, queues'[c].tasks[j])) /\ Left(queues'[c], j) <= Most
                \/ \E i \in 1..Len(queues[c].tasks) :
                       /\ queues[c].tasks[i] = queues'[c].tasks[j]
                       /\ Left(queues'[c], j) <= Left(queues[c], i)
                       /\ ~(\E u \in TaskIds : current'[c] = u /\ current[c] # u)
    <2>1. /\ Left(queues'[c], j) \in Nat
          /\ \/ /\ j \in 1..Len(queues[c].tasks) /\ queues[c].tasks[j] = queues'[c].tasks[j]
                /\ Left(queues'[c], j) = Left(queues[c], j)
             \/ queues'[c].tasks[j] = t /\ Left(queues'[c], j) <= Most
        BY <1>4, <1>5, EnqueuedLeft
    <2>2. PICK l \in Nat : l = Left(queues'[c], j)
        BY <2>1
    <2>3. l <= l
        OBVIOUS
    <2> QED BY <1>3, <1>6, <2>1, <2>2, <2>3
<1> QED BY <1>1, <1>5, <1>7, FairLocal

LEMMA FairDispatch == ASSUME FairInv, NEW c \in Cpus, DispatchLocal(c), Observe PROVE FairInv'
<1>1. IInv /\ IInv'
    BY DispatchLocalInvariant DEF FairInv
<1>2. /\ QueueOK(queues[c]) /\ Len(queues[c].tasks) > 0 /\ queues'[c] = Popped(queues[c])
      /\ \A d \in Cpus \ {c} : queues'[d] = queues[d] /\ current'[d] = current[d]
    BY <1>1 DEF IInv, DispatchLocal, Load
<1>3. ASSUME NEW j \in 1..Len(queues'[c].tasks)
      PROVE  /\ Left(queues'[c], j) \in Nat
             /\ \E i \in 1..Len(queues[c].tasks) :
                    /\ queues[c].tasks[i] = queues'[c].tasks[j]
                    /\ Left(queues'[c], j) <= Left(queues[c], i) /\ Left(queues'[c], j) < Left(queues[c], i)
    <2>1. PICK i \in 1..Len(queues[c].tasks) :
              /\ queues[c].tasks[i] = queues'[c].tasks[j]
              /\ Left(queues[c], i) \in Nat /\ Left(queues'[c], j) \in Nat /\ Left(queues'[c], j) < Left(queues[c], i)
        BY <1>2, PoppedNearer
    <2> QED BY <2>1
<1> QED BY <1>1, <1>2, <1>3, FairLocal

LEMMA FairStep == FairInv /\ [FairNext]_fairVars => FairInv'
<1> SUFFICES ASSUME FairInv, [FairNext]_fairVars PROVE FairInv'
    OBVIOUS
<1>1. ASSUME NEW n \in 0..(MAX_CPUS + 1), Configure(n), Observe PROVE FairInv'
    <2>1. IInv'
        BY <1>1, ConfigureInvariant DEF FairInv
    <2>2. \A c \in Cpus : Len(queues'[c].tasks) = 0
        BY <1>1 DEF Configure, NewQueue
    <2>3. \A c \in Cpus : 1..Len(queues'[c].tasks) = {}
        BY <2>2
    <2> QED BY <1>1, <2>1, <2>3, FairAfter
<1>2. CASE UNCHANGED fairVars
    <2>1. UNCHANGED vars /\ overtaken' = overtaken
        BY <1>2 DEF fairVars, vars
    <2>2. IInv'
        BY <2>1, StepInvariant DEF FairInv
    <2> QED BY <2>1, <2>2 DEF FairInv, vars, Waits, Contains, Cpus
<1>3. ASSUME NEW c \in Cpus, BoundedHandoff(c, FALSE), Observe PROVE FairInv'
    BY <1>3, FairComplete, FairDispatch DEF BoundedHandoff
<1> QED BY <1>1, <1>2, <1>3, FairEnqueue DEF FairNext

\* The cursor of CpuRunQueue starves no task, whatever the number of tasks and
\* CPUs: while a task waits, its CPU dispatches others less often than the
\* square of the queue's capacity, so no task overtakes it more often.
THEOREM NobodyStarves ==
    ASSUME OvertakingBound \in Nat, OvertakingBound >= MAX_RUN_QUEUE_TASKS * MAX_RUN_QUEUE_TASKS - 1
    PROVE  FairSpec => []BoundedOvertaking
<1>1. FairInit => FairInv
    BY FairStart
<1>2. FairInv /\ [FairNext]_fairVars => FairInv'
    BY FairStep
<1>3. FairInv => BoundedOvertaking
    <2> SUFFICES ASSUME FairInv, NEW t \in TaskIds, NEW u \in TaskIds PROVE overtaken[t][u] <= OvertakingBound
        BY DEF BoundedOvertaking
    <2>1. Most \in Nat /\ Most <= OvertakingBound
        BY Weights DEF Most
    <2>2. overtaken[t][u] \in Nat
        BY DEF FairInv
    <2>3. CASE \E c \in Cpus : Waits(c, t)
        <3>0. PICK c \in Cpus : Waits(c, t)
            BY <2>3
        <3>1. PICK i \in 1..Len(queues[c].tasks) : queues[c].tasks[i] = t
            BY <3>0 DEF Waits, Contains
        <3>2. Left(queues[c], i) \in Nat /\ overtaken[t][u] + Left(queues[c], i) <= Most
            BY <3>1 DEF FairInv
        <3> QED BY <2>1, <2>2, <3>2
    <2>4. CASE \A c \in Cpus : ~Waits(c, t)
        <3>1. overtaken[t][u] = 0
            BY <2>4 DEF FairInv
        <3> QED BY <2>1, <3>1
    <2> QED BY <2>3, <2>4
<1> QED BY <1>1, <1>2, <1>3, PTL DEF FairSpec

-----------------------------------------------------------------------------
(* Bring-up.                                                               *)

\* What the BSP writes into the mailbox for an AP.  The slot counter advances
\* with every attempt, so an AP's slot is its place in the plan.
ContextOf(a) == [stack |-> a, apic_id |-> a, cpu_slot |-> a, ready |-> a]
Contexts == [stack : Nat, apic_id : Nat, cpu_slot : Nat, ready : Nat]

\* The lifecycle of the plan, the programs of the APs and of the BSP, and the
\* mailbox have their types.
BringupTypeOK ==
    /\ lifecycle \in [BootAPs -> {"Discovered", "Starting", "Online", "Failed"}]
    /\ ap_slot \in [BootAPs -> Nat]
    /\ mailbox \in Contexts
    /\ ap \in [BootAPs -> [at : {"off", "trampoline", "arguments", "init", "acknowledge", "loop", "parked"},
                           ctx : Contexts]]
    /\ start_ack \in [BootAPs -> {AckNone, AckOnline, AckFailed}]
    /\ cpu_index \in [BootAPs -> Nat]
    /\ probe_ack \in [BootAPs -> BOOLEAN]
    /\ probeIpi \in [BootAPs -> BOOLEAN]
    /\ bsp \in [at : {"start", "sipi", "await", "probe", "answer", "unanswered", "configure", "done"},
                ap : BootAPs, slot : Nat, round : Nat, failed : BOOLEAN]

Started(a) == ap[a].at \in {"init", "acknowledge", "loop", "parked"}

\* APs are attempted one after another: those to come are untouched, and while
\* one is under way the mailbox is its own.
OneAtATime ==
    /\ bsp.at = "start" => bsp.slot = bsp.ap
    /\ bsp.at \in {"sipi", "await"} => /\ bsp.slot = bsp.ap + 1
                                       /\ mailbox = ContextOf(bsp.ap)
                                       /\ lifecycle[bsp.ap] = "Starting"
                                       /\ ap_slot[bsp.ap] = bsp.ap
    /\ bsp.at = "sipi" => ap[bsp.ap].at = "off" /\ start_ack[bsp.ap] = AckNone
    /\ \A a \in BootAPs :
        /\ bsp.at = "start" /\ a >= bsp.ap => ap[a].at = "off"
        /\ bsp.at \in {"sipi", "await"} /\ a > bsp.ap => ap[a].at = "off"

\* An AP that runs and is not yet online is the one the BSP waits for.
RunsAlone ==
    \A a \in BootAPs :
        ap[a].at # "off" /\ lifecycle[a] \notin {"Failed", "Online"} => bsp.at = "await" /\ bsp.ap = a

\* What an AP has read of the mailbox is its own, and it registers and
\* acknowledges in that order.
OwnContext ==
    \A a \in BootAPs :
        /\ ap[a].at = "arguments" => ap[a].ctx.stack = a
        /\ Started(a) => ap[a].ctx = ContextOf(a)
        /\ ap[a].at \in {"acknowledge", "loop"} => cpu_index[a] = a
        /\ start_ack[a] = AckOnline => ap[a].at = "loop"
        /\ lifecycle[a] = "Online" => ap[a].at = "loop" /\ ap_slot[a] = a

\* A probe that was acknowledged is not still on its way.
ProbeOnce == bsp.at = "answer" /\ probe_ack[bsp.ap] => ~probeIpi[bsp.ap]

\* Even an AP that comes late finds the APIC ID of some AP in the mailbox.
Filled(ctx) == ctx.ready \in BootAPs /\ ctx.apic_id \in BootAPs

SomeContext ==
    /\ bsp.at = "sipi" => Filled(mailbox)
    /\ \A a \in BootAPs : /\ ap[a].at # "off" => Filled(mailbox)
                          /\ Started(a) => Filled(ap[a].ctx)

\* The inductive invariant of bring-up, and the one that holds even if APs
\* come late.
BringupInv == BringupTypeOK /\ OneAtATime /\ RunsAlone /\ OwnContext /\ ProbeOnce
ProbeInv == BringupTypeOK /\ SomeContext /\ ProbeOnce

BspStates == [at : {"start", "sipi", "await", "probe", "answer", "unanswered", "configure", "done"},
              ap : BootAPs, slot : Nat, round : Nat, failed : BOOLEAN]
ApStates == [at : {"off", "trampoline", "arguments", "init", "acknowledge", "loop", "parked"},
             ctx : Contexts]

\* After an attempt the BSP goes on with the next AP of the plan and the same
\* slot counter, or with the probes.
LEMMA NextStartFacts ==
    ASSUME BringupTypeOK
    PROVE  /\ NextStart \in BspStates
           /\ NextStart.at \in {"start", "probe"} /\ NextStart.slot = bsp.slot
           /\ NextStart.at = "start" => NextStart.ap = bsp.ap + 1
<1>1. bsp \in BspStates /\ 1 \in BootAPs
    BY ApCountAssumption DEF BringupTypeOK, BspStates, BootAPs
<1>2. CASE bsp.ap = ApCount
    <2>1. NextStart = [bsp EXCEPT !.at = "probe", !.ap = 1]
        BY <1>2 DEF NextStart
    <2> QED BY <1>1, <2>1 DEF BspStates
<1>3. CASE bsp.ap # ApCount
    <2>1. bsp.ap + 1 \in BootAPs
        BY <1>1, <1>3, ApCountAssumption DEF BspStates, BootAPs
    <2>2. NextStart = [bsp EXCEPT !.at = "start", !.ap = bsp.ap + 1]
        BY <1>3 DEF NextStart
    <2> QED BY <1>1, <2>1, <2>2 DEF BspStates
<1> QED BY <1>2, <1>3

\* After a probe the BSP goes on with the probes, configures or is done.
LEMMA NextProbeFacts ==
    ASSUME BringupTypeOK, NEW failed \in BOOLEAN
    PROVE  /\ NextProbe(failed) \in BspStates
           /\ NextProbe(failed).at \in {"probe", "configure", "done"}
<1>1. bsp \in BspStates /\ 1 \in BootAPs
    BY ApCountAssumption DEF BringupTypeOK, BspStates, BootAPs
<1>2. CASE bsp.ap < ApCount
    <2>1. bsp.ap + 1 \in BootAPs
        BY <1>1, <1>2, ApCountAssumption DEF BspStates, BootAPs
    <2>2. NextProbe(failed) = [bsp EXCEPT !.at = "probe", !.ap = bsp.ap + 1, !.failed = failed]
        BY <1>2 DEF NextProbe
    <2> QED BY <1>1, <2>1, <2>2 DEF BspStates
<1>3. CASE ~(bsp.ap < ApCount)
    <2>1. PICK at \in {"probe", "configure", "done"} :
              NextProbe(failed) = [bsp EXCEPT !.at = at, !.ap = 1, !.round = bsp.round + 1, !.failed = FALSE]
        BY <1>3 DEF NextProbe
    <2>2. bsp.round + 1 \in Nat
        BY <1>1 DEF BspStates
    <2> HIDE DEF NextProbe
    <2> QED BY <1>1, <2>1, <2>2 DEF BspStates
<1> QED BY <1>2, <1>3

\* The boot plan before the first attempt.
LEMMA BringupTypeInit == BringupInit => BringupTypeOK
<1> SUFFICES ASSUME BringupInit
             PROVE  BringupTypeOK
    OBVIOUS
<1>1. bsp \in BspStates
    BY ApCountAssumption DEF BringupInit, BspStates, BootAPs
<1>2. NoContext \in Contexts
    BY DEF NoContext, Contexts, None
<1> QED BY <1>1, <1>2 DEF BringupInit, BringupTypeOK, BspStates, AckNone, None

\* The steps of the BSP keep the types.
LEMMA BspTypes ==
    ASSUME BringupTypeOK, BspStep
    PROVE  BringupTypeOK'
<1> USE DEF Mark, AckNone, AckOnline, AckFailed
<1>0. bsp \in BspStates /\ bsp.slot + 1 \in Nat
    BY DEF BringupTypeOK, BspStates
<1>1. CASE StartWide
    <2>1. bsp' \in BspStates
        BY <1>0, <1>1, NextStartFacts DEF StartWide, BspStates
    <2> QED BY <1>1, <2>1 DEF StartWide, BringupTypeOK, apVars, probeVars, BspStates
<1>2. CASE WriteMailbox
    <2>1. bsp' \in BspStates
        BY <1>0, <1>2 DEF WriteMailbox, BspStates
    <2>2. mailbox' \in Contexts
        BY <1>2 DEF WriteMailbox, BringupTypeOK, Contexts, BootAPs
    <2> QED BY <1>2, <2>1, <2>2 DEF WriteMailbox, BringupTypeOK, probeVars, BspStates
<1>3. ASSUME NEW sent \in BOOLEAN, NEW received \in BOOLEAN, SendInitSipi(sent, received)
      PROVE  BringupTypeOK'
    <2>1. bsp' \in BspStates
        BY <1>3, NextStartFacts DEF SendInitSipi, BspStates, BringupTypeOK
    <2>2. ap' \in [BootAPs -> ApStates]
        BY <1>3 DEF SendInitSipi, BringupTypeOK, ApStates
    <2> QED BY <1>3, <2>1, <2>2 DEF SendInitSipi, BringupTypeOK, probeVars, BspStates, ApStates
<1>4. CASE AwaitAck \/ StartTimesOut
    BY <1>4, NextStartFacts DEF AwaitAck, StartTimesOut, BringupTypeOK, apVars, probeVars, BspStates
<1>5. CASE SkipProbe \/ ProbeAnswered \/ ProbeUnanswered
    <2>1. bsp' \in BspStates
        BY <1>5, NextProbeFacts DEF SkipProbe, ProbeAnswered, ProbeUnanswered, BspStates, BringupTypeOK
    <2> QED BY <1>5, <2>1 DEF SkipProbe, ProbeAnswered, ProbeUnanswered, BringupTypeOK,
                              apVars, probeVars, BspStates
<1>6. CASE ConfigureQueues
    BY <1>6 DEF ConfigureQueues, BringupTypeOK, apVars, probeVars
<1>7. ASSUME NEW sent \in BOOLEAN, SendProbe(sent)
      PROVE  BringupTypeOK'
    <2>1. bsp' \in BspStates
        BY <1>7 DEF SendProbe, BspStates, BringupTypeOK
    <2> QED BY <1>7, <2>1 DEF SendProbe, BringupTypeOK, apVars, BspStates
<1> QED BY <1>1, <1>2, <1>3, <1>4, <1>5, <1>6, <1>7 DEF BspStep

\* An AP touches only what the mailbox gave it.
LEMMA ApTypes ==
    ASSUME BringupTypeOK, NEW a \in BootAPs, Started(a) => Filled(ap[a].ctx), ApStep(a)
    PROVE  BringupTypeOK'
<1> USE DEF Runs, Started, Filled, AckNone, AckOnline, AckFailed
<1>1. CASE LoadStack(a)
    <2>1. mailbox.stack \in Nat /\ ap[a].ctx \in Contexts
        BY DEF BringupTypeOK, Contexts
    <2>2. ap' = [ap EXCEPT ![a] = [at |-> "arguments", ctx |-> [ap[a].ctx EXCEPT !.stack = mailbox.stack]]]
        BY <1>1 DEF LoadStack, BringupTypeOK
    <2>3. ap' \in [BootAPs -> ApStates]
        BY <2>1, <2>2 DEF BringupTypeOK, ApStates, Contexts
    <2> QED BY <1>1, <2>3 DEF LoadStack, BringupTypeOK, probeVars, ApStates
<1>2. CASE LoadArguments(a)
    <2>1. [mailbox EXCEPT !.stack = ap[a].ctx.stack] \in Contexts
        BY DEF BringupTypeOK, Contexts
    <2>2. ap' \in [BootAPs -> ApStates]
        BY <1>2, <2>1 DEF LoadArguments, BringupTypeOK, ApStates
    <2> QED BY <1>2, <2>2 DEF LoadArguments, BringupTypeOK, probeVars, ApStates
<1>3. ASSUME NEW at \in {"acknowledge", "loop", "parked"}, ap' = [ap EXCEPT ![a].at = at]
      PROVE  ap' \in [BootAPs -> ApStates]
    BY <1>3 DEF BringupTypeOK, ApStates
<1>4. CASE InitSucceeds(a)
    <2>1. ap[a].ctx.cpu_slot \in Nat
        BY DEF BringupTypeOK, Contexts
    <2> QED BY <1>3, <1>4, <2>1 DEF InitSucceeds, BringupTypeOK, probeVars, ApStates
<1>5. CASE InitFails(a) \/ Acknowledge(a)
    <2>1. ap' \in [BootAPs -> ApStates]
        BY <1>3, <1>5 DEF InitFails, Acknowledge
    <2> QED BY <1>5, <2>1 DEF InitFails, Acknowledge, BringupTypeOK, probeVars, ApStates
<1>6. CASE TakeProbe(a)
    BY <1>6 DEF TakeProbe, BringupTypeOK, apVars
<1> QED BY <1>1, <1>2, <1>4, <1>5, <1>6 DEF ApStep

\* What the BSP does about one AP leaves the others, started or to come, as
\* they are.
LEMMA BspKeeps ==
    ASSUME BringupInv, BspStep
    PROVE  OneAtATime' /\ RunsAlone' /\ OwnContext' /\ ProbeOnce'
<1> DEFINE Kept == OneAtATime' /\ RunsAlone' /\ OwnContext' /\ ProbeOnce'
<1> USE DEF BringupInv, Mark, Started, AckNone, AckOnline, AckFailed
<1>0. /\ bsp.ap \in BootAPs /\ bsp.ap \in Nat /\ bsp.slot \in Nat
      /\ bsp \in BspStates /\ \A a \in BootAPs : a \in Nat
    BY DEF BringupTypeOK, BspStates, BootAPs
<1>1. CASE StartWide
    <2>1. /\ bsp'.at \in {"start", "probe"} /\ bsp'.slot = bsp.slot + 1
          /\ bsp'.at = "start" => bsp'.ap = bsp.ap + 1
        BY <1>0, <1>1, NextStartFacts DEF StartWide, BspStates
    <2>2. /\ bsp.at = "start" /\ UNCHANGED <<mailbox, ap, start_ack, cpu_index, probe_ack, probeIpi>>
          /\ ap_slot' = [ap_slot EXCEPT ![bsp.ap] = bsp.slot]
          /\ lifecycle' = [lifecycle EXCEPT ![bsp.ap] = "Failed"]
        BY <1>1 DEF StartWide, apVars, probeVars
    <2>3. OneAtATime'
        BY <1>0, <2>1, <2>2 DEF OneAtATime, BringupTypeOK
    <2>4. RunsAlone' /\ OwnContext' /\ ProbeOnce'
        BY <1>0, <2>1, <2>2 DEF RunsAlone, OwnContext, ProbeOnce, OneAtATime, BringupTypeOK, ContextOf
    <2> QED BY <2>3, <2>4
<1>2. CASE WriteMailbox
    <2>1. bsp'.at = "sipi" /\ bsp'.ap = bsp.ap /\ bsp'.slot = bsp.slot + 1
        BY <1>0, <1>2 DEF WriteMailbox, BspStates
    <2>2. /\ bsp.at = "start" /\ UNCHANGED <<ap, cpu_index, probe_ack, probeIpi>>
          /\ ap_slot' = [ap_slot EXCEPT ![bsp.ap] = bsp.slot]
          /\ lifecycle' = [lifecycle EXCEPT ![bsp.ap] = "Starting"]
          /\ start_ack' = [start_ack EXCEPT ![bsp.ap] = AckNone]
          /\ mailbox' = [stack |-> bsp.ap, apic_id |-> bsp.ap, cpu_slot |-> bsp.slot, ready |-> bsp.ap]
        BY <1>2 DEF WriteMailbox, probeVars
    <2>3. bsp.slot = bsp.ap /\ ap[bsp.ap].at = "off" /\ mailbox' = ContextOf(bsp.ap)
        BY <1>0, <2>2 DEF OneAtATime, ContextOf
    <2>4. OneAtATime'
        BY <1>0, <2>1, <2>2, <2>3 DEF OneAtATime, BringupTypeOK, ContextOf
    <2>5. RunsAlone' /\ OwnContext' /\ ProbeOnce'
        BY <1>0, <2>1, <2>2, <2>3 DEF RunsAlone, OwnContext, ProbeOnce, OneAtATime, BringupTypeOK, ContextOf
    <2> QED BY <2>4, <2>5
<1>3. ASSUME NEW sent \in BOOLEAN, NEW received \in BOOLEAN, SendInitSipi(sent, received)
      PROVE  Kept
    <2>1. /\ bsp.at = "sipi" /\ UNCHANGED <<mailbox, ap_slot, start_ack, cpu_index, probe_ack, probeIpi>>
          /\ ap' = IF received THEN [ap EXCEPT ![bsp.ap].at = "trampoline"] ELSE ap
        BY <1>3 DEF SendInitSipi, probeVars
    <2>2. /\ \A a \in BootAPs \ {bsp.ap} : ap'[a] = ap[a]
          /\ ap'[bsp.ap].at \in {"off", "trampoline"} /\ ap[bsp.ap].at = "off"
        BY <1>0, <2>1 DEF OneAtATime, BringupTypeOK
    <2>3. CASE sent
        <3>1. bsp'.at = "await" /\ bsp'.ap = bsp.ap /\ bsp'.slot = bsp.slot /\ UNCHANGED lifecycle
            BY <1>0, <1>3, <2>3 DEF SendInitSipi, BspStates
        <3>2. OneAtATime'
            BY <1>0, <2>1, <2>2, <3>1 DEF OneAtATime, ContextOf
        <3>3. RunsAlone' /\ OwnContext' /\ ProbeOnce'
            BY <1>0, <2>1, <2>2, <3>1 DEF RunsAlone, OwnContext, ProbeOnce, OneAtATime, ContextOf
        <3> QED BY <3>2, <3>3
    <2>4. CASE ~sent
        <3>1. /\ bsp'.at \in {"start", "probe"} /\ bsp'.slot = bsp.slot
              /\ bsp'.at = "start" => bsp'.ap = bsp.ap + 1
              /\ lifecycle' = [lifecycle EXCEPT ![bsp.ap] = "Failed"]
            BY <1>3, <2>4, NextStartFacts DEF SendInitSipi
        <3>2. OneAtATime'
            BY <1>0, <2>1, <2>2, <3>1 DEF OneAtATime
        <3>3. RunsAlone' /\ OwnContext' /\ ProbeOnce'
            BY <1>0, <2>1, <2>2, <3>1 DEF RunsAlone, OwnContext, ProbeOnce, OneAtATime, BringupTypeOK, ContextOf
        <3> QED BY <3>2, <3>3
    <2> QED BY <2>3, <2>4
<1>4. CASE AwaitAck \/ StartTimesOut
    <2>1. /\ bsp.at = "await" /\ UNCHANGED <<mailbox, ap, ap_slot, start_ack, cpu_index, probe_ack, probeIpi>>
          /\ bsp'.at \in {"start", "probe"} /\ bsp'.slot = bsp.slot
          /\ bsp'.at = "start" => bsp'.ap = bsp.ap + 1
          /\ \/ lifecycle' = [lifecycle EXCEPT ![bsp.ap] = "Failed"]
             \/ lifecycle' = [lifecycle EXCEPT ![bsp.ap] = "Online"] /\ start_ack[bsp.ap] = AckOnline
        BY <1>4, NextStartFacts DEF AwaitAck, StartTimesOut, apVars, probeVars
    <2>2. OneAtATime'
        BY <1>0, <2>1 DEF OneAtATime
    <2>3. RunsAlone' /\ OwnContext' /\ ProbeOnce'
        BY <1>0, <2>1 DEF RunsAlone, OwnContext, ProbeOnce, OneAtATime, BringupTypeOK, ContextOf
    <2> QED BY <2>2, <2>3
<1>5. CASE SkipProbe \/ ProbeAnswered \/ ProbeUnanswered
    <2>1. /\ bsp.at \in {"probe", "answer", "unanswered"}
          /\ UNCHANGED <<mailbox, ap, ap_slot, start_ack, cpu_index, probe_ack, probeIpi>>
          /\ bsp'.at \in {"probe", "configure", "done"}
          /\ UNCHANGED lifecycle \/ lifecycle' = [lifecycle EXCEPT ![bsp.ap] = "Failed"]
        BY <1>5, NextProbeFacts, <1>0 DEF SkipProbe, ProbeAnswered, ProbeUnanswered, apVars, probeVars, BspStates
    <2> QED BY <1>0, <2>1 DEF RunsAlone, OwnContext, ProbeOnce, OneAtATime, BringupTypeOK, ContextOf
<1>6. CASE ConfigureQueues
    <2>1. /\ UNCHANGED <<lifecycle, mailbox, ap, ap_slot, start_ack, cpu_index, probe_ack, probeIpi>>
          /\ bsp.at = "configure" /\ bsp'.at = "probe"
        BY <1>0, <1>6 DEF ConfigureQueues, apVars, probeVars, BspStates
    <2> QED BY <1>0, <2>1 DEF RunsAlone, OwnContext, ProbeOnce, OneAtATime, ContextOf
<1>7. ASSUME NEW sent \in BOOLEAN, SendProbe(sent)
      PROVE  Kept
    <2>1. /\ UNCHANGED <<lifecycle, mailbox, ap, ap_slot, start_ack, cpu_index>>
          /\ bsp.at = "probe" /\ bsp'.at \in {"answer", "unanswered"} /\ bsp'.ap = bsp.ap
          /\ probe_ack'[bsp.ap] = FALSE
        BY <1>0, <1>7 DEF SendProbe, apVars, BspStates, BringupTypeOK
    <2> QED BY <1>0, <2>1 DEF RunsAlone, OwnContext, ProbeOnce, OneAtATime, ContextOf
<1> QED BY <1>1, <1>2, <1>3, <1>4, <1>5, <1>6, <1>7 DEF BspStep

\* An AP whose start did not fail runs while the BSP waits for it, with the
\* mailbox as it was filled for it.
LEMMA ApKeeps ==
    ASSUME ~LateStart, BringupInv, NEW a \in BootAPs, ApStep(a)
    PROVE  OneAtATime' /\ RunsAlone' /\ OwnContext' /\ ProbeOnce'
<1> USE DEF BringupInv, Started, AckNone, AckOnline, AckFailed
<1>0. bsp.ap \in BootAPs /\ \A b \in BootAPs : b \in Nat
    BY DEF BringupTypeOK, BootAPs
<1>1. ASSUME NEW where \in {"trampoline", "arguments", "init", "acknowledge"}, Runs(a, where)
      PROVE  bsp.at = "await" /\ bsp.ap = a /\ mailbox = ContextOf(a)
    BY <1>1 DEF Runs, RunsAlone, OwnContext, OneAtATime
<1>2. CASE LoadStack(a)
    <2>1. /\ ap' = [ap EXCEPT ![a] = [at |-> "arguments", ctx |-> [ap[a].ctx EXCEPT !.stack = mailbox.stack]]]
          /\ UNCHANGED <<lifecycle, ap_slot, mailbox, start_ack, cpu_index, probe_ack, probeIpi, bsp>>
          /\ ap[a].at = "trampoline"
        BY <1>2 DEF LoadStack, Runs, probeVars, BringupTypeOK
    <2>2. bsp.at = "await" /\ bsp.ap = a /\ mailbox = ContextOf(a)
        BY <1>1, <1>2 DEF LoadStack
    <2>3. ap'[a].at = "arguments" /\ ap'[a].ctx.stack = a /\ \A b \in BootAPs \ {a} : ap'[b] = ap[b]
        BY <2>1, <2>2 DEF BringupTypeOK, ContextOf, Contexts
    <2> QED BY <1>0, <2>1, <2>2, <2>3 DEF RunsAlone, OwnContext, ProbeOnce, OneAtATime, ContextOf
<1>3. CASE LoadArguments(a)
    <2>1. /\ ap' = [ap EXCEPT ![a] = [at |-> "init", ctx |-> [mailbox EXCEPT !.stack = ap[a].ctx.stack]]]
          /\ UNCHANGED <<lifecycle, ap_slot, mailbox, start_ack, cpu_index, probe_ack, probeIpi, bsp>>
          /\ ap[a].at = "arguments"
        BY <1>3 DEF LoadArguments, Runs, probeVars
    <2>2. bsp.at = "await" /\ bsp.ap = a /\ mailbox = ContextOf(a)
        BY <1>1, <1>3 DEF LoadArguments
    <2>3. [mailbox EXCEPT !.stack = ap[a].ctx.stack] = ContextOf(a)
        BY <2>1, <2>2 DEF OwnContext, ContextOf
    <2>4. ap'[a].at = "init" /\ ap'[a].ctx = ContextOf(a) /\ \A b \in BootAPs \ {a} : ap'[b] = ap[b]
        BY <2>1, <2>3 DEF BringupTypeOK
    <2> QED BY <1>0, <2>1, <2>2, <2>4 DEF RunsAlone, OwnContext, ProbeOnce, OneAtATime
<1>4. CASE InitSucceeds(a) \/ InitFails(a) \/ Acknowledge(a)
    <2>1. bsp.at = "await" /\ bsp.ap = a
        BY <1>1, <1>4 DEF InitSucceeds, InitFails, Acknowledge
    <2>2. ap[a].ctx = ContextOf(a) /\ ap[a].at \in {"init", "acknowledge"}
        BY <1>4 DEF InitSucceeds, InitFails, Acknowledge, Runs, OwnContext
    <2>3. ap[a].ctx.ready = a /\ ap[a].ctx.apic_id = a /\ ap[a].ctx.cpu_slot = a
        BY <2>2 DEF ContextOf
    <2>4. /\ UNCHANGED <<lifecycle, ap_slot, mailbox, probe_ack, probeIpi, bsp>>
          /\ \A b \in BootAPs \ {a} : ap'[b] = ap[b] /\ start_ack'[b] = start_ack[b] /\ cpu_index'[b] = cpu_index[b]
        BY <1>4, <2>3 DEF InitSucceeds, InitFails, Acknowledge, probeVars, BringupTypeOK
    <2>5. /\ ap'[a].ctx = ContextOf(a)
          /\ \/ ap'[a].at = "acknowledge" /\ cpu_index'[a] = a /\ start_ack'[a] = start_ack[a]
             \/ ap'[a].at = "parked" /\ start_ack'[a] = AckFailed
             \/ ap'[a].at = "loop" /\ cpu_index'[a] = cpu_index[a] /\ ap[a].at = "acknowledge"
        BY <1>4, <2>2, <2>3 DEF InitSucceeds, InitFails, Acknowledge, Runs, BringupTypeOK
    <2> QED BY <1>0, <2>1, <2>2, <2>4, <2>5 DEF RunsAlone, OwnContext, ProbeOnce, OneAtATime
<1>5. CASE TakeProbe(a)
    <2>1. /\ UNCHANGED <<lifecycle, ap_slot, mailbox, ap, start_ack, cpu_index, bsp>>
          /\ probeIpi' = [probeIpi EXCEPT ![a] = FALSE]
          /\ probe_ack' = [probe_ack EXCEPT ![a] = TRUE]
        BY <1>5 DEF TakeProbe, apVars
    <2> QED BY <1>0, <2>1 DEF RunsAlone, OwnContext, ProbeOnce, OneAtATime, ContextOf, BringupTypeOK
<1> QED BY <1>2, <1>3, <1>4, <1>5 DEF ApStep

\* The inductive invariant holds throughout bring-up if no AP comes late.
LEMMA BringupInvariant ==
    ASSUME ~LateStart
    PROVE  BringupSpec => []BringupInv
<1>1. BringupInit => BringupInv
    BY BringupTypeInit DEF BringupInit, BringupInv, OneAtATime, RunsAlone, OwnContext, ProbeOnce, Started,
                           AckNone, AckOnline
<1>2. BringupInv /\ [BringupNext]_bringupVars => BringupInv'
    <2> SUFFICES ASSUME BringupInv, [BringupNext]_bringupVars
                 PROVE  BringupInv'
        OBVIOUS
    <2>1. CASE BspStep
        BY <2>1, BspTypes, BspKeeps DEF BringupInv
    <2>2. ASSUME NEW a \in BootAPs, ApStep(a)
          PROVE  BringupInv'
        <3>1. Started(a) => Filled(ap[a].ctx)
            <4>1. Started(a) => ap[a].ctx = ContextOf(a)
                BY DEF BringupInv, OwnContext
            <4>2. Filled(ContextOf(a))
                BY DEF Filled, ContextOf
            <4> QED BY <4>1, <4>2
        <3> QED BY <2>2, <3>1, ApTypes, ApKeeps DEF BringupInv
    <2>3. CASE UNCHANGED bringupVars
        BY <2>3 DEF BringupInv, BringupTypeOK, OneAtATime, RunsAlone, OwnContext, ProbeOnce, Started,
                    bringupVars, apVars, probeVars
    <2> QED BY <2>1, <2>2, <2>3 DEF BringupNext
<1> QED BY <1>1, <1>2, PTL DEF BringupSpec

\* Two APs that have left the trampoline never share a slot or a stack, and an
\* AP that the plan calls online runs on the slot that is registered for it,
\* for any number of APs, provided that an AP given up for dead stays away.
THEOREM SlotsAlwaysAgree ==
    ASSUME ~LateStart
    PROVE  BringupSpec => []SlotsAgree
<1>1. BringupInv => SlotsAgree
    <2> SUFFICES ASSUME BringupInv
                 PROVE  SlotsAgree
        OBVIOUS
    <2>1. ASSUME NEW a \in BootAPs, Started(a)
          PROVE  ap[a].ctx.cpu_slot = a /\ ap[a].ctx.stack = a
        <3>1. ap[a].ctx = ContextOf(a)
            BY <2>1 DEF BringupInv, OwnContext
        <3> QED BY <3>1 DEF ContextOf
    <2>2. PrivateSlots
        BY <2>1 DEF PrivateSlots, Started
    <2>3. OnlineIsRegistered
        BY <2>1 DEF OnlineIsRegistered, BringupInv, OwnContext, Started
    <2> QED BY <2>2, <2>3 DEF SlotsAgree
<1> QED BY <1>1, BringupInvariant, PTL

\* Types and probes do not depend on which AP read which mailbox: an
\* acknowledgement is cleared before its probe is sent, and set when it is taken.
LEMMA ProbeInvariant == BringupSpec => []ProbeInv
<1>1. BringupInit => ProbeInv
    BY BringupTypeInit DEF BringupInit, ProbeInv, SomeContext, ProbeOnce, Started
<1>2. BringupTypeOK /\ SomeContext /\ [BringupNext]_bringupVars => BringupTypeOK'
    <2>1. CASE UNCHANGED bringupVars
        BY <2>1 DEF BringupTypeOK, bringupVars, apVars, probeVars
    <2> QED BY <2>1, BspTypes, ApTypes DEF BringupNext, SomeContext
<1>3. ProbeInv /\ [BringupNext]_bringupVars => SomeContext'
    <2> SUFFICES ASSUME ProbeInv, [BringupNext]_bringupVars
                 PROVE  SomeContext'
        OBVIOUS
    <2> USE DEF ProbeInv, BringupTypeOK, Started
    <2>1. CASE WriteMailbox
        <3>1. UNCHANGED ap /\ Filled(mailbox)'
            BY <2>1 DEF WriteMailbox, Filled
        <3> QED BY <3>1 DEF SomeContext, Filled
    <2>2. ASSUME NEW sent \in BOOLEAN, NEW received \in BOOLEAN, SendInitSipi(sent, received)
          PROVE  SomeContext'
        <3>1. UNCHANGED mailbox /\ Filled(mailbox)
            BY <2>2 DEF SendInitSipi, SomeContext
        <3>2. \A a \in BootAPs : ap'[a] = ap[a] \/ ap'[a].at = "trampoline"
            BY <2>2 DEF SendInitSipi
        <3> QED BY <3>1, <3>2 DEF SomeContext, Filled
    <2>3. ASSUME NEW a \in BootAPs, ApStep(a)
          PROVE  SomeContext'
        <3>1. UNCHANGED <<mailbox, bsp>>
            BY <2>3 DEF ApStep, LoadStack, LoadArguments, InitSucceeds, InitFails, Acknowledge, TakeProbe
        <3>2. CASE UNCHANGED ap
            BY <3>1, <3>2 DEF SomeContext, Filled
        <3>3. CASE ap' # ap
            <4>1. ap[a].at # "off" /\ Filled(mailbox)
                BY <2>3, <3>3 DEF ApStep, LoadStack, LoadArguments, InitSucceeds, InitFails, Acknowledge,
                                  TakeProbe, Runs, apVars, SomeContext
            <4>2. \/ ap'[a].at = "arguments"
                  \/ Filled(ap'[a].ctx)
                <5>1. CASE LoadStack(a)
                    BY <5>1 DEF LoadStack
                <5>2. CASE LoadArguments(a)
                    <6>1. ap'[a].ctx = [mailbox EXCEPT !.stack = ap[a].ctx.stack]
                        BY <5>2 DEF LoadArguments
                    <6> QED BY <4>1, <6>1 DEF Filled, Contexts
                <5>3. CASE InitSucceeds(a) \/ InitFails(a) \/ Acknowledge(a)
                    <6>1. ap'[a].ctx = ap[a].ctx /\ Started(a)
                        BY <5>3 DEF InitSucceeds, InitFails, Acknowledge, Runs
                    <6> QED BY <6>1 DEF SomeContext, Filled
                <5> QED BY <2>3, <3>3, <5>1, <5>2, <5>3 DEF ApStep, TakeProbe, apVars
            <4>3. \A b \in BootAPs \ {a} : ap'[b] = ap[b]
                BY <2>3, <3>3 DEF ApStep, LoadStack, LoadArguments, InitSucceeds, InitFails, Acknowledge,
                                  TakeProbe, apVars
            <4> QED BY <3>1, <4>1, <4>2, <4>3 DEF SomeContext, Filled
        <3> QED BY <3>2, <3>3
    <2>4. ASSUME UNCHANGED <<mailbox, ap>>, bsp'.at # "sipi" \/ UNCHANGED bsp
          PROVE  SomeContext'
        BY <2>4 DEF SomeContext, Filled
    <2>5. CASE \/ StartWide \/ AwaitAck \/ StartTimesOut \/ SkipProbe \/ ProbeAnswered \/ ProbeUnanswered
               \/ ConfigureQueues \/ \E sent \in BOOLEAN : SendProbe(sent)
        <3>1. bsp \in BspStates
            BY DEF BspStates
        <3>2. bsp'.at # "sipi"
            BY <2>5, <3>1, NextStartFacts, NextProbeFacts DEF StartWide, AwaitAck, StartTimesOut, SkipProbe,
                ProbeAnswered, ProbeUnanswered, ConfigureQueues, SendProbe, BspStates
        <3>3. UNCHANGED <<mailbox, ap>>
            BY <2>5 DEF StartWide, AwaitAck, StartTimesOut, SkipProbe, ProbeAnswered, ProbeUnanswered,
                        ConfigureQueues, SendProbe, apVars
        <3> QED BY <2>4, <3>2, <3>3
    <2>6. CASE UNCHANGED bringupVars
        BY <2>4, <2>6 DEF bringupVars, apVars
    <2> QED BY <2>1, <2>2, <2>3, <2>5, <2>6 DEF BringupNext, BspStep
<1>4. ProbeInv /\ [BringupNext]_bringupVars => ProbeOnce'
    <2> SUFFICES ASSUME ProbeInv, [BringupNext]_bringupVars
                 PROVE  ProbeOnce'
        OBVIOUS
    <2>0. bsp \in BspStates
        BY DEF BspStates, ProbeInv, BringupTypeOK
    <2>1. ASSUME NEW sent \in BOOLEAN, SendProbe(sent)
          PROVE  ProbeOnce'
        <3>1. bsp'.ap = bsp.ap /\ probe_ack'[bsp.ap] = FALSE
            BY <2>0, <2>1 DEF SendProbe, ProbeInv, BringupTypeOK, BspStates
        <3> QED BY <3>1 DEF ProbeOnce
    <2>2. ASSUME NEW a \in BootAPs, TakeProbe(a)
          PROVE  ProbeOnce'
        BY <2>2 DEF TakeProbe, ProbeOnce, ProbeInv, BringupTypeOK
    <2>3. ASSUME UNCHANGED <<bsp, probe_ack, probeIpi>> \/ bsp'.at # "answer"
          PROVE  ProbeOnce'
        <3>1. CASE UNCHANGED <<bsp, probe_ack, probeIpi>>
            BY <3>1 DEF ProbeOnce, ProbeInv
        <3>2. CASE bsp'.at # "answer"
            BY <3>2 DEF ProbeOnce
        <3> QED BY <2>3, <3>1, <3>2
    <2>4. CASE BspStep /\ ~\E sent \in BOOLEAN : SendProbe(sent)
        <3>1. bsp'.at # "answer"
            BY <2>0, <2>4, NextStartFacts, NextProbeFacts DEF BspStep, StartWide, WriteMailbox, AwaitAck,
                StartTimesOut, SendInitSipi, SkipProbe, ProbeAnswered, ProbeUnanswered, ConfigureQueues,
                BspStates, ProbeInv
        <3> QED BY <2>3, <3>1
    <2>5. ASSUME NEW a \in BootAPs, ApStep(a), ~TakeProbe(a)
          PROVE  ProbeOnce'
        BY <2>3, <2>5 DEF ApStep, LoadStack, LoadArguments, InitSucceeds, InitFails, Acknowledge, probeVars
    <2>6. CASE UNCHANGED bringupVars
        BY <2>3, <2>6 DEF bringupVars, probeVars
    <2> QED BY <2>1, <2>2, <2>4, <2>5, <2>6 DEF BringupNext
<1>5. ProbeInv /\ [BringupNext]_bringupVars => ProbeInv'
    BY <1>2, <1>3, <1>4 DEF ProbeInv
<1> QED BY <1>1, <1>5, PTL DEF BringupSpec

\* One step away from a probe that leaves the AP online.
LEMMA ProbeStep ==
    ASSUME ProbeInv, BringupNext, bsp.at = "answer", bsp'.at # "answer", lifecycle'[bsp.ap] = "Online"
    PROVE  ~probeIpi[bsp.ap]
<1>1. BspStep
    BY DEF BringupNext, ApStep, LoadStack, LoadArguments, InitSucceeds, InitFails, Acknowledge, TakeProbe
<1>2. ProbeAnswered \/ ProbeUnanswered
    BY <1>1 DEF BspStep, StartWide, WriteMailbox, AwaitAck, StartTimesOut, SendInitSipi, SkipProbe,
                ConfigureQueues, SendProbe
<1>3. ~ProbeUnanswered
    BY DEF ProbeUnanswered, Mark, ProbeInv, BringupTypeOK
<1> QED BY <1>2, <1>3 DEF ProbeAnswered, ProbeInv, ProbeOnce

\* An AP stays online across a probe only if it answered that very probe,
\* whatever late APs do.
THEOREM OnlineHasAnswered == BringupSpec => OnlineAnswered
<1>1. ProbeInv /\ [BringupNext]_bringupVars =>
          [bsp.at = "answer" /\ bsp'.at # "answer" /\ lifecycle'[bsp.ap] = "Online"
              => ~probeIpi[bsp.ap]]_bringupVars
    BY ProbeStep
<1> QED BY <1>1, ProbeInvariant, PTL DEF BringupSpec, OnlineAnswered

-----------------------------------------------------------------------------
(* Handoffs.                                                               *)

\* The tasks that boot puts on the queue of a CPU, and the contexts that the
\* CPU may therefore execute.
HomeTasks(c) == IF c = BSP THEN {IdleTask, InitTask} ELSE {WorkerTask(c)}
OwnContexts(c) == HomeTasks(c) \cup {IdleContext(c)}

\* What a CPU runs for itself: a timer tick of the BSP only borrows the slot.
RunsTask(c) == IF c = BSP /\ in_tick THEN NoTask ELSE current[c]
RunsContext(c) == IF RunsTask(c) = NoTask THEN IdleContext(c) ELSE RunsTask(c)

Early == {"configure", "enqueue_idle", "enqueue_init"}

\* The control state of the CPUs and of the boot program has its types.
HandoffTypeOK ==
    /\ pc \in [Cpus -> {"run", "check", "halted", "handoff", "publish", "prepared", "save", "load", "resumed"}]
    /\ exec \in [Cpus -> Int]
    /\ pair \in [Cpus -> [old : Int, new : Int]]
    /\ slot_task \in [Cpus -> Int]
    /\ boot \in [at : Early \cup {"enqueue_workers", "probe", "await", "dequeue", "enter", "restore", "shell"},
                 cpu : Nat \ {0}, round : Nat, failed : BOOLEAN]
    /\ in_tick \in BOOLEAN

\* No task leaves its home: before the workers are queued the APs have nothing
\* that the BSP's tick could steal, and afterwards the BSP has init.
AtHome ==
    /\ \A c \in Cpus : /\ \A t \in TaskIds : Contains(queues[c], t) => t \in HomeTasks(c)
                       /\ current[c] # NoTask => current[c] \in HomeTasks(c)
    /\ boot.at \in Early => \A c \in APs : Load(c) = 0 /\ current[c] = NoTask
    /\ boot.at = "configure" => ~in_tick /\ \A c \in Cpus : Load(c) = 0 /\ current[c] = NoTask
    /\ boot.at \notin Early => Owned(InitTask)

\* Every context of a CPU that it does not execute is saved; and the handoff
\* goes from what is executed to what the run queue says.
FramesSaved ==
    \A c \in Cpus :
        /\ exec[c] \in OwnContexts(c)
        /\ OwnContexts(c) \ {exec[c]} \subseteq fresh
        /\ pc[c] \in {"publish", "prepared", "save", "load"} =>
              pair[c].old = exec[c] /\ pair[c].new = RunsContext(c)
        /\ pc[c] \notin {"publish", "prepared", "save", "load"} => exec[c] = RunsContext(c)
        /\ pc[c] = "load" => exec[c] \in fresh

\* The slot of a CPU names its task, except between the queue and the slot.
SlotFollows == \A c \in Cpus : pc[c] # "publish" /\ ~(c = BSP /\ in_tick) => slot_task[c] = RunsTask(c)

\* The inductive invariant of the handoffs.
HandoffInv == IInv /\ HandoffTypeOK /\ AtHome /\ FramesSaved /\ SlotFollows

\* The homes are disjoint sets of tasks, and an idle continuation is no task.
LEMMA Homes ==
    /\ BSP \in Cpus /\ NoTask \notin TaskIds /\ InitTask \in TaskIds /\ IdleTask \in TaskIds
    /\ \A c \in Cpus : /\ HomeTasks(c) \subseteq TaskIds /\ IdleContext(c) \notin TaskIds
                       /\ OwnContexts(c) \subseteq Int /\ c \in Int
    /\ \A c, d \in Cpus : c # d => OwnContexts(c) \cap OwnContexts(d) = {}
    /\ \A c \in APs : InitTask \notin HomeTasks(c)
BY MaxCpusAssumption, BootTasksAssumption
   DEF BSP, Cpus, APs, NoTask, HomeTasks, OwnContexts, IdleTask, InitTask, WorkerTask, IdleContext

\* A handoff moves a task between the queue and the running slot of one CPU.
LEMMA LocalMoves ==
    ASSUME IInv, NEW c \in Cpus, Complete(c) \/ DispatchLocal(c)
    PROVE  /\ \A d \in Cpus \ {c} : queues'[d] = queues[d] /\ current'[d] = current[d]
           /\ \A t \in TaskIds : Contains(queues'[c], t) => Contains(queues[c], t) \/ current[c] = t
           /\ current'[c] # NoTask => current'[c] \in TaskIds /\ Contains(queues[c], current'[c])
           /\ \A t \in TaskIds : Owned(t)' <=> Owned(t)
           /\ UNCHANGED cpu_count /\ c < cpu_count
<1>1. CASE Complete(c)
    <2>1. current[c] \in TaskIds /\ QueueOK(queues[c])
        BY <1>1 DEF IInv, Complete
    <2>2. \A t \in TaskIds : Contains(queues'[c], t) => Contains(queues[c], t) \/ current[c] = t
        <3>1. CASE CanEnqueue(queues[c], current[c])
            <4>1. queues'[c] = Enqueued(queues[c], current[c])
                BY <1>1, <3>1 DEF Complete, IInv
            <4> QED BY <2>1, <3>1, <4>1, EnqueuedQueue
        <3>2. CASE ~CanEnqueue(queues[c], current[c])
            BY <1>1, <3>2 DEF Complete
        <3> QED BY <3>1, <3>2
    <2>3. current'[c] = NoTask
        BY <1>1 DEF Complete, IInv
    <2>4. \A d \in Cpus \ {c} : queues'[d] = queues[d] /\ current'[d] = current[d]
        BY <1>1 DEF Complete, IInv
    <2> QED BY <1>1, <2>2, <2>3, <2>4, CompleteInvariant DEF Complete
<1>2. CASE DispatchLocal(c)
    <2>1. QueueOK(queues[c]) /\ Len(queues[c].tasks) > 0
        BY <1>2 DEF IInv, DispatchLocal, Load
    <2>2. queues'[c] = Popped(queues[c]) /\ current'[c] = NextTask(queues[c])
        BY <1>2 DEF DispatchLocal, IInv
    <2>3. \A d \in Cpus \ {c} : queues'[d] = queues[d] /\ current'[d] = current[d]
        BY <1>2 DEF DispatchLocal, IInv
    <2>4. /\ NextTask(queues[c]) \in TaskIds /\ Contains(queues[c], NextTask(queues[c]))
          /\ \A x : Contains(Popped(queues[c]), x) <=> Contains(queues[c], x) /\ x # NextTask(queues[c])
        BY <2>1, PoppedQueue
    <2> QED BY <1>2, <2>2, <2>3, <2>4, DispatchLocalInvariant DEF DispatchLocal
<1> QED BY <1>1, <1>2

\* The tick of the BSP never steals: a worker whose registers are still in a
\* CPU is not handed to another one.
LEMMA NoSteal ==
    ASSUME HandoffInv
    PROVE  ~DispatchStolen(BSP)
<1> SUFFICES ASSUME DispatchStolen(BSP)
             PROVE  FALSE
    OBVIOUS
<1> USE DEF HandoffInv
<1>1. PICK v \in Cpus : Victim(BSP, v)
    BY DEF DispatchStolen
<1>2. v \in APs /\ Load(v) > 0
    BY <1>1 DEF Victim, APs
<1>3. boot.at \notin Early
    BY <1>2 DEF AtHome
<1>4. PICK c \in ActiveCpus : Contains(queues[c], InitTask) \/ current[c] = InitTask
    BY <1>3 DEF AtHome, Owned
<1>5. c \in Cpus
    BY <1>4, ActiveCpu
<1>6. InitTask \in HomeTasks(c)
    BY <1>4, <1>5, Homes DEF AtHome
<1>7. c = BSP
    BY <1>5, <1>6, Homes DEF APs
<1>8. Load(BSP) > 0 \/ current[BSP] # NoTask
    <2>1. CASE current[BSP] = InitTask
        BY <2>1, Homes
    <2>2. CASE Contains(queues[BSP], InitTask)
        <3>1. Len(queues[BSP].tasks) \in Nat
            BY Homes DEF IInv
        <3> QED BY <2>2, <3>1 DEF Contains, Load
    <2> QED BY <1>4, <1>7, <2>1, <2>2
<1> QED BY <1>8 DEF DispatchStolen

InHandoff == {"publish", "prepared", "save", "load"}

\* What a handoff step does to the run queues: nothing, or one of the calls
\* that boot, the tick and the handoffs make.
LEMMA QueueSteps ==
    ASSUME HandoffInv, [HandoffNext]_handoffVars
    PROVE  \/ UNCHANGED vars /\ UNCHANGED in_tick
           \/ \E c \in Cpus : Handoff(c)
           \/ TickDispatches /\ DispatchLocal(BSP)
           \/ TickCompletes
           \/ BootConfigures
           \/ /\ UNCHANGED in_tick /\ boot.at # "configure"
              /\ \E c \in Cpus : /\ boot.at \in Early => c = BSP
                                 /\ \E t \in HomeTasks(c) : EnqueueOnCpu(c, t)
           \/ UNCHANGED in_tick /\ BootAt("dequeue") /\ Dequeue(BSP, IdleTask)
<1>1. CASE UNCHANGED handoffVars
    BY <1>1 DEF handoffVars
<1>2. ASSUME NEW c \in Cpus, SwitchStep(c) \/ TaskYields(c)
      PROVE  (UNCHANGED vars /\ UNCHANGED in_tick) \/ Handoff(c)
    BY <1>2 DEF SwitchStep, PrepareNothing, Publish, MaskForSwitch, SaveOld, LoadNew, Resume, TaskYields
<1>3. ASSUME NEW c \in APs, LoopStep(c) \/ ProbeInterrupt(c)
      PROVE  UNCHANGED vars /\ UNCHANGED in_tick
    BY <1>3 DEF LoopStep, ApMasks, ApTakesKick, ApHalts, ProbeInterrupt
<1>4. CASE TickDispatches
    BY <1>4, NoSteal DEF TickDispatches, Dispatch
<1>5. CASE BootEnqueues
    <2>1. ASSUME EnqueueOnCpu(boot.cpu, WorkerTask(boot.cpu))
          PROVE  boot.cpu \in Cpus /\ WorkerTask(boot.cpu) \in HomeTasks(boot.cpu)
        BY <2>1, MaxCpusAssumption DEF EnqueueOnCpu, HandoffInv, HandoffTypeOK, IInv, Cpus, HomeTasks, BSP
    <2>2. IdleTask \in HomeTasks(BSP) /\ InitTask \in HomeTasks(BSP) /\ BSP \in Cpus
        BY Homes DEF HomeTasks
    <2> QED BY <1>5, <2>1, <2>2 DEF BootEnqueues, BootAt, Early
<1>6. CASE BootEntersInit
    <2>1. IdleTask \in HomeTasks(BSP) /\ BSP \in Cpus
        BY Homes DEF HomeTasks
    <2> QED BY <1>6, <2>1 DEF BootEntersInit, BootAt, Early
<1>7. CASE BootProbes \/ BootProbed(FALSE) \/ BootProbed(TRUE) \/ ShellYields
    BY <1>7 DEF BootProbes, BootProbed, ShellYields
<1> QED BY <1>1, <1>2, <1>3, <1>4, <1>5, <1>6, <1>7 DEF HandoffNext, BootStep

\* Every step is a step of the run-queue coordinator, or leaves it alone.
LEMMA CallsCoordinator ==
    ASSUME HandoffInv, [HandoffNext]_handoffVars
    PROVE  [Next]_vars
<1>1. MAX_CPUS \in 0..(MAX_CPUS + 1)
    BY MaxCpusAssumption
<1>2. \A c \in Cpus : Handoff(c) => BoundedHandoff(c, FALSE)
    BY DEF Handoff
<1>3. /\ TickDispatches /\ DispatchLocal(BSP) => BoundedHandoff(BSP, FALSE)
      /\ TickCompletes => BoundedHandoff(BSP, FALSE)
    BY DEF TickCompletes, BoundedHandoff
<1>4. BootConfigures => Configure(MAX_CPUS)
    BY DEF BootConfigures
<1> QED BY <1>1, <1>2, <1>3, <1>4, QueueSteps, Homes DEF Next

\* While the BSP executes the boot code or its shell it runs no task.
LEMMA BootRunsNoTask ==
    ASSUME HandoffInv, NEW at, BootAt(at)
    PROVE  current[BSP] = NoTask /\ ~in_tick
<1>1. exec[BSP] = IdleContext(BSP) /\ pc[BSP] = "run" /\ ~in_tick
    BY DEF BootAt, Executes
<1>2. exec[BSP] = RunsContext(BSP)
    BY <1>1, Homes DEF HandoffInv, FramesSaved
<1> QED BY <1>1, <1>2, Homes DEF RunsContext, RunsTask, HandoffInv, IInv

\* Only a handoff of a CPU changes what that CPU runs for itself.
LEMMA RunsKept ==
    ASSUME HandoffInv, [HandoffNext]_handoffVars
    PROVE  /\ \A d \in Cpus : ~Handoff(d) => RunsTask(d)' = RunsTask(d)
           /\ \A c, d \in Cpus : Handoff(c) /\ Handoff(d) => c = d
<1>1. \A c, d \in Cpus : Handoff(c) /\ Handoff(d) => c = d
    BY DEF Handoff, Goto, HandoffInv, HandoffTypeOK, Executes
<1>2. CASE UNCHANGED vars /\ UNCHANGED in_tick
    BY <1>1, <1>2 DEF vars, RunsTask
<1>3. ASSUME NEW c \in Cpus, Handoff(c)
      PROVE  \A d \in Cpus : ~Handoff(d) => RunsTask(d)' = RunsTask(d)
    <2>1. (Complete(c) \/ DispatchLocal(c)) /\ in_tick' = in_tick
        BY <1>3 DEF Handoff, BoundedHandoff
    <2>2. \A d \in Cpus \ {c} : current'[d] = current[d]
        BY <2>1, LocalMoves DEF HandoffInv
    <2> QED BY <1>3, <2>1, <2>2 DEF RunsTask
<1>4. CASE TickDispatches /\ DispatchLocal(BSP)
    <2>1. \A d \in Cpus \ {BSP} : current'[d] = current[d]
        BY <1>4, LocalMoves, Homes DEF HandoffInv
    <2>2. current[BSP] = NoTask /\ in_tick'
        BY <1>4 DEF DispatchLocal, TickDispatches
    <2> QED BY <1>1, <2>1, <2>2 DEF RunsTask
<1>5. CASE TickCompletes
    <2>1. \A d \in Cpus \ {BSP} : current'[d] = current[d]
        BY <1>5, LocalMoves, Homes DEF HandoffInv, TickCompletes
    <2>2. current'[BSP] = NoTask /\ in_tick
        BY <1>5, Homes DEF Complete, TickCompletes, HandoffInv, IInv
    <2> QED BY <1>1, <2>1, <2>2 DEF RunsTask
<1>6. CASE BootConfigures
    <2>1. \A d \in Cpus : current[d] = NoTask /\ current'[d] = NoTask
        BY <1>6 DEF BootConfigures, BootAt, Configure, HandoffInv, AtHome
    <2> QED BY <1>1, <2>1 DEF RunsTask
<1>7. ASSUME UNCHANGED in_tick, NEW c \in Cpus, NEW t \in HomeTasks(c), EnqueueOnCpu(c, t)
      PROVE  \A d \in Cpus : RunsTask(d)' = RunsTask(d)
    BY <1>7 DEF EnqueueOnCpu, RunsTask
<1>8. CASE UNCHANGED in_tick /\ BootAt("dequeue") /\ Dequeue(BSP, IdleTask)
    <2>1. current[BSP] # IdleTask
        BY <1>8, BootRunsNoTask DEF NoTask, IdleTask
    <2> QED BY <1>1, <1>8, <2>1 DEF Dequeue, RunsTask
<1> QED BY <1>1, <1>2, <1>3, <1>4, <1>5, <1>6, <1>7, <1>8, QueueSteps

\* Every step keeps the types of the control state.
LEMMA HandoffTypes ==
    ASSUME HandoffInv, [HandoffNext]_handoffVars
    PROVE  HandoffTypeOK'
<1> USE DEF HandoffInv
<1>0. \A c \in Cpus : IdleContext(c) \in Int /\ current[c] \in Int /\ current'[c] \in Int
    <2>1. IInv'
        BY CallsCoordinator, StepInvariant
    <2> QED BY <2>1, Homes, BootTasksAssumption, MaxCpusAssumption, SMTT(30) DEF IInv, IdleContext, NoTask
<1>1. CASE UNCHANGED handoffVars
    BY <1>1 DEF handoffVars, HandoffTypeOK, cpuVars, bootVars
<1>2. ASSUME NEW c \in Cpus, SwitchStep(c) \/ TaskYields(c)
      PROVE  HandoffTypeOK'
    <2>1. CASE Handoff(c)
        <3>1. PICK o \in Int, n \in Int : pair' = [pair EXCEPT ![c] = [old |-> o, new |-> n]]
            BY <1>0, <2>1 DEF Handoff
        <3>2. pair' \in [Cpus -> [old : Int, new : Int]]
            BY <3>1 DEF HandoffTypeOK
        <3> QED BY <2>1, <3>2 DEF Handoff, Goto, HandoffTypeOK, bootVars
    <2>2. CASE Publish(c)
        BY <2>2, Homes DEF Publish, Goto, HandoffTypeOK, bootVars, NoTask
    <2>3. CASE LoadNew(c)
        BY <2>3 DEF LoadNew, Goto, HandoffTypeOK, bootVars
    <2>4. CASE PrepareNothing(c) \/ MaskForSwitch(c) \/ SaveOld(c) \/ Resume(c) \/ TaskYields(c)
        BY <2>4 DEF PrepareNothing, MaskForSwitch, SaveOld, Resume, TaskYields, EnterPrepare, Goto,
                    HandoffTypeOK, bootVars
    <2> QED BY <1>2, <2>1, <2>2, <2>3, <2>4 DEF SwitchStep
<1>3. ASSUME NEW c \in APs, LoopStep(c) \/ ProbeInterrupt(c)
      PROVE  HandoffTypeOK'
    <2>1. UNCHANGED <<exec, pair, slot_task, boot, in_tick>>
        BY <1>3 DEF LoopStep, ApMasks, ApTakesKick, ApHalts, ProbeInterrupt, EnterPrepare, bootVars
    <2>2. \/ UNCHANGED pc
          \/ \E where \in {"run", "check", "halted", "handoff"} : pc' = [pc EXCEPT ![c] = where]
        BY <1>3 DEF LoopStep, ApMasks, ApTakesKick, ApHalts, ProbeInterrupt, EnterPrepare, Goto
    <2> QED BY <2>1, <2>2 DEF HandoffTypeOK
<1>4. CASE TickDispatches \/ TickCompletes
    <2>1. UNCHANGED <<pc, exec, pair, boot>> /\ in_tick' \in BOOLEAN
        BY <1>4 DEF TickDispatches, TickCompletes, bootVars
    <2>2. \E t \in Int : slot_task' = [slot_task EXCEPT ![BSP] = t]
        BY <1>0, <1>4, Homes DEF TickDispatches, TickCompletes, NoTask
    <2> QED BY <2>1, <2>2, ZenonT(60) DEF HandoffTypeOK
<1>5. CASE BootConfigures
    BY <1>5 DEF BootConfigures, BootGoes, HandoffTypeOK, NoTask, Early
<1> DEFINE Boots == [at : Early \cup {"enqueue_workers", "probe", "await", "dequeue", "enter", "restore", "shell"},
                     cpu : Nat \ {0}, round : Nat, failed : BOOLEAN]
<1>6. boot \in Boots /\ boot.cpu + 1 \in Nat \ {0} /\ boot.round + 1 \in Nat
    BY DEF HandoffTypeOK
<1>7. CASE BootEnqueues
    <2>1. \/ \E at \in {"enqueue_init", "enqueue_workers"} : boot' = [boot EXCEPT !.at = at]
          \/ boot' = [boot EXCEPT !.cpu = boot.cpu + 1]
          \/ boot' = [boot EXCEPT !.cpu = 1, !.at = "probe"]
        BY <1>7 DEF BootEnqueues, BootGoes
    <2>2. boot' \in Boots
        <3>1. ASSUME NEW at \in {"enqueue_init", "enqueue_workers"}, boot' = [boot EXCEPT !.at = at]
              PROVE  boot' \in Boots
            BY <1>6, <3>1 DEF Early
        <3>2. CASE boot' = [boot EXCEPT !.cpu = boot.cpu + 1]
            <4>1. boot' = [at |-> boot.at, cpu |-> boot.cpu + 1, round |-> boot.round, failed |-> boot.failed]
                BY <1>6, <3>2
            <4> QED BY <1>6, <4>1
        <3>3. CASE boot' = [boot EXCEPT !.cpu = 1, !.at = "probe"]
            <4>1. boot' = [at |-> "probe", cpu |-> 1, round |-> boot.round, failed |-> boot.failed]
                BY <1>6, <3>3
            <4>2. boot.round \in Nat /\ boot.failed \in BOOLEAN /\ 1 \in Nat \ {0}
                BY <1>6
            <4> QED BY <4>1, <4>2
        <3> QED BY <2>1, <3>1, <3>2, <3>3
    <2> QED BY <1>7, <2>2 DEF BootEnqueues, HandoffTypeOK, cpuVars
<1>8. CASE BootProbes
    BY <1>8 DEF BootProbes, BootGoes, HandoffTypeOK, cpuVars
<1>9. ASSUME NEW timed_out \in BOOLEAN, BootProbed(timed_out)
      PROVE  HandoffTypeOK'
    <2>1. \E at \in {"dequeue", "probe"}, cpu \in {1, boot.cpu + 1}, round \in {boot.round, boot.round + 1} :
              boot' = [at |-> at, cpu |-> cpu, round |-> round, failed |-> boot.failed \/ ~ack[boot.cpu]]
        BY <1>9, Zenon DEF BootProbed
    <2>3. boot.round \in Nat /\ 1 \in Nat \ {0} /\ (boot.failed \/ ~ack[boot.cpu]) \in BOOLEAN
        BY <1>6
    <2>2. boot' \in Boots
        BY <1>6, <2>1, <2>3
    <2> QED BY <1>9, <2>2 DEF BootProbed, HandoffTypeOK, cpuVars
<1>10. CASE BootEntersInit \/ ShellYields
    <2>1. boot' \in Boots
        BY <1>6, <1>10 DEF BootEntersInit, BootGoes, ShellYields, bootVars
    <2> QED BY <1>10, <2>1, Homes DEF BootEntersInit, ShellYields, EnterPrepare, Goto, HandoffTypeOK, cpuVars
<1> QED BY <1>1, <1>2, <1>3, <1>4, <1>5, <1>7, <1>8, <1>9, <1>10 DEF HandoffNext, BootStep

\* A task that was queued is owned.
LEMMA EnqueuedIsOwned ==
    ASSUME IInv, NEW c \in Cpus, NEW t \in TaskIds, EnqueueOnCpu(c, t)
    PROVE  /\ \A d \in Cpus \ {c} : queues'[d] = queues[d]
           /\ \A x : Contains(queues'[c], x) <=> Contains(queues[c], x) \/ x = t
           /\ UNCHANGED <<current, cpu_count>>
           /\ \A x \in TaskIds : Owned(x) \/ x = t => Owned(x)'
<1>1. queues'[c] = Enqueued(queues[c], t) /\ current' = current /\ cpu_count' = cpu_count
    BY DEF EnqueueOnCpu, IInv
<1>2. \A d \in Cpus \ {c} : queues'[d] = queues[d]
    BY DEF EnqueueOnCpu, IInv
<1>3. \A x : Contains(queues'[c], x) <=> Contains(queues[c], x) \/ x = t
    BY <1>1, EnqueuedQueue DEF EnqueueOnCpu, IInv
<1>4. c \in ActiveCpus
    BY ActiveCpu DEF EnqueueOnCpu
<1> QED BY <1>1, <1>2, <1>3, <1>4, ActiveCpu DEF Owned, ActiveCpus

\* The boot program only goes forward, and leaves its first part by queueing
\* init.
LEMMA BootOrder ==
    ASSUME HandoffInv, [HandoffNext]_handoffVars
    PROVE  /\ boot'.at = "configure" => boot.at = "configure"
           /\ boot'.at \in Early => boot.at \in Early
           /\ boot.at \in Early /\ boot'.at \notin Early => Owned(InitTask)'
<1> USE DEF HandoffInv, Early
<1>e. EnqueueOnCpu(BSP, InitTask) => Owned(InitTask)'
    BY EnqueuedIsOwned, Homes
<1>0. \A at : BootGoes(at) => boot'.at = at
    BY DEF BootGoes, HandoffTypeOK
<1>1. CASE UNCHANGED boot
    BY <1>1
<1>2. CASE BootConfigures \/ BootProbes \/ BootEntersInit
    BY <1>0, <1>2 DEF BootConfigures, BootProbes, BootEntersInit, BootAt
<1>3. CASE BootEnqueues
    <2>1. CASE BootAt("enqueue_workers")
        <3>1. boot'.at \in {"enqueue_workers", "probe"}
            BY <1>3, <2>1 DEF BootEnqueues, BootAt, HandoffTypeOK
        <3> QED BY <2>1, <3>1 DEF BootAt
    <2> QED BY <1>0, <1>3, <1>e, <2>1 DEF BootEnqueues, BootAt
<1>4. ASSUME NEW timed_out \in BOOLEAN, BootProbed(timed_out)
      PROVE  boot.at = "await" /\ boot'.at \in {"dequeue", "probe"}
    BY <1>4 DEF BootProbed, BootAt
<1>5. ASSUME NEW c \in Cpus, SwitchStep(c) \/ TaskYields(c)
      PROVE  UNCHANGED boot
    BY <1>5 DEF SwitchStep, PrepareNothing, Handoff, Publish, MaskForSwitch, SaveOld, LoadNew, Resume,
                TaskYields, bootVars
<1>6. ASSUME NEW c \in APs, LoopStep(c) \/ ProbeInterrupt(c)
      PROVE  UNCHANGED boot
    BY <1>6 DEF LoopStep, ApMasks, ApTakesKick, ApHalts, ProbeInterrupt, bootVars
<1>7. CASE TickDispatches \/ TickCompletes \/ ShellYields \/ UNCHANGED handoffVars
    BY <1>1, <1>7 DEF TickDispatches, TickCompletes, ShellYields, bootVars, handoffVars
<1> QED BY <1>1, <1>2, <1>3, <1>4, <1>5, <1>6, <1>7 DEF HandoffNext, BootStep

\* Boot queues a task only on the CPU it is meant for, and nothing moves it.
LEMMA StaysAtHome ==
    ASSUME HandoffInv, [HandoffNext]_handoffVars
    PROVE  AtHome'
<1> USE DEF HandoffInv
<1>0. IInv'
    BY CallsCoordinator, StepInvariant
<1> DEFINE HomeOK(c) == /\ \A t \in TaskIds : Contains(queues'[c], t) => t \in HomeTasks(c)
                        /\ current'[c] # NoTask => current'[c] \in HomeTasks(c)
           EmptyNow(c) == Load(c) = 0 /\ current[c] = NoTask
           EmptyThen(c) == Len(queues'[c].tasks) = 0 /\ current'[c] = NoTask
           Steady == /\ \A c \in Cpus : HomeOK(c)
                     /\ boot'.at \in Early => \A c \in APs : EmptyNow(c) => EmptyThen(c)
                     /\ boot'.at = "configure" => ~in_tick' /\ \A c \in Cpus : EmptyThen(c)
                     /\ Owned(InitTask) => Owned(InitTask)'
<1>1. ASSUME Steady
      PROVE  AtHome'
    <2>1. boot'.at \in Early => \A c \in APs : EmptyNow(c)
        BY BootOrder DEF AtHome
    <2>2. boot'.at \notin Early => Owned(InitTask)'
        BY <1>1, BootOrder DEF AtHome
    <2> QED BY <1>1, <2>1, <2>2 DEF AtHome, Load
<1>2. CASE UNCHANGED vars /\ UNCHANGED in_tick
    BY <1>1, <1>2, BootOrder DEF vars, AtHome, Load, Owned, ActiveCpus
<1>3. ASSUME NEW c \in Cpus, Complete(c) \/ DispatchLocal(c), ~EmptyNow(c), boot.at # "configure"
      PROVE  AtHome'
    <2>1. \A d \in Cpus \ {c} : queues'[d] = queues[d] /\ current'[d] = current[d]
        BY <1>3, LocalMoves
    <2>2. \A t \in TaskIds : Contains(queues'[c], t) => t \in HomeTasks(c)
        BY <1>3, LocalMoves, Homes DEF AtHome
    <2>3. current'[c] # NoTask => current'[c] \in HomeTasks(c)
        BY <1>3, LocalMoves DEF AtHome
    <2>4. \A d \in Cpus : HomeOK(d)
        BY <2>1, <2>2, <2>3 DEF AtHome
    <2>5. \A d \in Cpus : EmptyNow(d) => EmptyThen(d)
        BY <1>3, <2>1 DEF Load
    <2>6. Owned(InitTask) => Owned(InitTask)'
        BY <1>3, LocalMoves, Homes
    <2> QED BY <1>1, <1>3, <2>4, <2>5, <2>6, BootOrder DEF APs
<1>4. ASSUME NEW c \in Cpus, Handoff(c) \/ (c = BSP /\ TickDispatches /\ DispatchLocal(c)) \/ (c = BSP /\ TickCompletes)
      PROVE  AtHome'
    <2>1. Complete(c) \/ DispatchLocal(c)
        BY <1>4 DEF Handoff, BoundedHandoff, TickCompletes
    <2>2. ~EmptyNow(c)
        BY <2>1 DEF Complete, DispatchLocal, Load, IInv
    <2> QED BY <1>3, <2>1, <2>2 DEF AtHome
<1>5. CASE BootConfigures
    <2>1. \A c \in Cpus : queues'[c] = NewQueue /\ current'[c] = NoTask
        BY <1>5 DEF BootConfigures, Configure
    <2>2. boot'.at = "enqueue_idle"
        BY <1>5 DEF BootConfigures, BootGoes, HandoffTypeOK
    <2>3. \A c \in Cpus : HomeOK(c) /\ EmptyThen(c)
        BY <2>1 DEF NewQueue, Contains
    <2> QED BY <2>2, <2>3 DEF AtHome, Early, Load, APs
<1>6. ASSUME NEW c \in Cpus, NEW t \in HomeTasks(c), EnqueueOnCpu(c, t),
             boot.at # "configure", boot.at \in Early => c = BSP
      PROVE  AtHome'
    <2>1. t \in TaskIds
        BY Homes
    <2>2. \A d \in Cpus : HomeOK(d)
        BY <1>6, <2>1, EnqueuedIsOwned DEF AtHome
    <2>3. boot'.at \in Early => \A d \in APs : EmptyNow(d) => EmptyThen(d)
        BY <1>6, <2>1, EnqueuedIsOwned, BootOrder DEF APs, Load
    <2>4. Owned(InitTask) => Owned(InitTask)'
        BY <1>6, <2>1, EnqueuedIsOwned, Homes
    <2> QED BY <1>1, <1>6, <2>2, <2>3, <2>4, BootOrder
<1>7. CASE BootAt("dequeue") /\ Dequeue(BSP, IdleTask)
    <2>1. current[BSP] # IdleTask
        BY <1>7, BootRunsNoTask DEF NoTask, IdleTask
    <2>2. /\ UNCHANGED <<current, cpu_count>> /\ Contains(queues[BSP], IdleTask)
          /\ queues'[BSP] = Removed(queues[BSP], IdleTask)
          /\ \A d \in Cpus \ {BSP} : queues'[d] = queues[d]
        BY <1>7, <2>1, Homes DEF Dequeue, IInv
    <2>3. \A x : Contains(queues'[BSP], x) <=> Contains(queues[BSP], x) /\ x # IdleTask
        BY <2>2, RemovedQueue, Homes DEF IInv
    <2>4. \A d \in Cpus : HomeOK(d)
        BY <2>2, <2>3 DEF AtHome
    <2>5. Owned(InitTask) => Owned(InitTask)'
        BY <2>2, <2>3, ActiveCpu DEF Owned, ActiveCpus, InitTask, IdleTask
    <2>6. boot.at = "dequeue"
        BY <1>7 DEF BootAt
    <2>7. boot'.at \notin Early /\ boot'.at # "configure"
        BY <2>6, BootOrder DEF Early
    <2> QED BY <1>1, <2>4, <2>5, <2>7
<1> QED BY <1>2, <1>4, <1>5, <1>6, <1>7, QueueSteps, Homes

\* What a CPU runs is one of its own contexts.
LEMMA RunsOwn ==
    ASSUME HandoffInv, NEW c \in Cpus
    PROVE  RunsContext(c) \in OwnContexts(c)
BY DEF HandoffInv, AtHome, RunsContext, RunsTask, OwnContexts

\* A step that moves no registers keeps the frames right, provided it neither
\* begins nor ends a handoff.
LEMMA FramesKept ==
    ASSUME HandoffInv, UNCHANGED <<exec, pair, fresh>>,
           \A d \in Cpus : RunsTask(d)' = RunsTask(d),
           \A d \in Cpus : /\ pc'[d] \in InHandoff <=> pc[d] \in InHandoff
                           /\ pc'[d] = "load" => pc[d] = "load"
    PROVE  FramesSaved'
<1>1. \A d \in Cpus : RunsContext(d)' = RunsContext(d)
    BY DEF RunsContext
<1> QED BY <1>1 DEF HandoffInv, FramesSaved, InHandoff

\* Every step keeps the frames right.
LEMMA FramesStaySaved ==
    ASSUME HandoffInv, [HandoffNext]_handoffVars
    PROVE  FramesSaved'
<1> DEFINE Same(d) == /\ pc'[d] \in InHandoff <=> pc[d] \in InHandoff
                      /\ pc'[d] = "load" => pc[d] = "load"
<1> USE DEF HandoffInv
<1>r. \A c, d \in Cpus : Handoff(c) /\ d # c => RunsTask(d)' = RunsTask(d)
    BY RunsKept
<1>s. (\A c \in Cpus : ~Handoff(c)) => \A d \in Cpus : RunsTask(d)' = RunsTask(d)
    BY RunsKept
<1>1. ASSUME UNCHANGED <<exec, pair, fresh>>, \A d \in Cpus : Same(d)
      PROVE  FramesSaved'
    <2>1. \A c \in Cpus : ~Handoff(c)
        <3> SUFFICES ASSUME NEW c \in Cpus, Handoff(c)
                     PROVE  FALSE
            OBVIOUS
        <3> QED BY <1>1 DEF Handoff, Executes, Goto, HandoffTypeOK, InHandoff
    <2> QED BY <1>1, <1>s, <2>1, FramesKept
<1>2. ASSUME NEW c \in Cpus, NEW from, NEW to, pc[c] = from, pc' = [pc EXCEPT ![c] = to],
             UNCHANGED <<exec, pair, fresh>>, from \in InHandoff <=> to \in InHandoff, to # "load"
      PROVE  FramesSaved'
    BY <1>1, <1>2 DEF HandoffTypeOK, InHandoff
<1>3. ASSUME UNCHANGED <<exec, pair, fresh, pc>>
      PROVE  FramesSaved'
    BY <1>1, <1>3
<1>4. ASSUME NEW c \in Cpus, Handoff(c)
      PROVE  FramesSaved'
    <2>1. pc[c] = "handoff" /\ pc' = [pc EXCEPT ![c] = "publish"] /\ ~(c = BSP /\ in_tick)
          /\ UNCHANGED <<exec, fresh, in_tick>>
        BY <1>4 DEF Handoff, Executes, Goto
    <2>2. exec[c] = RunsContext(c)
        BY <2>1 DEF FramesSaved
    <2>3. pair'[c].old = RunsContext(c) /\ pair'[c].new = RunsContext(c)'
        BY <1>4, <2>1 DEF Handoff, HandoffTypeOK, RunsContext, RunsTask
    <2>4. \A d \in Cpus \ {c} : pair'[d] = pair[d] /\ pc'[d] = pc[d] /\ RunsContext(d)' = RunsContext(d)
        BY <1>4, <1>r DEF Handoff, HandoffTypeOK, RunsContext, Goto
    <2>5. pc'[c] = "publish"
        BY <2>1 DEF HandoffTypeOK
    <2> QED BY <2>1, <2>2, <2>3, <2>4, <2>5 DEF FramesSaved
<1>5. ASSUME NEW c \in Cpus, SaveOld(c)
      PROVE  FramesSaved'
    <2>1. /\ pc[c] = "save" /\ pc' = [pc EXCEPT ![c] = "load"] /\ UNCHANGED <<exec, pair>>
          /\ fresh' = fresh \cup {pair[c].old}
        BY <1>5 DEF SaveOld, Executes, Goto
    <2>2. \A d \in Cpus : ~Handoff(d)
        BY <1>5, <2>1 DEF Handoff, Goto, SaveOld, Executes, HandoffTypeOK
    <2>3. \A d \in Cpus : RunsContext(d)' = RunsContext(d)
        BY <1>s, <2>2 DEF RunsContext
    <2>4. pc'[c] = "load" /\ \A d \in Cpus \ {c} : pc'[d] = pc[d]
        BY <2>1 DEF HandoffTypeOK
    <2> QED BY <2>1, <2>3, <2>4 DEF FramesSaved
<1>6. ASSUME NEW c \in Cpus, LoadNew(c)
      PROVE  FramesSaved'
    <2>1. /\ pc[c] = "load" /\ UNCHANGED pair
          /\ exec' = [exec EXCEPT ![c] = pair[c].new] /\ fresh' = fresh \ {pair[c].new}
          /\ \E to \in {"run", "resumed"} : pc' = [pc EXCEPT ![c] = to]
        BY <1>6 DEF LoadNew, Executes, Goto
    <2>2. \A d \in Cpus : ~Handoff(d)
        BY <1>6, <2>1 DEF Handoff, Goto, Executes, HandoffTypeOK
    <2>3. \A d \in Cpus : RunsContext(d)' = RunsContext(d)
        BY <1>s, <2>2 DEF RunsContext
    <2>4. pc'[c] \in {"run", "resumed"} /\ \A d \in Cpus \ {c} : pc'[d] = pc[d] /\ exec'[d] = exec[d]
        BY <2>1 DEF HandoffTypeOK
    <2>5. pair[c].new = RunsContext(c) /\ exec'[c] = RunsContext(c) /\ OwnContexts(c) \subseteq fresh
        BY <2>1 DEF FramesSaved, HandoffTypeOK
    <2>6. \A d \in Cpus \ {c} : OwnContexts(d) \ {exec'[d]} \subseteq fresh'
        BY <2>1, <2>4, <2>5, RunsOwn, Homes DEF FramesSaved
    <2>7. \A d \in Cpus \ {c} : pc[d] = "load" => exec[d] \in fresh'
        BY <2>1, <2>5, RunsOwn, Homes DEF FramesSaved
    <2> QED BY <2>1, <2>3, <2>4, <2>5, <2>6, <2>7, RunsOwn DEF FramesSaved
<1>7. ASSUME NEW c \in Cpus, SwitchStep(c) \/ TaskYields(c)
      PROVE  FramesSaved'
    <2>1. CASE PrepareNothing(c)
        BY <1>2, <2>1 DEF PrepareNothing, Executes, Goto, InHandoff
    <2>2. CASE Publish(c)
        BY <1>2, <2>2 DEF Publish, Executes, Goto, InHandoff
    <2>3. CASE MaskForSwitch(c)
        BY <1>2, <2>3 DEF MaskForSwitch, Executes, Goto, InHandoff
    <2>4. CASE Resume(c)
        BY <1>2, <2>4 DEF Resume, Executes, Goto, InHandoff
    <2>5. CASE TaskYields(c)
        BY <1>2, <2>5 DEF TaskYields, EnterPrepare, Executes, Goto, InHandoff
    <2> QED BY <1>4, <1>5, <1>6, <1>7, <2>1, <2>2, <2>3, <2>4, <2>5 DEF SwitchStep
<1>8. ASSUME NEW c \in APs, LoopStep(c) \/ ProbeInterrupt(c)
      PROVE  FramesSaved'
    <2>0. c \in Cpus
        BY DEF APs
    <2>1. CASE ApMasks(c)
        BY <1>2, <2>0, <2>1 DEF ApMasks, Executes, Goto, InHandoff
    <2>2. CASE ApTakesKick(c)
        BY <1>2, <2>0, <2>2 DEF ApTakesKick, EnterPrepare, Executes, Goto, InHandoff
    <2>3. CASE ApHalts(c)
        BY <1>2, <2>0, <2>3 DEF ApHalts, Executes, Goto, InHandoff
    <2>4. CASE ProbeInterrupt(c) /\ pc[c] = "halted"
        BY <1>2, <2>0, <2>4 DEF ProbeInterrupt, InHandoff
    <2>5. CASE ProbeInterrupt(c) /\ pc[c] # "halted"
        BY <1>3, <2>5 DEF ProbeInterrupt
    <2> QED BY <1>8, <2>1, <2>2, <2>3, <2>4, <2>5 DEF LoopStep
<1>9. CASE TickDispatches \/ TickCompletes \/ BootConfigures \/ BootEnqueues \/ BootProbes
           \/ BootProbed(FALSE) \/ BootProbed(TRUE) \/ UNCHANGED handoffVars
    BY <1>3, <1>9 DEF TickDispatches, TickCompletes, BootConfigures, BootEnqueues, BootProbes, BootProbed,
                      handoffVars, cpuVars
<1>10. CASE BootEntersInit \/ ShellYields
    <2>1. BootAt("enter") \/ BootAt("shell") => pc[BSP] = "run"
        BY DEF BootAt, Executes
    <2>2. UNCHANGED cpuVars \/ (EnterPrepare(BSP) /\ pc[BSP] = "run")
        BY <1>10, <2>1 DEF BootEntersInit, ShellYields
    <2> QED BY <1>2, <1>3, <2>2, Homes DEF EnterPrepare, Goto, cpuVars, InHandoff
<1> QED BY <1>7, <1>8, <1>9, <1>10 DEF HandoffNext, BootStep

\* Every step keeps the slots in step with the run queues.
LEMMA SlotsStayRight ==
    ASSUME HandoffInv, [HandoffNext]_handoffVars
    PROVE  SlotFollows'
<1> USE DEF HandoffInv
<1> DEFINE Right(d) == pc'[d] # "publish" /\ ~(d = BSP /\ in_tick') => slot_task'[d] = RunsTask(d)'
<1>1. ASSUME NEW d \in Cpus, ~Handoff(d), slot_task'[d] = slot_task[d], in_tick' = in_tick,
             pc'[d] # "publish" => pc[d] # "publish"
      PROVE  Right(d)
    BY <1>1, RunsKept DEF SlotFollows
<1>2. ASSUME NEW d \in Cpus, Handoff(d)
      PROVE  Right(d)
    BY <1>2 DEF Handoff, Goto, HandoffTypeOK
<1>3. ASSUME UNCHANGED <<slot_task, in_tick>>, \A d \in Cpus : pc'[d] # "publish" => pc[d] # "publish"
      PROVE  SlotFollows'
    BY <1>1, <1>2, <1>3 DEF SlotFollows
<1>4. ASSUME NEW c \in Cpus, Publish(c)
      PROVE  SlotFollows'
    <2>1. /\ pc[c] = "publish" /\ pc' = [pc EXCEPT ![c] = "prepared"] /\ in_tick' = in_tick
          /\ slot_task' = [slot_task EXCEPT ![c] = IF pair[c].new \in TaskIds THEN pair[c].new ELSE NoTask]
        BY <1>4 DEF Publish, Executes, Goto
    <2>2. \A d \in Cpus : ~Handoff(d)
        BY <2>1 DEF Handoff, Goto, Executes, HandoffTypeOK
    <2>3. pair[c].new = RunsContext(c) /\ RunsTask(c) \in TaskIds \cup {NoTask}
        BY <2>1 DEF FramesSaved, RunsTask, IInv
    <2>4. slot_task'[c] = RunsTask(c)
        BY <2>1, <2>3, Homes DEF RunsContext, HandoffTypeOK
    <2>5. Right(c)
        BY <2>2, <2>4, RunsKept
    <2>6. \A d \in Cpus \ {c} : Right(d)
        BY <1>1, <2>1, <2>2 DEF HandoffTypeOK
    <2> QED BY <2>5, <2>6 DEF SlotFollows
<1>5. ASSUME NEW c \in Cpus, SwitchStep(c) \/ TaskYields(c), ~Publish(c)
      PROVE  SlotFollows'
    <2>1. UNCHANGED <<slot_task, in_tick>>
        BY <1>5 DEF SwitchStep, PrepareNothing, Handoff, MaskForSwitch, SaveOld, LoadNew, Resume, TaskYields,
                    EnterPrepare
    <2>2. pc[c] # "publish" /\ \E to : pc' = [pc EXCEPT ![c] = to]
        BY <1>5 DEF SwitchStep, PrepareNothing, Handoff, MaskForSwitch, SaveOld, LoadNew, Resume, TaskYields,
                    EnterPrepare, Executes, Goto
    <2> QED BY <1>3, <2>1, <2>2 DEF HandoffTypeOK
<1>6. ASSUME NEW c \in APs, LoopStep(c) \/ ProbeInterrupt(c)
      PROVE  SlotFollows'
    <2>1. UNCHANGED <<slot_task, in_tick>>
        BY <1>6 DEF LoopStep, ApMasks, ApTakesKick, ApHalts, ProbeInterrupt, EnterPrepare
    <2>2. UNCHANGED pc \/ (pc[c] # "publish" /\ \E to : pc' = [pc EXCEPT ![c] = to])
        BY <1>6 DEF LoopStep, ApMasks, ApTakesKick, ApHalts, ProbeInterrupt, EnterPrepare, Executes, Goto
    <2> QED BY <1>3, <2>1, <2>2 DEF HandoffTypeOK
<1>7. CASE TickDispatches \/ TickCompletes
    <2>1. /\ UNCHANGED pc /\ in_tick' = TickDispatches
          /\ \A d \in Cpus \ {BSP} : slot_task'[d] = slot_task[d]
        BY <1>7 DEF TickDispatches, TickCompletes, HandoffTypeOK
    <2>2. \A d \in Cpus : ~Handoff(d)
        BY <2>1 DEF Handoff, Goto, Executes, HandoffTypeOK
    <2>3. \A d \in Cpus \ {BSP} : Right(d)
        BY <2>1, <2>2, RunsKept DEF SlotFollows
    <2>4. Right(BSP)
        <3>1. CASE TickDispatches
            BY <3>1 DEF TickDispatches
        <3>2. CASE TickCompletes
            BY <3>2, Homes DEF TickCompletes, Complete, RunsTask, HandoffTypeOK, IInv
        <3> QED BY <1>7, <3>1, <3>2
    <2> QED BY <2>3, <2>4 DEF SlotFollows
<1>8. CASE BootConfigures
    BY <1>8 DEF BootConfigures, Configure, SlotFollows, RunsTask
<1>9. CASE BootEnqueues \/ BootProbes \/ BootProbed(FALSE) \/ BootProbed(TRUE) \/ UNCHANGED handoffVars
    BY <1>3, <1>9 DEF BootEnqueues, BootProbes, BootProbed, handoffVars, cpuVars
<1>10. CASE BootEntersInit \/ ShellYields
    <2>1. BootAt("enter") \/ BootAt("shell") => pc[BSP] = "run"
        BY DEF BootAt, Executes
    <2>2. /\ UNCHANGED cpuVars \/ (EnterPrepare(BSP) /\ pc[BSP] = "run")
          /\ UNCHANGED in_tick
        BY <1>10, <2>1 DEF BootEntersInit, ShellYields
    <2> QED BY <1>3, <2>2, Homes DEF EnterPrepare, Goto, cpuVars, HandoffTypeOK
<1> QED BY <1>4, <1>5, <1>6, <1>7, <1>8, <1>9, <1>10 DEF HandoffNext, BootStep

\* The handoffs begin with every frame of a task built and nothing queued.
LEMMA HandoffStarts == HandoffInit => HandoffInv
<1> SUFFICES ASSUME HandoffInit
             PROVE  HandoffInv
    OBVIOUS
<1>1. IInv
    BY InitInvariant DEF HandoffInit
<1>2. HandoffTypeOK
    <2>1. \A c \in Cpus : IdleContext(c) \in Int
        BY Homes DEF IdleContext
    <2>2. pair \in [Cpus -> [old : Int, new : Int]] /\ exec \in [Cpus -> Int]
        BY <2>1 DEF HandoffInit
    <2>3. slot_task = [c \in Cpus |-> 0] /\ in_tick = FALSE
        BY DEF HandoffInit, NoTask
    <2>4. pc = [c \in Cpus |-> "run"] /\ boot = [at |-> "configure", cpu |-> 1, round |-> 0, failed |-> FALSE]
        BY DEF HandoffInit
    <2>5. slot_task \in [Cpus -> Int]
        BY ONLY <2>3
    <2>8. in_tick \in BOOLEAN
        BY ONLY <2>3, Zenon
    <2>6. pc \in [Cpus -> {"run", "check", "halted", "handoff", "publish", "prepared", "save", "load", "resumed"}]
        BY ONLY <2>4
    <2>7. 1 \in Nat \ {0} /\ 0 \in Nat /\ "configure" \in Early /\ FALSE \in BOOLEAN
        BY DEF Early
    <2> QED BY ONLY <2>2, <2>4, <2>5, <2>6, <2>7, <2>8 DEF HandoffTypeOK
<1>3. \A c \in Cpus : queues[c] = NewQueue /\ current[c] = NoTask
    BY DEF HandoffInit, Init
<1>4. AtHome
    BY <1>3 DEF AtHome, HandoffInit, NewQueue, Contains, Load, APs, Early
<1>5. FramesSaved
    BY <1>3, Homes DEF FramesSaved, HandoffInit, RunsContext, RunsTask, OwnContexts
<1>6. SlotFollows
    BY <1>3 DEF SlotFollows, HandoffInit, RunsTask
<1> QED BY <1>1, <1>2, <1>4, <1>5, <1>6 DEF HandoffInv

\* Every step keeps the invariant of the handoffs.
LEMMA HandoffKept == HandoffInv /\ [HandoffNext]_handoffVars => HandoffInv'
<1> SUFFICES ASSUME HandoffInv, [HandoffNext]_handoffVars
             PROVE  HandoffInv'
    OBVIOUS
<1>1. IInv'
    BY CallsCoordinator, StepInvariant DEF HandoffInv
<1> QED BY <1>1, HandoffTypes, StaysAtHome, FramesStaySaved, SlotsStayRight DEF HandoffInv

\* For any number of CPUs and whatever interrupts come when: switch_context
\* saves into the frame of the code it interrupts and restores a frame that
\* was completely saved, so no stack is ever used by two CPUs.
THEOREM FramesAlwaysRight == HandoffSpec => []HandoffUsesRightFrames
<1>1. HandoffInv => HandoffUsesRightFrames
    <2> SUFFICES ASSUME HandoffInv, NEW c \in Cpus
                 PROVE  /\ pc[c] = "save" => pair[c].old = exec[c]
                        /\ pc[c] = "load" => pair[c].new \in fresh
        BY DEF HandoffUsesRightFrames
    <2> QED BY RunsOwn DEF HandoffInv, FramesSaved
<1> QED BY <1>1, HandoffStarts, HandoffKept, PTL DEF HandoffSpec

\* Outside the scheduler a CPU's slot names the task the CPU executes, so a
\* system call is always attributed to its own caller.
THEOREM SlotAlwaysNamesTask == HandoffSpec => []SlotNamesRunningTask
<1>1. HandoffInv => SlotNamesRunningTask
    <2> SUFFICES ASSUME HandoffInv, NEW c \in Cpus, pc[c] = "run", ~(c = BSP /\ in_tick)
                 PROVE  slot_task[c] = IF exec[c] \in TaskIds THEN exec[c] ELSE NoTask
        BY DEF SlotNamesRunningTask
    <2>1. slot_task[c] = RunsTask(c) /\ exec[c] = RunsContext(c) /\ RunsTask(c) \in TaskIds \cup {NoTask}
        BY DEF HandoffInv, SlotFollows, FramesSaved, RunsTask, IInv
    <2> QED BY <2>1, Homes DEF RunsContext
<1> QED BY <1>1, HandoffStarts, HandoffKept, PTL DEF HandoffSpec

\* The AP loops, the timer and the boot code use the run queues only through
\* the coordinator's methods: what is proved of it holds of the whole boot.
THEOREM HandoffsUseCoordinator == HandoffSpec => Spec
<1>1. HandoffInit => Init
    BY DEF HandoffInit
<1>2. HandoffInv /\ [HandoffNext]_handoffVars => [Next]_vars
    BY CallsCoordinator
<1> QED BY <1>1, <1>2, HandoffStarts, HandoffKept, PTL DEF HandoffSpec, Spec
=============================================================================
