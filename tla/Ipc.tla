---------------------------------- MODULE Ipc ----------------------------------
(***************************************************************************)
(* The IPC core (kernel/src/ipc.rs): a ring buffer of messages per task    *)
(* and the counters of IpcManager.  Every operation runs under the lock of *)
(* the global IPC and is one step.  A message is an element of Messages;   *)
(* its sender, type and payload are opaque to the queues.                  *)
(***************************************************************************)
EXTENDS Integers, Sequences

CONSTANTS
    MAX_QUEUES,      \* queues 0..MAX_QUEUES-1, indexed by task identifier
    QUEUE_CAPACITY,  \* slots of one queue
    Messages,
    MaxSent          \* bound on total_sent for model checking

ASSUME QueuesAssumption == MAX_QUEUES \in Nat
ASSUME CapacityAssumption == QUEUE_CAPACITY \in Nat \ {0}
ASSUME MaxSentAssumption == MaxSent \in Nat

VARIABLES
    messages,         \* messages[q][slot]: <<m>>, or <<>> for None
    head, tail, count,
    total_sent, total_delivered, total_dropped,
    received          \* what recv last returned to each task

counters == <<total_sent, total_delivered, total_dropped>>
ipcVars == <<messages, head, tail, count, counters, received>>

Queues == 0..(MAX_QUEUES - 1)
Slots == 0..(QUEUE_CAPACITY - 1)
NONE == <<>>

IpcInit ==
    /\ messages = [q \in Queues |-> [s \in Slots |-> NONE]]
    /\ head = [q \in Queues |-> 0]
    /\ tail = [q \in Queues |-> 0]
    /\ count = [q \in Queues |-> 0]
    /\ total_sent = 0 /\ total_delivered = 0 /\ total_dropped = 0
    /\ received = [q \in Queues |-> NONE]

\* The test of MessageQueue::push.
HasRoom(q) == count[q] < QUEUE_CAPACITY

Advance(index) == (index + 1) % QUEUE_CAPACITY

\* send(msg) to a queue with room: push and the two counters.
SendDelivered(q, m) ==
    /\ total_sent < MaxSent
    /\ HasRoom(q)
    /\ messages' = [messages EXCEPT ![q][tail[q]] = <<m>>]
    /\ tail' = [tail EXCEPT ![q] = Advance(tail[q])]
    /\ count' = [count EXCEPT ![q] = count[q] + 1]
    /\ total_sent' = total_sent + 1
    /\ total_delivered' = total_delivered + 1
    /\ UNCHANGED <<head, total_dropped, received>>

\* send(msg) to a full queue: WouldBlock, and the message is counted.
SendDropped(q) ==
    /\ total_sent < MaxSent
    /\ ~HasRoom(q)
    /\ total_sent' = total_sent + 1
    /\ total_dropped' = total_dropped + 1
    /\ UNCHANGED <<messages, head, tail, count, total_delivered, received>>

\* Fault: pop takes the youngest message.
RecvYoungest(q) ==
    LET slot == (tail[q] + QUEUE_CAPACITY - 1) % QUEUE_CAPACITY IN
    /\ count[q] # 0
    /\ received' = [received EXCEPT ![q] = messages[q][slot]]
    /\ messages' = [messages EXCEPT ![q][slot] = NONE]
    /\ tail' = [tail EXCEPT ![q] = slot]
    /\ count' = [count EXCEPT ![q] = count[q] - 1]
    /\ UNCHANGED <<head, counters>>

\* recv(task) from a queue that is not empty: pop.
Recv(q) ==
    /\ count[q] # 0
    /\ received' = [received EXCEPT ![q] = messages[q][head[q]]]
    /\ messages' = [messages EXCEPT ![q][head[q]] = NONE]
    /\ head' = [head EXCEPT ![q] = Advance(head[q])]
    /\ count' = [count EXCEPT ![q] = count[q] - 1]
    /\ UNCHANGED <<tail, counters>>

IpcNext ==
    \E q \in Queues :
        Recv(q) \/ SendDropped(q) \/ \E m \in Messages : SendDelivered(q, m)

IpcSpec == IpcInit /\ [][IpcNext]_ipcVars

-----------------------------------------------------------------------------
\* Rings, indices and counters have their types.
IpcTypeOK ==
    /\ messages \in [Queues -> [Slots -> {<<m>> : m \in Messages} \cup {NONE}]]
    /\ head \in [Queues -> Slots] /\ tail \in [Queues -> Slots]
    /\ count \in [Queues -> 0..QUEUE_CAPACITY]
    /\ total_sent \in Nat /\ total_delivered \in Nat /\ total_dropped \in Nat
    /\ received \in [Queues -> {<<m>> : m \in Messages} \cup {NONE}]

\* The i-th slot after head, from 0.
SlotAt(q, i) == (head[q] + i) % QUEUE_CAPACITY

\* The slots that hold a message are the `count` slots from head, and tail is
\* the one after them: pop never finds None in a queue it believes non-empty,
\* through any number of wraparounds.
RingConsistent ==
    \A q \in Queues :
        /\ tail[q] = SlotAt(q, count[q])
        /\ \A i \in Slots : messages[q][SlotAt(q, i)] # NONE <=> i < count[q]

\* Every send is counted once, as delivered or as dropped.
SendsAccounted == total_sent = total_delivered + total_dropped

\* The messages waiting in each queue, oldest first.
Waiting == [q \in Queues |-> [i \in 1..count[q] |-> messages[q][SlotAt(q, i - 1)][1]]]

Channels == INSTANCE FifoChannels WITH
    Receivers <- Queues,
    Capacity <- QUEUE_CAPACITY,
    channel <- Waiting

\* The rings implement bounded FIFO channels: messages are received exactly
\* once, in the order in which they were delivered, and a send to a full
\* queue leaves the queue alone.
Fifo == Channels!ChannelSpec
=============================================================================
