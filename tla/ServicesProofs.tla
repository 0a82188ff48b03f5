---------------------------- MODULE ServicesProofs ----------------------------
(***************************************************************************)
(* Proofs about the kernel's services, for every size of their tables and  *)
(* buffers: the IPC rings, the console's sleep, the network of branes, the *)
(* audit log and the frame of the system-call entry stub.                  *)
(***************************************************************************)
EXTENDS AuditLog, SyscallEntry, Console, BraneNetwork, Ipc, SequenceTheorems, TLAPS

-----------------------------------------------------------------------------
(* The IPC rings.                                                          *)

\* Remainders of numbers below twice the divisor.
LEMMA SmallMod ==
    ASSUME NEW c \in Nat \ {0}, NEW x \in 0..(2 * c - 1)
    PROVE  x % c = IF x < c THEN x ELSE x - c
<1>1. CASE x < c
  BY <1>1, SMT
<1>2. CASE ~(x < c)
  <2>1. x - c \in 0..(c - 1)
    BY <1>2
  <2>2. x = c * 1 + (x - c)
    OBVIOUS
  <2> QED
    BY <1>2, <2>1, <2>2, SMT
<1> QED
  BY <1>1, <1>2

\* The successor of a slot.
LEMMA AdvanceSlot ==
    ASSUME NEW s \in Slots
    PROVE  Advance(s) \in Slots /\ Advance(s) = IF s + 1 < QUEUE_CAPACITY THEN s + 1 ELSE 0
<1>1. s + 1 \in 0..(2 * QUEUE_CAPACITY - 1)
  BY CapacityAssumption DEF Slots
<1>2. (s + 1) % QUEUE_CAPACITY
        = IF s + 1 < QUEUE_CAPACITY THEN s + 1 ELSE (s + 1) - QUEUE_CAPACITY
  BY <1>1, CapacityAssumption, SmallMod
<1> QED
  BY <1>2, CapacityAssumption DEF Advance, Slots

\* The slots of a ring, counted from its head.
LEMMA SlotOfRing ==
    ASSUME IpcTypeOK, NEW q \in Queues, NEW i \in 0..QUEUE_CAPACITY
    PROVE  /\ SlotAt(q, i) \in Slots
           /\ SlotAt(q, i) = IF head[q] + i < QUEUE_CAPACITY
                             THEN head[q] + i ELSE head[q] + i - QUEUE_CAPACITY
<1>1. head[q] \in Slots
  BY DEF IpcTypeOK
<1>2. head[q] + i \in 0..(2 * QUEUE_CAPACITY - 1)
  BY <1>1, CapacityAssumption DEF Slots
<1>3. (head[q] + i) % QUEUE_CAPACITY
        = IF head[q] + i < QUEUE_CAPACITY THEN head[q] + i ELSE (head[q] + i) - QUEUE_CAPACITY
  BY <1>2, CapacityAssumption, SmallMod
<1> QED
  BY <1>1, <1>3, CapacityAssumption DEF SlotAt, Slots

\* Different distances from a slot wrap to different slots.
LEMMA SameSlot ==
    ASSUME NEW c \in Nat, NEW h \in 0..(c - 1), NEW i \in 0..(c - 1), NEW j \in 0..(c - 1),
           (IF h + i < c THEN h + i ELSE h + i - c)
             = (IF h + j < c THEN h + j ELSE h + j - c)
    PROVE  i = j
<1>1. CASE h + i < c
  BY <1>1
<1>2. CASE ~(h + i < c)
  BY <1>2
<1> QED
  BY <1>1, <1>2

\* Different distances from the head are different slots.
LEMMA SlotsDiffer ==
    ASSUME IpcTypeOK, NEW q \in Queues, NEW i \in Slots, NEW j \in Slots,
           SlotAt(q, i) = SlotAt(q, j)
    PROVE  i = j
<1>1. i \in 0..QUEUE_CAPACITY /\ j \in 0..QUEUE_CAPACITY
  BY CapacityAssumption DEF Slots
<1>2. head[q] \in Slots
  BY DEF IpcTypeOK
<1>3. SlotAt(q, i) = IF head[q] + i < QUEUE_CAPACITY
                     THEN head[q] + i ELSE head[q] + i - QUEUE_CAPACITY
  BY <1>1, SlotOfRing
<1>4. SlotAt(q, j) = IF head[q] + j < QUEUE_CAPACITY
                     THEN head[q] + j ELSE head[q] + j - QUEUE_CAPACITY
  BY <1>1, SlotOfRing
<1> QED
  BY <1>2, <1>3, <1>4, CapacityAssumption, SameSlot DEF Slots

\* The next slot of the ring is one further from the head.
LEMMA NextSlot ==
    ASSUME IpcTypeOK, NEW q \in Queues, NEW i \in Slots
    PROVE  Advance(SlotAt(q, i)) = SlotAt(q, i + 1)
<1>1. i \in 0..QUEUE_CAPACITY /\ i + 1 \in 0..QUEUE_CAPACITY
  BY CapacityAssumption DEF Slots
<1>2. head[q] \in Slots
  BY DEF IpcTypeOK
<1>3. /\ SlotAt(q, i) \in Slots
      /\ SlotAt(q, i) = IF head[q] + i < QUEUE_CAPACITY
                        THEN head[q] + i ELSE head[q] + i - QUEUE_CAPACITY
      /\ SlotAt(q, i + 1) = IF head[q] + (i + 1) < QUEUE_CAPACITY
                            THEN head[q] + (i + 1) ELSE head[q] + (i + 1) - QUEUE_CAPACITY
  BY <1>1, SlotOfRing
<1>4. Advance(SlotAt(q, i))
        = IF SlotAt(q, i) + 1 < QUEUE_CAPACITY THEN SlotAt(q, i) + 1 ELSE 0
  BY <1>3, AdvanceSlot
<1> QED
  BY <1>2, <1>3, <1>4, CapacityAssumption DEF Slots

-----------------------------------------------------------------------------
\* The inductive invariant.
RingInv == IpcTypeOK /\ RingConsistent

\* A message, wrapped as an occupied slot, is not an empty slot.
LEMMA OccupiedSlot ==
    ASSUME NEW m
    PROVE  <<m>> # NONE /\ <<m>>[1] = m
  BY DEF NONE

\* What `push` does to the ring, slot by slot from the head.
LEMMA PushedSlots ==
    ASSUME RingInv, NEW q \in Queues, NEW m \in Messages, SendDelivered(q, m)
    PROVE  /\ IpcTypeOK'
           /\ count[q] \in Slots
           /\ \A p \in Queues, i \in 0..QUEUE_CAPACITY : SlotAt(p, i)' = SlotAt(p, i)
           /\ \A i \in Slots : messages'[q][SlotAt(q, i)] =
                IF i = count[q] THEN <<m>> ELSE messages[q][SlotAt(q, i)]
           /\ \A p \in Queues \ {q} : messages'[p] = messages[p]
<1>1. IpcTypeOK /\ tail[q] = SlotAt(q, count[q]) /\ tail[q] \in Slots
  BY DEF RingInv, RingConsistent, IpcTypeOK
<1>2. count[q] \in Slots
  BY <1>1, CapacityAssumption DEF IpcTypeOK, SendDelivered, HasRoom, Slots
<1>3. messages' = [messages EXCEPT ![q][tail[q]] = <<m>>]
  BY DEF SendDelivered
<1>4. /\ messages' \in [Queues -> [Slots -> {<<x>> : x \in Messages} \cup {NONE}]]
      /\ messages'[q] = [messages[q] EXCEPT ![tail[q]] = <<m>>]
      /\ \A p \in Queues \ {q} : messages'[p] = messages[p]
  BY <1>1, <1>3 DEF IpcTypeOK
<1>5. tail' \in [Queues -> Slots]
  BY <1>1, AdvanceSlot DEF SendDelivered, IpcTypeOK
<1>6. count' \in [Queues -> 0..QUEUE_CAPACITY]
  BY <1>1, <1>2, CapacityAssumption DEF SendDelivered, IpcTypeOK, Slots
<1>7. IpcTypeOK'
  BY <1>1, <1>4, <1>5, <1>6 DEF SendDelivered, IpcTypeOK
<1>8. \A p \in Queues, i \in 0..QUEUE_CAPACITY : SlotAt(p, i)' = SlotAt(p, i)
  BY DEF SendDelivered, SlotAt
<1>9. ASSUME NEW i \in Slots
      PROVE  messages'[q][SlotAt(q, i)] =
                IF i = count[q] THEN <<m>> ELSE messages[q][SlotAt(q, i)]
  <2>1. messages[q] \in [Slots -> {<<x>> : x \in Messages} \cup {NONE}]
    BY <1>1 DEF IpcTypeOK
  <2>2. i \in 0..QUEUE_CAPACITY
    BY CapacityAssumption DEF Slots
  <2>3. SlotAt(q, i) \in Slots
    BY <1>1, <2>2, SlotOfRing
  <2>4. SlotAt(q, i) = tail[q] <=> i = count[q]
    BY <1>1, <1>2, SlotsDiffer
  <2> QED
    BY <1>4, <2>1, <2>3, <2>4
<1> QED
  BY <1>2, <1>4, <1>7, <1>8, <1>9

\* What `pop` does to the ring: every other slot is one closer to the head.
LEMMA PoppedSlots ==
    ASSUME RingInv, NEW q \in Queues, Recv(q)
    PROVE  /\ IpcTypeOK'
           /\ count[q] - 1 \in Slots
           /\ \A i \in Slots : SlotAt(q, i)' = SlotAt(q, i + 1)
           /\ \A p \in Queues \ {q}, i \in 0..QUEUE_CAPACITY : SlotAt(p, i)' = SlotAt(p, i)
           /\ \A i \in Slots : messages'[q][SlotAt(q, i + 1)] =
                IF i = QUEUE_CAPACITY - 1 THEN NONE ELSE messages[q][SlotAt(q, i + 1)]
           /\ \A p \in Queues \ {q} : messages'[p] = messages[p]
           /\ SlotAt(q, 0) = head[q]
<1>1. IpcTypeOK /\ head[q] \in Slots
  BY DEF RingInv, IpcTypeOK
<1>2. count[q] - 1 \in Slots
  BY <1>1, CapacityAssumption DEF IpcTypeOK, Recv, Slots
<1>3. 0 \in Slots /\ 0 \in 0..QUEUE_CAPACITY
  BY CapacityAssumption DEF Slots
<1>4. SlotAt(q, 0) = head[q]
  BY <1>1, <1>3, SlotOfRing, CapacityAssumption DEF Slots
<1>5. /\ messages' \in [Queues -> [Slots -> {<<x>> : x \in Messages} \cup {NONE}]]
      /\ messages'[q] = [messages[q] EXCEPT ![head[q]] = NONE]
      /\ \A p \in Queues \ {q} : messages'[p] = messages[p]
  BY <1>1 DEF Recv, IpcTypeOK
<1>6. /\ head' \in [Queues -> Slots]
      /\ head'[q] = Advance(head[q])
      /\ \A p \in Queues \ {q} : head'[p] = head[p]
  BY <1>1, AdvanceSlot DEF Recv, IpcTypeOK
<1>7. count' \in [Queues -> 0..QUEUE_CAPACITY]
  BY <1>1, <1>2, CapacityAssumption DEF Recv, IpcTypeOK, Slots
<1>8. received' \in [Queues -> {<<m>> : m \in Messages} \cup {NONE}]
  BY <1>1 DEF Recv, IpcTypeOK
<1>9. IpcTypeOK'
  BY <1>1, <1>5, <1>6, <1>7, <1>8 DEF Recv, IpcTypeOK, counters
<1>10. ASSUME NEW i \in Slots PROVE SlotAt(q, i)' = SlotAt(q, i + 1)
  <2>1. i \in 0..QUEUE_CAPACITY /\ i + 1 \in 0..QUEUE_CAPACITY
    BY CapacityAssumption DEF Slots
  <2>2. SlotAt(q, i + 1) = IF head[q] + (i + 1) < QUEUE_CAPACITY
                           THEN head[q] + (i + 1) ELSE head[q] + (i + 1) - QUEUE_CAPACITY
    BY <1>1, <2>1, SlotOfRing
  <2>3. head'[q] = IF head[q] + 1 < QUEUE_CAPACITY THEN head[q] + 1 ELSE 0
    BY <1>1, <1>6, AdvanceSlot
  <2>4. head'[q] \in Slots
    BY <1>6
  <2>5. head'[q] + i \in 0..(2 * QUEUE_CAPACITY - 1)
    BY <2>4, CapacityAssumption DEF Slots
  <2>6. (head'[q] + i) % QUEUE_CAPACITY
          = IF head'[q] + i < QUEUE_CAPACITY THEN head'[q] + i
            ELSE (head'[q] + i) - QUEUE_CAPACITY
    BY <2>5, CapacityAssumption, SmallMod
  <2> QED
    BY <1>1, <2>2, <2>3, <2>6, CapacityAssumption DEF SlotAt, Slots
<1>11. ASSUME NEW p \in Queues \ {q}, NEW i \in 0..QUEUE_CAPACITY
       PROVE  SlotAt(p, i)' = SlotAt(p, i)
  BY <1>6 DEF SlotAt
<1>12. ASSUME NEW i \in Slots
       PROVE  messages'[q][SlotAt(q, i + 1)] =
                IF i = QUEUE_CAPACITY - 1 THEN NONE ELSE messages[q][SlotAt(q, i + 1)]
  <2>1. messages[q] \in [Slots -> {<<x>> : x \in Messages} \cup {NONE}]
    BY <1>1 DEF IpcTypeOK
  <2>2. i + 1 \in 0..QUEUE_CAPACITY
    BY CapacityAssumption DEF Slots
  <2>3. SlotAt(q, i + 1) \in Slots
    BY <1>1, <2>2, SlotOfRing
  <2>4. CASE i = QUEUE_CAPACITY - 1
    <3>1. SlotAt(q, i + 1) = head[q]
      BY <1>1, <2>2, <2>4, SlotOfRing, CapacityAssumption DEF Slots
    <3> QED
      BY <1>1, <1>5, <2>1, <2>4, <3>1
  <2>5. CASE i # QUEUE_CAPACITY - 1
    <3>1. i + 1 \in Slots /\ i + 1 # 0
      BY <2>5, CapacityAssumption DEF Slots
    <3>2. SlotAt(q, i + 1) # head[q]
      BY <1>1, <1>3, <1>4, <3>1, SlotsDiffer
    <3> QED
      BY <1>1, <1>5, <2>1, <2>3, <2>5, <3>2
  <2> QED
    BY <2>4, <2>5
<1> QED
  BY <1>2, <1>4, <1>5, <1>9, <1>10, <1>11, <1>12

-----------------------------------------------------------------------------
\* The ring stays consistent when a message is pushed.
LEMMA PushKeepsRing ==
    ASSUME RingInv, NEW q \in Queues, NEW m \in Messages, SendDelivered(q, m)
    PROVE  RingInv'
<1>1. /\ IpcTypeOK'
      /\ count[q] \in Slots
      /\ \A p \in Queues, i \in 0..QUEUE_CAPACITY : SlotAt(p, i)' = SlotAt(p, i)
      /\ \A i \in Slots : messages'[q][SlotAt(q, i)] =
            IF i = count[q] THEN <<m>> ELSE messages[q][SlotAt(q, i)]
      /\ \A p \in Queues \ {q} : messages'[p] = messages[p]
  BY PushedSlots
<1>2. /\ tail \in [Queues -> Slots] /\ count \in [Queues -> 0..QUEUE_CAPACITY]
      /\ tail' = [tail EXCEPT ![q] = Advance(tail[q])]
      /\ count' = [count EXCEPT ![q] = count[q] + 1]
  BY DEF RingInv, IpcTypeOK, SendDelivered
<1>3. \A i \in Slots : i \in 0..QUEUE_CAPACITY
  BY CapacityAssumption DEF Slots
<1>4. ASSUME NEW p \in Queues
      PROVE  /\ tail'[p] = SlotAt(p, count[p])'
             /\ \A i \in Slots : messages'[p][SlotAt(p, i)'] # NONE <=> i < count'[p]
  <2>1. tail[p] = SlotAt(p, count[p])
    BY DEF RingInv, RingConsistent
  <2>2. \A i \in Slots : messages[p][SlotAt(p, i)] # NONE <=> i < count[p]
    BY DEF RingInv, RingConsistent
  <2>3. CASE p = q
    <3>1. tail'[q] = Advance(SlotAt(q, count[q])) /\ count'[q] = count[q] + 1
      BY <1>2, <2>1, <2>3
    <3>2. Advance(SlotAt(q, count[q])) = SlotAt(q, count[q] + 1)
      BY <1>1, NextSlot DEF RingInv
    <3>3. count[q] + 1 \in 0..QUEUE_CAPACITY
      BY <1>1, CapacityAssumption DEF Slots
    <3>4. tail'[q] = SlotAt(q, count[q])'
      <4>1. \A k \in 0..QUEUE_CAPACITY : (head'[q] + k) % QUEUE_CAPACITY = SlotAt(q, k)
        BY <1>1 DEF SlotAt
      <4>2. SlotAt(q, count[q])' = (head'[q] + count'[q]) % QUEUE_CAPACITY
        BY DEF SlotAt
      <4> QED
        BY <3>1, <3>2, <3>3, <4>1, <4>2
    <3>5. ASSUME NEW i \in Slots
          PROVE  messages'[q][SlotAt(q, i)'] # NONE <=> i < count'[q]
      <4>1. messages'[q][SlotAt(q, i)'] =
              IF i = count[q] THEN <<m>> ELSE messages[q][SlotAt(q, i)]
        BY <1>1, <1>3
      <4>2. <<m>> # NONE
        BY OccupiedSlot
      <4>3. messages'[q][SlotAt(q, i)'] # NONE <=> (i = count[q] \/ i < count[q])
        BY <2>2, <2>3, <4>1, <4>2
      <4>4. (i = count[q] \/ i < count[q]) <=> i < count[q] + 1
        BY <1>1 DEF Slots
      <4> QED
        BY <3>1, <4>3, <4>4
    <3> QED
      BY <2>3, <3>4, <3>5
  <2>4. CASE p # q
    <3>1. tail'[p] = tail[p] /\ count'[p] = count[p] /\ messages'[p] = messages[p]
      BY <1>1, <1>2, <2>4
    <3>2. SlotAt(p, count[p])' = SlotAt(p, count[p])
      BY <1>1, <1>2, <3>1 DEF SlotAt
    <3>3. \A i \in Slots : SlotAt(p, i)' = SlotAt(p, i)
      BY <1>1, <1>3
    <3> QED
      BY <2>1, <2>2, <3>1, <3>2, <3>3
  <2> QED
    BY <2>3, <2>4
<1> QED
  BY <1>1, <1>4 DEF RingInv, RingConsistent

\* The ring stays consistent when a message is popped.
LEMMA PopKeepsRing ==
    ASSUME RingInv, NEW q \in Queues, Recv(q)
    PROVE  RingInv'
<1>1. /\ IpcTypeOK'
      /\ count[q] - 1 \in Slots
      /\ \A i \in Slots : SlotAt(q, i)' = SlotAt(q, i + 1)
      /\ \A p \in Queues \ {q}, i \in 0..QUEUE_CAPACITY : SlotAt(p, i)' = SlotAt(p, i)
      /\ \A i \in Slots : messages'[q][SlotAt(q, i + 1)] =
            IF i = QUEUE_CAPACITY - 1 THEN NONE ELSE messages[q][SlotAt(q, i + 1)]
      /\ \A p \in Queues \ {q} : messages'[p] = messages[p]
  BY PoppedSlots
<1>2. /\ count \in [Queues -> 0..QUEUE_CAPACITY] /\ tail' = tail
      /\ count' = [count EXCEPT ![q] = count[q] - 1]
  BY DEF RingInv, IpcTypeOK, Recv
<1>3. \A i \in Slots : i \in 0..QUEUE_CAPACITY
  BY CapacityAssumption DEF Slots
<1>4. ASSUME NEW p \in Queues
      PROVE  /\ tail'[p] = SlotAt(p, count[p])'
             /\ \A i \in Slots : messages'[p][SlotAt(p, i)'] # NONE <=> i < count'[p]
  <2>1. tail[p] = SlotAt(p, count[p])
    BY DEF RingInv, RingConsistent
  <2>2. \A i \in Slots : messages[p][SlotAt(p, i)] # NONE <=> i < count[p]
    BY DEF RingInv, RingConsistent
  <2>3. CASE p = q
    <3>1. count'[q] = count[q] - 1 /\ (count[q] - 1) + 1 = count[q]
      BY <1>2, CapacityAssumption
    <3>2. \A k \in Slots : (head'[q] + k) % QUEUE_CAPACITY = SlotAt(q, k + 1)
      BY <1>1 DEF SlotAt
    <3>3. tail'[q] = SlotAt(q, count[q])'
      <4>1. SlotAt(q, count[q])' = (head'[q] + count'[q]) % QUEUE_CAPACITY
        BY DEF SlotAt
      <4>2. count'[q] \in Slots /\ count'[q] + 1 = count[q]
        BY <1>1, <3>1
      <4>3. SlotAt(q, count[q])' = SlotAt(q, count'[q] + 1)
        BY <3>2, <4>1, <4>2
      <4> QED
        BY <1>2, <2>1, <2>3, <4>2, <4>3
    <3>4. ASSUME NEW i \in Slots
          PROVE  messages'[q][SlotAt(q, i)'] # NONE <=> i < count'[q]
      <4>1. messages'[q][SlotAt(q, i)'] =
              IF i = QUEUE_CAPACITY - 1 THEN NONE ELSE messages[q][SlotAt(q, i + 1)]
        BY <1>1
      <4>2. CASE i = QUEUE_CAPACITY - 1
        <5>1. ~(i < count'[q])
          BY <1>2, <3>1, <4>2, CapacityAssumption
        <5> QED
          BY <4>1, <4>2, <5>1
      <4>3. CASE i # QUEUE_CAPACITY - 1
        <5>1. i + 1 \in Slots
          BY <4>3, CapacityAssumption DEF Slots
        <5>2. messages[q][SlotAt(q, i + 1)] # NONE <=> i + 1 < count[q]
          BY <2>2, <2>3, <5>1
        <5>3. i + 1 < count[q] <=> i < count[q] - 1
          BY <1>2 DEF Slots
        <5> QED
          BY <3>1, <4>1, <4>3, <5>2, <5>3
      <4> QED
        BY <4>2, <4>3
    <3> QED
      BY <2>3, <3>3, <3>4
  <2>4. CASE p # q
    <3>1. tail'[p] = tail[p] /\ count'[p] = count[p] /\ messages'[p] = messages[p]
      BY <1>1, <1>2, <2>4
    <3>2. SlotAt(p, count[p])' = SlotAt(p, count[p])
      BY <1>1, <1>2, <2>4, <3>1 DEF SlotAt
    <3>3. \A i \in Slots : SlotAt(p, i)' = SlotAt(p, i)
      BY <1>1, <1>3, <2>4
    <3> QED
      BY <2>1, <2>2, <3>1, <3>2, <3>3
  <2> QED
    BY <2>3, <2>4
<1> QED
  BY <1>1, <1>4 DEF RingInv, RingConsistent

\* The ring is consistent when it is created, and in every step.
LEMMA RingInvInit == IpcInit => RingInv
<1> SUFFICES ASSUME IpcInit PROVE RingInv
  OBVIOUS
<1>1. 0 \in Slots /\ 0 \in 0..QUEUE_CAPACITY
  BY CapacityAssumption DEF Slots
<1>2. IpcTypeOK
  BY <1>1 DEF IpcInit, IpcTypeOK
<1>3. \A q \in Queues, i \in Slots : SlotAt(q, i) \in Slots
  <2>1. \A i \in Slots : i \in 0..QUEUE_CAPACITY
    BY CapacityAssumption DEF Slots
  <2> QED
    BY <1>2, <2>1, SlotOfRing
<1>4. ASSUME NEW q \in Queues PROVE tail[q] = SlotAt(q, count[q])
  <2>1. SlotAt(q, 0) = 0
    BY <1>1, <1>2, SlotOfRing, CapacityAssumption DEF IpcInit
  <2> QED
    BY <2>1 DEF IpcInit
<1>5. ASSUME NEW q \in Queues, NEW i \in Slots
      PROVE  messages[q][SlotAt(q, i)] # NONE <=> i < count[q]
  <2>1. messages[q][SlotAt(q, i)] = NONE
    BY <1>3 DEF IpcInit
  <2>2. ~(i < count[q])
    BY DEF IpcInit, Slots
  <2> QED
    BY <2>1, <2>2
<1> QED
  BY <1>2, <1>4, <1>5 DEF RingInv, RingConsistent

LEMMA RingInvStep == RingInv /\ [IpcNext]_ipcVars => RingInv'
<1> SUFFICES ASSUME RingInv, [IpcNext]_ipcVars PROVE RingInv'
  OBVIOUS
<1>1. ASSUME NEW q \in Queues, NEW m \in Messages, SendDelivered(q, m) PROVE RingInv'
  BY <1>1, PushKeepsRing
<1>2. ASSUME NEW q \in Queues, Recv(q) PROVE RingInv'
  BY <1>2, PopKeepsRing
<1>3. ASSUME NEW q \in Queues, SendDropped(q) PROVE RingInv'
  BY <1>3 DEF SendDropped, RingInv, IpcTypeOK, RingConsistent, SlotAt
<1>4. CASE UNCHANGED ipcVars
  BY <1>4 DEF ipcVars, counters, RingInv, IpcTypeOK, RingConsistent, SlotAt
<1> QED
  BY <1>1, <1>2, <1>3, <1>4 DEF IpcNext

LEMMA RingAlways == IpcSpec => []RingInv
  BY RingInvInit, RingInvStep, PTL DEF IpcSpec

\* Queues, indices and counters of the IPC core stay within their types:
\* no push or pop (ipc.rs MessageQueue) leaves the array.
THEOREM IpcTypeCorrect == IpcSpec => []IpcTypeOK
<1>1. RingInv => IpcTypeOK
  BY DEF RingInv
<1> QED
  BY <1>1, RingAlways, PTL

\* After any sequence of push and pop the messages are the `count` slots from
\* head, with tail behind them (ipc.rs MessageQueue).
THEOREM RingAlwaysConsistent == IpcSpec => []RingConsistent
<1>1. RingInv => RingConsistent
  BY DEF RingInv
<1> QED
  BY <1>1, RingAlways, PTL

\* IpcManager::send counts every message once, as delivered or as dropped.
THEOREM AllSendsAccounted == IpcSpec => []SendsAccounted
<1>1. IpcInit => SendsAccounted
  BY DEF IpcInit, SendsAccounted
<1>2. IpcTypeOK /\ SendsAccounted /\ [IpcNext]_ipcVars => SendsAccounted'
  <2> SUFFICES ASSUME IpcTypeOK, SendsAccounted, [IpcNext]_ipcVars PROVE SendsAccounted'
    OBVIOUS
  <2>1. total_sent \in Nat /\ total_delivered \in Nat /\ total_dropped \in Nat
    BY DEF IpcTypeOK
  <2>2. ASSUME NEW q \in Queues, NEW m \in Messages, SendDelivered(q, m)
        PROVE  SendsAccounted'
    BY <2>1, <2>2 DEF SendDelivered, SendsAccounted
  <2>3. ASSUME NEW q \in Queues, SendDropped(q) PROVE SendsAccounted'
    BY <2>1, <2>3 DEF SendDropped, SendsAccounted
  <2>4. ASSUME NEW q \in Queues, Recv(q) PROVE SendsAccounted'
    BY <2>4 DEF Recv, SendsAccounted, counters
  <2>5. CASE UNCHANGED ipcVars
    BY <2>5 DEF ipcVars, SendsAccounted, counters
  <2> QED
    BY <2>2, <2>3, <2>4, <2>5 DEF IpcNext
<1> QED
  BY <1>1, <1>2, IpcTypeCorrect, PTL DEF IpcSpec

-----------------------------------------------------------------------------
\* The implementation of FIFO channels.

\* Append and Tail of a sequence given as a function.
LEMMA AppendFunction ==
    ASSUME NEW S, NEW n \in Nat, NEW s \in [1..n -> S], NEW t \in [1..(n + 1) -> S],
           \A i \in 1..n : t[i] = s[i]
    PROVE  s \in Seq(S) /\ Len(s) = n /\ t = Append(s, t[n + 1])
<1>1. s \in Seq(S) /\ Len(s) = n /\ t[n + 1] \in S
  BY LenProperties, SeqDef
<1>2. /\ Append(s, t[n + 1]) \in Seq(S) /\ Len(Append(s, t[n + 1])) = n + 1
      /\ \A i \in 1..n : Append(s, t[n + 1])[i] = s[i]
      /\ Append(s, t[n + 1])[n + 1] = t[n + 1]
  BY <1>1, AppendProperties
<1>3. Append(s, t[n + 1]) = [i \in 1..(n + 1) |-> Append(s, t[n + 1])[i]]
  BY <1>2, LenProperties
<1>4. \A i \in 1..(n + 1) : Append(s, t[n + 1])[i] = t[i]
  BY <1>2
<1> QED
  BY <1>1, <1>3, <1>4

LEMMA TailFunction ==
    ASSUME NEW S, NEW n \in Nat \ {0}, NEW s \in [1..n -> S]
    PROVE  /\ s \in Seq(S) /\ s # <<>> /\ Head(s) = s[1]
           /\ Tail(s) = [i \in 1..(n - 1) |-> s[i + 1]]
<1>1. s \in Seq(S) /\ Len(s) = n
  BY LenProperties, SeqDef
<1>2. s # <<>>
  BY <1>1, EmptySeq
<1>3. /\ Head(s) = s[1]
      /\ Tail(s) \in Seq(S) /\ Len(Tail(s)) = n - 1
      /\ \A i \in 1..(n - 1) : Tail(s)[i] = s[i + 1]
  BY <1>1, <1>2, HeadTailProperties
<1>4. Tail(s) = [i \in 1..(n - 1) |-> Tail(s)[i]]
  BY <1>3, LenProperties
<1> QED
  BY <1>1, <1>2, <1>3, <1>4

\* What waits in a queue is a function on 1..count.
LEMMA WaitingType ==
    ASSUME RingInv, NEW q \in Queues
    PROVE  /\ count[q] \in 0..QUEUE_CAPACITY
           /\ Waiting[q] = [i \in 1..count[q] |-> messages[q][SlotAt(q, i - 1)][1]]
           /\ Waiting[q] \in [1..count[q] -> Messages]
           /\ \A i \in 1..count[q] : messages[q][SlotAt(q, i - 1)] = <<Waiting[q][i]>>
<1>1. count[q] \in 0..QUEUE_CAPACITY
  BY DEF RingInv, IpcTypeOK
<1>2. Waiting[q] = [i \in 1..count[q] |-> messages[q][SlotAt(q, i - 1)][1]]
  BY DEF Waiting
<1>3. ASSUME NEW i \in 1..count[q]
      PROVE  /\ Waiting[q][i] \in Messages
             /\ messages[q][SlotAt(q, i - 1)] = <<Waiting[q][i]>>
  <2>1. i - 1 \in Slots /\ i - 1 \in 0..QUEUE_CAPACITY /\ i - 1 < count[q]
    BY <1>1, CapacityAssumption DEF Slots
  <2>2. messages[q][SlotAt(q, i - 1)] # NONE
    BY <2>1 DEF RingInv, RingConsistent
  <2>3. SlotAt(q, i - 1) \in Slots
    BY <2>1, SlotOfRing DEF RingInv
  <2>4. messages[q][SlotAt(q, i - 1)] \in {<<m>> : m \in Messages} \cup {NONE}
    BY <2>3 DEF RingInv, IpcTypeOK
  <2>5. PICK m \in Messages : messages[q][SlotAt(q, i - 1)] = <<m>>
    BY <2>2, <2>4
  <2>6. Waiting[q][i] = m
    BY <1>2, <2>5
  <2> QED
    BY <2>5, <2>6
<1> QED
  BY <1>1, <1>2, <1>3

LEMMA DeliveredIsPut ==
    ASSUME RingInv, NEW q \in Queues, NEW m \in Messages, SendDelivered(q, m)
    PROVE  Channels!Put(q, m)
<1>2. /\ count[q] \in Slots
      /\ \A p \in Queues, i \in 0..QUEUE_CAPACITY : SlotAt(p, i)' = SlotAt(p, i)
      /\ \A i \in Slots : messages'[q][SlotAt(q, i)] =
            IF i = count[q] THEN <<m>> ELSE messages[q][SlotAt(q, i)]
      /\ \A p \in Queues \ {q} : messages'[p] = messages[p]
  BY PushedSlots
<1>3. /\ count \in [Queues -> 0..QUEUE_CAPACITY]
      /\ count' = [count EXCEPT ![q] = count[q] + 1]
      /\ head' = head /\ received' = received
  BY DEF RingInv, IpcTypeOK, SendDelivered
<1>4. /\ count[q] \in Nat /\ Waiting[q] \in [1..count[q] -> Messages]
      /\ Waiting[q] = [i \in 1..count[q] |-> messages[q][SlotAt(q, i - 1)][1]]
  BY WaitingType, CapacityAssumption
<1>5. Waiting'[q] = [i \in 1..(count[q] + 1) |-> messages'[q][SlotAt(q, i - 1)'][1]]
  <2>1. count'[q] = count[q] + 1
    BY <1>3
  <2> QED
    BY <2>1 DEF Waiting, SlotAt
<1>6. /\ Waiting'[q][count[q] + 1] = m
      /\ \A i \in 1..count[q] : Waiting'[q][i] = Waiting[q][i]
  <2>1. ASSUME NEW i \in 1..(count[q] + 1)
        PROVE  Waiting'[q][i] = IF i = count[q] + 1 THEN m ELSE Waiting[q][i]
    <3>1. i - 1 \in Slots /\ i - 1 \in 0..QUEUE_CAPACITY
      BY <1>2, <1>4, CapacityAssumption DEF Slots
    <3>2. messages'[q][SlotAt(q, i - 1)'] =
            IF i - 1 = count[q] THEN <<m>> ELSE messages[q][SlotAt(q, i - 1)]
      BY <1>2, <3>1
    <3>3. i - 1 = count[q] <=> i = count[q] + 1
      BY <1>4
    <3>4. i # count[q] + 1 => i \in 1..count[q]
      BY <1>4
    <3>5. i # count[q] + 1 => Waiting[q][i] = messages[q][SlotAt(q, i - 1)][1]
      BY <1>4, <3>4
    <3>6. Waiting'[q][i] = messages'[q][SlotAt(q, i - 1)'][1]
      BY <1>5
    <3> QED
      BY <3>2, <3>3, <3>5, <3>6, OccupiedSlot
  <2>2. count[q] + 1 \in 1..(count[q] + 1)
    BY <1>4
  <2>3. \A i \in 1..count[q] : i \in 1..(count[q] + 1) /\ i # count[q] + 1
    BY <1>4
  <2> QED
    BY <2>1, <2>2, <2>3
<1>7. Waiting[q] \in Seq(Messages) /\ Len(Waiting[q]) = count[q]
        /\ Waiting'[q] = Append(Waiting[q], m)
  <2> DEFINE n == count[q]
             s == Waiting[q]
             t == Waiting'[q]
  <2>1. /\ n \in Nat /\ s \in [1..n -> Messages] /\ t \in [1..(n + 1) -> Messages]
        /\ t[n + 1] = m /\ \A i \in 1..n : t[i] = s[i]
    <3>1. \A i \in 1..(n + 1) : t[i] \in Messages
      <4>1. \A i \in 1..(n + 1) : i = n + 1 \/ i \in 1..n
        BY <1>4
      <4> QED
        BY <1>4, <1>6, <4>1
    <3> QED
      BY <1>4, <1>5, <1>6, <3>1
  <2> HIDE DEF n, s, t
  <2>2. s \in Seq(Messages) /\ Len(s) = n /\ t = Append(s, t[n + 1])
    BY <2>1, AppendFunction
  <2> QED
    BY <2>1, <2>2 DEF n, s, t
<1>8. ASSUME NEW p \in Queues \ {q} PROVE Waiting'[p] = Waiting[p]
  <2>1. count'[p] = count[p] /\ messages'[p] = messages[p] /\ head' = head
    BY <1>2, <1>3
  <2> QED
    BY <2>1 DEF Waiting, SlotAt
<1>9. Waiting' = [Waiting EXCEPT ![q] = Append(Waiting[q], m)]
  BY <1>7, <1>8 DEF Waiting
<1> QED
  BY <1>2, <1>3, <1>7, <1>9, CapacityAssumption DEF Channels!Put, Slots

LEMMA RecvIsGet ==
    ASSUME RingInv, NEW q \in Queues, Recv(q)
    PROVE  Channels!Get(q)
<1>2. /\ count[q] - 1 \in Slots
      /\ \A i \in Slots : SlotAt(q, i)' = SlotAt(q, i + 1)
      /\ \A i \in Slots : messages'[q][SlotAt(q, i + 1)] =
            IF i = QUEUE_CAPACITY - 1 THEN NONE ELSE messages[q][SlotAt(q, i + 1)]
      /\ \A p \in Queues \ {q} : messages'[p] = messages[p]
      /\ SlotAt(q, 0) = head[q]
  BY PoppedSlots
<1>3. /\ count \in [Queues -> 0..QUEUE_CAPACITY]
      /\ count' = [count EXCEPT ![q] = count[q] - 1]
      /\ head \in [Queues -> Slots]
      /\ head' = [head EXCEPT ![q] = Advance(head[q])]
      /\ received' = [received EXCEPT ![q] = messages[q][head[q]]]
  BY DEF RingInv, IpcTypeOK, Recv
<1>4. /\ count[q] \in 1..QUEUE_CAPACITY /\ Waiting[q] \in [1..count[q] -> Messages]
      /\ Waiting[q] = [i \in 1..count[q] |-> messages[q][SlotAt(q, i - 1)][1]]
      /\ \A i \in 1..count[q] : messages[q][SlotAt(q, i - 1)] = <<Waiting[q][i]>>
  BY WaitingType, CapacityAssumption DEF Recv
<1>5. /\ Waiting[q] # <<>> /\ Head(Waiting[q]) = Waiting[q][1]
      /\ Tail(Waiting[q]) = [i \in 1..(count[q] - 1) |-> Waiting[q][i + 1]]
  <2>1. count[q] \in Nat \ {0}
    BY <1>4, CapacityAssumption
  <2> QED
    BY <1>4, <2>1, TailFunction
<1>6. messages[q][head[q]] = <<Waiting[q][1]>>
  <2>1. 1 \in 1..count[q] /\ 1 - 1 = 0
    BY <1>4, CapacityAssumption
  <2> QED
    BY <1>2, <1>4, <2>1
<1>7. Waiting'
        = [p \in Queues |-> [i \in 1..count'[p] |-> messages'[p][SlotAt(p, i - 1)'][1]]]
  BY <1>3 DEF Waiting, SlotAt
<1>8. Waiting'[q] = Tail(Waiting[q])
  <2>1. ASSUME NEW i \in 1..(count[q] - 1)
        PROVE  messages'[q][SlotAt(q, i - 1)'][1] = Waiting[q][i + 1]
    <3>1. /\ i - 1 \in Slots /\ (i - 1) + 1 = i /\ i - 1 # QUEUE_CAPACITY - 1
          /\ i + 1 \in 1..count[q] /\ (i + 1) - 1 = i
      BY <1>4, CapacityAssumption DEF Slots
    <3>2. SlotAt(q, i - 1)' = SlotAt(q, i)
      <4>1. SlotAt(q, i - 1)' = SlotAt(q, (i - 1) + 1)
        BY <1>2, <3>1
      <4> QED
        BY <3>1, <4>1
    <3>3. messages'[q][SlotAt(q, i)] = messages[q][SlotAt(q, i)]
      <4>1. messages'[q][SlotAt(q, (i - 1) + 1)] = messages[q][SlotAt(q, (i - 1) + 1)]
        BY <1>2, <3>1
      <4> QED
        BY <3>1, <4>1
    <3>4. Waiting[q][i + 1] = messages[q][SlotAt(q, (i + 1) - 1)][1]
      BY <1>4, <3>1
    <3> QED
      BY <3>1, <3>2, <3>3, <3>4
  <2>2. count'[q] = count[q] - 1
    BY <1>3
  <2> QED
    BY <1>5, <1>7, <2>1, <2>2
<1>9. ASSUME NEW p \in Queues \ {q} PROVE Waiting'[p] = Waiting[p]
  <2>1. count'[p] = count[p] /\ messages'[p] = messages[p] /\ head'[p] = head[p]
    BY <1>2, <1>3
  <2> QED
    BY <2>1 DEF Waiting, SlotAt
<1>10. Waiting' = [Waiting EXCEPT ![q] = Tail(Waiting[q])]
  BY <1>7, <1>8, <1>9 DEF Waiting
<1> QED
  BY <1>3, <1>5, <1>6, <1>10 DEF Channels!Get

\* The rings of ipc.rs implement bounded FIFO channels, for any number of
\* queues and any capacity: IpcManager::send delivers to the end of a channel
\* or changes none, and IpcManager::recv takes the oldest message exactly once.
THEOREM RingsAreFifo == IpcSpec => Fifo
<1>1. IpcInit => Channels!ChannelInit
  <2> SUFFICES ASSUME IpcInit PROVE Channels!ChannelInit
    OBVIOUS
  <2>1. ASSUME NEW q \in Queues PROVE Waiting[q] = <<>>
    <3>1. count[q] = 0
      BY DEF IpcInit
    <3>2. Waiting[q] \in [1..0 -> Messages]
      BY <3>1, RingInvInit, WaitingType
    <3> QED
      BY <3>2, EmptySeq, SeqDef
  <2> QED
    BY <2>1 DEF Channels!ChannelInit, IpcInit, Waiting, NONE
<1>2. RingInv /\ [IpcNext]_ipcVars => [Channels!ChannelNext]_<<Waiting, received>>
  <2> SUFFICES ASSUME RingInv, [IpcNext]_ipcVars
               PROVE  Channels!ChannelNext \/ UNCHANGED <<Waiting, received>>
    OBVIOUS
  <2>1. ASSUME NEW q \in Queues, NEW m \in Messages, SendDelivered(q, m)
        PROVE  Channels!ChannelNext
    BY <2>1, DeliveredIsPut DEF Channels!ChannelNext
  <2>2. ASSUME NEW q \in Queues, Recv(q) PROVE Channels!ChannelNext
    BY <2>2, RecvIsGet DEF Channels!ChannelNext
  <2>3. ASSUME NEW q \in Queues, SendDropped(q) PROVE UNCHANGED <<Waiting, received>>
    BY <2>3 DEF SendDropped, Waiting, SlotAt
  <2>4. CASE UNCHANGED ipcVars
    BY <2>4 DEF ipcVars, Waiting, SlotAt
  <2> QED
    BY <2>1, <2>2, <2>3, <2>4 DEF IpcNext
<1> QED
  BY <1>1, <1>2, RingAlways, PTL DEF IpcSpec, Fifo, Channels!ChannelSpec

-----------------------------------------------------------------------------
(* The console.                                                            *)

\* From the last look at the ring to the sleep, events that are left are
\* announced by a message or by the pending bit.
Announced == evring # <<>> => msi \/ pending

LooksDone == {"poll", "polling", "deliver", "echo", "echoing", "cli", "check"}

\* A ring that is empty has told the controller so: the next event sends a
\* message.  A pass ends with the ring announced or with its budget used up.
WakeInv ==
    /\ evring = <<>> => ~busy
    /\ pc = "final" => handled = RUNTIME_EVENT_BUDGET \/ Announced
    /\ pc \in LooksDone => Announced
    /\ NoLostWakeup

RingTypes == evring \in Seq({HidEvent, PortEvent}) /\ busy \in BOOLEAN /\ handled \in Nat

\* A step that touches neither the ring nor its announcements.
LEMMA QuietStep ==
    ASSUME WakeInv, UNCHANGED <<evring, busy, msi, pending, handled>>,
           pc' = "final" => pc = "final" \/ evring = <<>> \/ handled = RUNTIME_EVENT_BUDGET,
           pc' \in LooksDone => pc \in LooksDone,
           pc' = "asleep" => pc = "asleep" \/ (pc \in LooksDone /\ ~pending)
    PROVE  WakeInv' /\ (RingTypes => RingTypes')
BY DEF WakeInv, RingTypes, Announced, NoLostWakeup, LooksDone

\* The controller posts an event: it sends a message if the ring was empty.
LEMMA PostAnnounced ==
    ASSUME WakeInv, RingTypes, NEW event \in {HidEvent, PortEvent}, Post(event),
           UNCHANGED <<pc, pending, handled>>
    PROVE  WakeInv' /\ RingTypes'
<1>a. evring' = Append(evring, event) /\ evring \in Seq({HidEvent, PortEvent})
    BY DEF Post, RingTypes
<1>b. evring' # <<>> /\ evring' \in Seq({HidEvent, PortEvent})
    BY <1>a
<1>c. busy' = TRUE /\ busy' /\ (msi' <=> msi \/ ~busy)
    BY Zenon DEF Post
<1>1. evring' # <<>> /\ busy' /\ (msi' <=> msi \/ ~busy) /\ RingTypes'
    BY <1>b, <1>c DEF RingTypes
<1>2. Announced => Announced'
    BY <1>1 DEF Announced, WakeInv
<1>3. NoLostWakeup'
    BY <1>1 DEF NoLostWakeup, WakeInv
<1> QED BY <1>1, <1>2, <1>3 DEF WakeInv

\* The shell takes one event off the ring.
LEMMA DispatchAnnounced ==
    ASSUME WakeInv, RingTypes, DispatchOneEvent, UNCHANGED <<pc, pending, msi>>, pc \in {"drain", "polling"}
    PROVE  WakeInv'
<1>1. evring # <<>> /\ ~busy'
    BY DEF DispatchOneEvent
<1> QED BY <1>1 DEF WakeInv, Announced, NoLostWakeup, LooksDone

LEMMA DispatchTypes ==
    ASSUME RingTypes, DispatchOneEvent
    PROVE  RingTypes'
<1>1. evring # <<>> /\ evring' = Tail(evring) /\ busy' = FALSE /\ handled' = handled + 1
    BY DEF DispatchOneEvent
<1>2. evring' \in Seq({HidEvent, PortEvent})
    BY <1>1 DEF RingTypes
<1>3. busy' \in BOOLEAN
    BY <1>1, Zenon
<1> QED BY <1>1, <1>2, <1>3 DEF RingTypes

\* The invariant of the console's sleep.
LEMMA WakeInvariant == ConsoleSpec => [](WakeInv /\ RingTypes)
<1> DEFINE Inv == WakeInv /\ RingTypes
<1>1. ConsoleInit => Inv
    <2> SUFFICES ASSUME ConsoleInit
                 PROVE  Inv
        OBVIOUS
    <2>1. evring = <<>> /\ ~busy /\ handled = 0 /\ pc = "service"
        BY DEF ConsoleInit
    <2>2. busy \in BOOLEAN
        BY Zenon DEF ConsoleInit
    <2>3. <<>> \in Seq({HidEvent, PortEvent})
        BY EmptySeq
    <2> QED BY <2>1, <2>2, <2>3 DEF WakeInv, RingTypes, NoLostWakeup, LooksDone
<1>2. ASSUME Inv, [ConsoleNext]_consoleVars
      PROVE  Inv'
    <2>1. CASE PortChanges \/ \E new \in Reports : UsbReport(new)
        <3>1. PICK event \in {HidEvent, PortEvent} : Post(event)
            BY <2>1 DEF PortChanges, UsbReport
        <3>2. UNCHANGED <<pc, pending, handled>>
            BY <2>1 DEF PortChanges, UsbReport
        <3> QED BY <1>2, <3>1, <3>2, PostAnnounced
    <2>2. CASE ServiceDrains \/ PollDispatches
        <3>1. DispatchOneEvent /\ UNCHANGED <<pc, pending, msi>> /\ pc \in {"drain", "polling"}
            BY <2>2 DEF ServiceDrains, PollDispatches, Shell
        <3> QED BY <1>2, <3>1, DispatchAnnounced, DispatchTypes
    <2>3. CASE ServiceEnds
        <3>1. pc = "final" /\ pc' = "poll" /\ UNCHANGED msi
            BY <2>3 DEF ServiceEnds, Shell
        <3>2. CASE DispatchOneEvent
            <4>1. evring # <<>> /\ ~busy' /\ evring' = Tail(evring) /\ handled < RUNTIME_EVENT_BUDGET
                BY <3>2 DEF DispatchOneEvent
            <4>2. pending => pending'
                BY <2>3, Zenon DEF ServiceEnds
            <4>3. Announced
                BY <1>2, <3>1, <4>1, ConsoleAssumption DEF WakeInv, RingTypes
            <4>4. Announced'
                BY <3>1, <4>1, <4>2, <4>3 DEF Announced
            <4>5. WakeInv'
                BY <3>1, <4>1, <4>4 DEF WakeInv, NoLostWakeup, LooksDone
            <4> QED BY <1>2, <3>2, <4>5, DispatchTypes
        <3>3. CASE UNCHANGED <<handled, transfer, evring, busy>>
            <4>1. (pending => pending') /\ (handled = RUNTIME_EVENT_BUDGET => pending')
                BY <2>3, <3>3, Zenon DEF ServiceEnds
            <4>2. Announced'
                BY <1>2, <3>1, <3>3, <4>1 DEF WakeInv, Announced
            <4>3. WakeInv'
                BY <1>2, <3>1, <3>3, <4>2 DEF WakeInv, NoLostWakeup, LooksDone
            <4> QED BY <1>2, <3>3, <4>3 DEF RingTypes
        <3> QED BY <2>3, <3>2, <3>3 DEF ServiceEnds
    <2>4. CASE ServiceTakes \/ PollBegins
        <3>1. /\ UNCHANGED <<evring, busy, msi>>
              /\ handled' = 0
              /\ (pc = "service" /\ pc' = "drain") \/ (pc = "poll" /\ pc' = "polling" /\ UNCHANGED pending)
            BY <2>4 DEF ServiceTakes, PollBegins, Shell
        <3> QED BY <1>2, <3>1 DEF WakeInv, RingTypes, Announced, NoLostWakeup, LooksDone
    <2>5. CASE XhciInterrupt
        <3>1. /\ UNCHANGED <<evring, busy, handled>> /\ pending'
              /\ pc' = Woken /\ pc # "check"
            BY <2>5 DEF XhciInterrupt, Interruptible
        <3>2. pc' # "asleep" /\ (pc' = pc \/ pc' = "lock")
            BY <3>1 DEF Woken
        <3> QED BY <1>2, <3>1, <3>2 DEF WakeInv, RingTypes, Announced, NoLostWakeup, LooksDone
    <2>6. CASE TimerInterrupt \/ KeyboardInterrupt
        <3>1. UNCHANGED <<evring, busy, msi, pending, handled>> /\ pc' # "asleep" /\ (pc' = pc \/ pc' = "lock")
            BY <2>6 DEF TimerInterrupt, KeyboardInterrupt, Woken, usb
        <3> QED BY <1>2, <3>1, QuietStep DEF LooksDone
    <2>7. CASE HandlerEchoes \/ (\E key \in Keys : HandlerTypes(key)) \/ UNCHANGED consoleVars
        <3>1. UNCHANGED <<evring, busy, msi, pending, handled, pc>>
            BY <2>7 DEF HandlerEchoes, HandlerTypes, usb, consoleVars
        <3> QED BY <1>2, <3>1, QuietStep
    <2>8. CASE ServiceAcknowledges
        <3>1. UNCHANGED <<evring, busy, msi, pending, handled>> /\ pc' = "final" /\ PassEnds
            BY <2>8 DEF ServiceAcknowledges, Shell, usb
        <3> QED BY <1>2, <3>1, QuietStep DEF PassEnds, LooksDone
    <2>9. CASE PollFindsNothing \/ PollTakesReport \/ PollDisablesKeyboard \/ DeliverKey \/ EchoLocks
               \/ EchoUnlocks \/ MasksInterrupts
        <3>1. /\ UNCHANGED <<evring, busy, msi, pending>> /\ pc \in LooksDone
              /\ handled' \in {handled, 0}
              /\ pc' \in {"cli", "deliver", "echo", "echoing", "check"}
            BY <2>9 DEF PollFindsNothing, PollTakesReport, PollDisablesKeyboard, DeliverKey, EchoLocks,
                        EchoUnlocks, MasksInterrupts, Shell, usb, LooksDone, NextKey
        <3> QED BY <1>2, <3>1 DEF WakeInv, RingTypes, Announced, NoLostWakeup, LooksDone
    <2>10. CASE Sleeps
        <3>1. /\ UNCHANGED <<evring, busy, msi, pending, handled>> /\ pc = "check"
              /\ pc' = IF pending THEN "lock" ELSE "asleep"
            BY <2>10 DEF Sleeps, Shell, usb
        <3> QED BY <1>2, <3>1, QuietStep DEF LooksDone
    <2>11. CASE LocksTerminal \/ NoLine \/ ReadsLine \/ CommandPrints \/ CommandEnds
        <3>1. UNCHANGED <<evring, busy, msi, pending, handled>> /\ pc' \in {"read", "service", "run", "printing"}
            BY <2>11 DEF LocksTerminal, NoLine, ReadsLine, CommandPrints, CommandEnds, Shell, usb
        <3> QED BY <1>2, <3>1, QuietStep DEF LooksDone
    <2> QED BY <1>2, <2>1, <2>2, <2>3, <2>4, <2>5, <2>6, <2>7, <2>8, <2>9, <2>10, <2>11
            DEF ConsoleNext, ShellLoop
<1> QED BY <1>1, <1>2, PTL DEF ConsoleSpec

\* For any budget and any number of events: the shell never sleeps on events
\* of the controller without a message on its way.
THEOREM WakeupNeverLost == ConsoleSpec => []NoLostWakeup
<1>1. WakeInv => NoLostWakeup
    BY DEF WakeInv
<1> QED BY <1>1, WakeInvariant, PTL

\* A text is a line of letters that leaves room for the terminator.
LEMMA TextsFit ==
    ASSUME NEW t
    PROVE  t \in Texts <=> t \in Seq(Letters) /\ Len(t) <= MAX_LINE - 1
<1>1. MAX_LINE - 1 \in Nat
    BY ConsoleAssumption
<1>2. ASSUME t \in Texts
      PROVE  t \in Seq(Letters) /\ Len(t) <= MAX_LINE - 1
    <2>1. PICK n \in 0..(MAX_LINE - 1) : t \in [1..n -> Letters]
        BY <1>2 DEF Texts
    <2>2. n \in Nat /\ n <= MAX_LINE - 1
        BY <1>1, <2>1
    <2> QED BY <2>1, <2>2
<1>3. ASSUME t \in Seq(Letters), Len(t) <= MAX_LINE - 1
      PROVE  t \in Texts
    <2>1. Len(t) \in 0..(MAX_LINE - 1) /\ t \in [1..Len(t) -> Letters]
        BY <1>1, <1>3
    <2> QED BY <2>1 DEF Texts
<1> QED BY <1>2, <1>3

\* A key makes a text of a text.
LEMMA EditedFits ==
    ASSUME NEW t \in Texts, NEW key \in Keys
    PROVE  Edited(t, key) \in Texts
<1>1. t \in Seq(Letters) /\ Len(t) <= MAX_LINE - 1 /\ MAX_LINE \in Nat
    BY TextsFit, ConsoleAssumption
<1>2. CASE key = BS
    <2>1. SubSeq(t, 1, Len(t) - 1) \in Seq(Letters) /\ Len(SubSeq(t, 1, Len(t) - 1)) <= Len(t)
        BY <1>1
    <2>2. Len(SubSeq(t, 1, Len(t) - 1)) <= MAX_LINE - 1
        BY <1>1, <2>1
    <2>3. SubSeq(t, 1, Len(t) - 1) \in Texts
        BY <2>1, <2>2, TextsFit
    <2> QED BY <1>2, <2>3 DEF Edited
<1>3. CASE key # BS /\ key # NL /\ Len(t) < MAX_LINE - 1
    <2>1. key \in Letters
        BY <1>3 DEF Keys
    <2>2. Append(t, key) \in Seq(Letters) /\ Len(Append(t, key)) <= MAX_LINE - 1
        BY <1>1, <1>3, <2>1
    <2> QED BY <1>3, <2>2, TextsFit DEF Edited
<1> QED BY <1>2, <1>3 DEF Edited

\* No key makes the empty line.
LEMMA NothingMakes == Makes(<<>>, <<>>)
<1>1. <<>> \in Texts
    <2>1. <<>> \in Seq(Letters) /\ Len(<<>>) <= MAX_LINE - 1
        BY ConsoleAssumption, EmptySeq
    <2> QED BY <2>1, TextsFit
<1> DEFINE t == [i \in 0..Len(<<>>) |-> <<>>]
<1>2. Len(<<>>) = 0
    BY EmptySeq
<1>3. t \in [0..Len(<<>>) -> Texts] /\ t[0] = <<>> /\ t[Len(<<>>)] = <<>>
    BY <1>1, <1>2
<1>4. \A i \in 1..Len(<<>>) : t[i] = Edited(t[i - 1], <<>>[i])
    BY <1>2
<1> QED BY <1>3, <1>4 DEF Makes

\* One more key edits the text that was made.
LEMMA MakesMore ==
    ASSUME NEW s \in Seq(Keys), NEW text, NEW key \in Keys, Makes(s, text)
    PROVE  Makes(Append(s, key), Edited(text, key))
<1>1. PICK t \in [0..Len(s) -> Texts] :
            /\ t[0] = <<>> /\ t[Len(s)] = text
            /\ \A i \in 1..Len(s) : t[i] = Edited(t[i - 1], s[i])
    BY DEF Makes
<1>2. PICK n \in Nat : n = Len(s)
    OBVIOUS
<1> DEFINE a == Append(s, key)
           u == [i \in 0..(n + 1) |-> IF i = n + 1 THEN Edited(text, key) ELSE t[i]]
<1>3. Len(a) = n + 1 /\ a[n + 1] = key /\ \A i \in 1..n : a[i] = s[i]
    BY <1>2
<1>4. Edited(text, key) \in Texts
    <2>1. t[n] \in Texts
        BY <1>1, <1>2
    <2> QED BY <1>1, <1>2, <2>1, EditedFits
<1>5. u \in [0..(n + 1) -> Texts]
    BY <1>1, <1>2, <1>4
<1>6. u[0] = <<>> /\ u[n + 1] = Edited(text, key)
    BY <1>1, <1>2
<1>7. ASSUME NEW i \in 1..(n + 1)
      PROVE  u[i] = Edited(u[i - 1], a[i])
    <2>1. CASE i = n + 1
        <3>1. u[i] = Edited(text, key) /\ u[i - 1] = t[n] /\ a[i] = key
            BY <1>2, <1>3, <2>1
        <3> QED BY <1>1, <1>2, <3>1
    <2>2. CASE i # n + 1
        <3>1. i \in 1..n /\ u[i] = t[i] /\ u[i - 1] = t[i - 1] /\ a[i] = s[i]
            BY <1>2, <1>3, <1>7, <2>2
        <3> QED BY <1>1, <1>2, <3>1
    <2> QED BY <2>1, <2>2
<1> HIDE DEF u
<1>8. \E v \in [0..Len(a) -> Texts] :
            /\ v[0] = <<>> /\ v[Len(a)] = Edited(text, key)
            /\ \A i \in 1..Len(a) : v[i] = Edited(v[i - 1], a[i])
    BY <1>3, <1>5, <1>6, <1>7
<1> QED BY <1>8 DEF Makes

\* What was typed is on its way in order, in the report or decoded from it;
\* what reached the terminal made the line, and what was taken the command.
Delivering == {"deliver", "echo", "echoing"}

TypingInv ==
    /\ report \in Seq(Keys) /\ keys \in Seq(Keys) /\ keyed \in Seq(Keys)
    /\ sent = keys \o report
    /\ transfer = "armed" => report = <<>>
    /\ pc \notin Delivering => keys = <<>>
    /\ pc = "deliver" => keys # <<>>
    /\ Makes(keyed, line)
    /\ CommandHasAllKeys

\* A step that types nothing and delivers nothing.
LEMMA NothingTyped ==
    ASSUME TypingInv, UNCHANGED <<report, keys, keyed, sent, line>>,
           transfer' = "armed" => transfer = "armed",
           pc' = pc \/ (pc \notin Delivering /\ pc' \notin Delivering) \/ (pc \in Delivering /\ pc' \in {"echo", "echoing"}),
           CommandHasAllKeys'
    PROVE  TypingInv'
BY DEF TypingInv, Delivering

\* A command that is not there yet, or that stays as it is.
LEMMA SameCommand ==
    ASSUME CommandHasAllKeys,
           pc' \notin {"run", "printing"} \/ (pc \in {"run", "printing"} /\ UNCHANGED <<taken, command>>)
    PROVE  CommandHasAllKeys'
BY DEF CommandHasAllKeys, Makes, Texts, Edited

\* The keys reach the terminal in the order they were typed, and each edits
\* the line once.
LEMMA TypingInvariant == ConsoleSpec => []TypingInv
<1>1. ConsoleInit => TypingInv
    <2> SUFFICES ASSUME ConsoleInit
                 PROVE  TypingInv
        OBVIOUS
    <2>1. /\ report = <<>> /\ keys = <<>> /\ keyed = <<>> /\ sent = <<>> /\ line = <<>>
          /\ pc = "service"
        BY DEF ConsoleInit
    <2>2. <<>> \in Seq(Keys) /\ <<>> \o <<>> = <<>>
        BY EmptySeq
    <2> QED BY <2>1, <2>2, NothingMakes DEF TypingInv, CommandHasAllKeys, Delivering
<1>2. ASSUME TypingInv, [ConsoleNext]_consoleVars
      PROVE  TypingInv'
    <2>0. /\ report \in Seq(Keys) /\ keys \in Seq(Keys) /\ keyed \in Seq(Keys)
          /\ sent = keys \o report /\ Makes(keyed, line) /\ CommandHasAllKeys
        BY <1>2 DEF TypingInv
    <2>1. ASSUME NEW new \in Reports, UsbReport(new)
          PROVE  TypingInv'
        <3>1. PICK n \in 0..ReportKeys : new \in [1..n -> Keys]
            BY <2>1 DEF Reports
        <3>2. new \in Seq(Keys)
            <4>1. n \in Nat
                BY <3>1, ConsoleAssumption
            <4> QED BY <3>1, <4>1
        <3>3. /\ report = <<>> /\ report' = new /\ sent' = sent \o new /\ transfer' = "posted"
              /\ UNCHANGED <<pc, keys, keyed, line, taken, command>>
            BY <1>2, <2>1 DEF UsbReport, TypingInv, tty_state
        <3>4. sent' = keys' \o report'
            BY <2>0, <3>2, <3>3
        <3>5. CommandHasAllKeys'
            BY <2>0, <3>3, SameCommand
        <3>6. Makes(keyed, line)'
            BY <2>0, <3>3 DEF Makes, Texts, Edited
        <3> QED BY <1>2, <3>2, <3>3, <3>4, <3>5, <3>6 DEF TypingInv
    <2>2. ASSUME NEW key \in Keys, HandlerTypes(key)
          PROVE  TypingInv'
        <3>1. /\ UNCHANGED <<pc, report, keys, sent, transfer, taken, command>>
              /\ line' = Edited(line, key) /\ keyed' = Append(keyed, key)
            BY <2>2 DEF HandlerTypes, OnChar, usb
        <3>2. Makes(keyed', line')
            BY <2>0, <3>1, MakesMore
        <3>3. keyed' \in Seq(Keys)
            BY <2>0, <3>1
        <3>4. CommandHasAllKeys'
            BY <2>0, <3>1, SameCommand
        <3>5. Makes(keyed, line)'
            BY <3>2 DEF Makes, Texts, Edited
        <3> QED BY <1>2, <3>1, <3>3, <3>4, <3>5 DEF TypingInv
    <2>3. CASE DeliverKey
        <3>1. /\ pc = "deliver" /\ pc' = "echo" /\ UNCHANGED <<report, transfer, taken, command>>
              /\ line' = Edited(line, Head(keys)) /\ keyed' = Append(keyed, Head(sent))
              /\ keys' = Tail(keys) /\ sent' = Tail(sent)
            BY <2>3 DEF DeliverKey, OnChar, Shell
        <3>2. keys # <<>>
            BY <1>2, <3>1 DEF TypingInv
        <3>3. /\ Head(sent) = Head(keys) /\ Head(keys) \in Keys
              /\ Tail(keys) \in Seq(Keys) /\ Tail(sent) = Tail(keys) \o report
            BY <2>0, <3>2
        <3>4. Makes(keyed', line')
            BY <2>0, <3>1, <3>3, MakesMore
        <3>5. keyed' \in Seq(Keys)
            BY <2>0, <3>1, <3>3
        <3>6. CommandHasAllKeys'
            BY <2>0, <3>1, SameCommand
        <3>7. Makes(keyed, line)'
            BY <3>4 DEF Makes, Texts, Edited
        <3> QED BY <1>2, <3>1, <3>3, <3>5, <3>6, <3>7 DEF TypingInv, Delivering
    <2>4. CASE PollTakesReport
        <3>1. /\ pc = "polling" /\ pc' = NextKey(report) /\ keys' = report /\ report' = <<>>
              /\ UNCHANGED <<sent, keyed, line, taken, command>>
            BY <2>4 DEF PollTakesReport, Shell, tty_state, user
        <3>2. keys = <<>>
            BY <1>2, <3>1 DEF TypingInv, Delivering
        <3>3. <<>> \o report = report /\ report \o <<>> = report /\ <<>> \in Seq(Keys)
            BY <2>0, EmptySeq
        <3>4. pc' = (IF report = <<>> THEN "cli" ELSE "deliver")
            BY <3>1 DEF NextKey
        <3>5. CommandHasAllKeys'
            BY <2>0, <3>4, SameCommand
        <3>6. Makes(keyed, line)'
            BY <2>0, <3>1 DEF Makes, Texts, Edited
        <3> QED BY <2>0, <3>1, <3>2, <3>3, <3>4, <3>5, <3>6 DEF TypingInv, Delivering
    <2>5. CASE EchoUnlocks
        <3>1. /\ pc = "echoing" /\ pc' = NextKey(keys)
              /\ UNCHANGED <<report, keys, keyed, sent, line, transfer>>
            BY <2>5 DEF EchoUnlocks, Shell, usb, user
        <3>2. pc' = (IF keys = <<>> THEN "cli" ELSE "deliver")
            BY <3>1 DEF NextKey
        <3>3. CommandHasAllKeys'
            BY <2>0, <3>2, SameCommand
        <3>4. Makes(keyed, line)'
            BY <2>0, <3>1 DEF Makes, Texts, Edited
        <3> QED BY <1>2, <3>1, <3>2, <3>3, <3>4 DEF TypingInv, Delivering
    <2>6. CASE ReadsLine
        <3>1. /\ pc = "read" /\ pc' = "run" /\ UNCHANGED <<report, keys, sent, transfer>>
              /\ command' = line /\ taken' = keyed /\ keyed' = <<>> /\ line' = <<>>
            BY <2>6 DEF ReadsLine, Shell, usb
        <3>2. <<>> \in Seq(Keys)
            BY EmptySeq
        <3>3. Makes(taken', command')
            BY <2>0, <3>1
        <3>4. CommandHasAllKeys'
            BY <3>3 DEF CommandHasAllKeys, Makes, Texts, Edited
        <3>5. Makes(keyed, line)'
            BY <3>1, NothingMakes DEF Makes, Texts, Edited
        <3> QED BY <1>2, <3>1, <3>2, <3>4, <3>5 DEF TypingInv, Delivering
    <2>7. CASE \/ ServiceTakes \/ ServiceDrains \/ ServiceAcknowledges \/ ServiceEnds \/ PollBegins \/ PollDispatches
               \/ PollFindsNothing \/ PollDisablesKeyboard \/ EchoLocks \/ MasksInterrupts \/ Sleeps
               \/ LocksTerminal \/ NoLine \/ CommandPrints \/ CommandEnds
        <3>1. UNCHANGED <<report, keys, keyed, sent, line>>
            BY <2>7 DEF ServiceTakes, ServiceDrains, ServiceAcknowledges, ServiceEnds, PollBegins, PollDispatches,
               PollFindsNothing, PollDisablesKeyboard, EchoLocks, MasksInterrupts, Sleeps, LocksTerminal, NoLine,
               CommandPrints, CommandEnds, DispatchOneEvent, tty_state, usb, user
        <3>2. transfer' = "armed" => transfer = "armed"
            BY <2>7 DEF ServiceTakes, ServiceDrains, ServiceAcknowledges, ServiceEnds, PollBegins, PollDispatches,
               PollFindsNothing, PollDisablesKeyboard, EchoLocks, MasksInterrupts, Sleeps, LocksTerminal, NoLine,
               CommandPrints, CommandEnds, DispatchOneEvent, usb
        <3>3. /\ \/ pc \notin Delivering /\ pc' \notin Delivering
                 \/ pc \in Delivering /\ pc' \in {"echo", "echoing"}
              /\ \/ pc' \notin {"run", "printing"}
                 \/ pc \in {"run", "printing"} /\ UNCHANGED <<taken, command>>
            BY <2>7 DEF ServiceTakes, ServiceDrains, ServiceAcknowledges, ServiceEnds, PollBegins, PollDispatches,
               PollFindsNothing, PollDisablesKeyboard, EchoLocks, MasksInterrupts, Sleeps, LocksTerminal, NoLine,
               CommandPrints, CommandEnds, Shell, Delivering, user
        <3>4. CommandHasAllKeys'
            BY <2>0, <3>3, SameCommand
        <3> QED BY <1>2, <3>1, <3>2, <3>3, <3>4, NothingTyped
    <2>8. CASE TimerInterrupt \/ XhciInterrupt \/ KeyboardInterrupt \/ HandlerEchoes \/ PortChanges \/ UNCHANGED consoleVars
        <3>1. /\ UNCHANGED <<report, keys, keyed, sent, line, transfer, taken, command>>
              /\ pc' = pc \/ pc' = Woken
            BY <2>8 DEF TimerInterrupt, XhciInterrupt, KeyboardInterrupt, HandlerEchoes, PortChanges, consoleVars,
               tty_state, usb, user
        <3>2. pc' = pc \/ (pc = "asleep" /\ pc' = "lock")
            BY <3>1 DEF Woken
        <3>3. CommandHasAllKeys'
            BY <2>0, <3>1, <3>2, SameCommand
        <3> QED BY <1>2, <3>1, <3>2, <3>3, NothingTyped DEF Delivering
    <2> QED BY <1>2, <2>1, <2>2, <2>3, <2>4, <2>5, <2>6, <2>7, <2>8 DEF ConsoleNext, ShellLoop
<1> QED BY <1>1, <1>2, PTL DEF ConsoleSpec

\* For any line length, any reports and both keyboards: the command that the
\* shell executes is made by all keys that reached the terminal since the line
\* before was read, in the order they were typed.
THEOREM CommandAlwaysHasAllKeys == ConsoleSpec => []CommandHasAllKeys
<1>1. TypingInv => CommandHasAllKeys
    BY DEF TypingInv
<1> QED BY <1>1, TypingInvariant, PTL

-----------------------------------------------------------------------------
(* The network of branes.                                                  *)

PacketTypes == {"HandshakeResponse", "CapabilityExchange", "EncryptedData"}
Packets == [type : PacketTypes, nonce : Nat, whole : BOOLEAN]
SessionTypes == [state : {"Init", "WaitResponse", "WaitCapability", "Established", "Closed"},
                 keyed : BOOLEAN, offered : BOOLEAN, remote : BOOLEAN, tx : Nat, rx : Nat]

SessionTypeOK ==
    /\ session \in SessionTypes
    /\ wire \in Seq(Packets)
    /\ peer \in [sent : Nat, nonce : Nat]
    /\ accepted \in Seq(Nat)

\* Every data packet on its way bears a number the peer has used, and what
\* was accepted lies below the receive nonce; before the session is
\* established, where the nonce starts anew, nothing was accepted.
NonceInv ==
    /\ \A i \in 1..Len(wire) : wire[i].type = "EncryptedData" => wire[i].nonce < peer.nonce
    /\ \A i \in 1..Len(accepted) : accepted[i] < session.rx
    /\ session.state \in {"Init", "WaitResponse", "WaitCapability"} => accepted = <<>>

SessionInv == SessionTypeOK /\ NonceInv /\ AcceptedInOrder

\* What the session makes of a packet, by its type.
LEMMA PacketCases ==
    ASSUME SessionInv, NEW n \in 1..2, ProcessSessionData(n)
    PROVE  /\ wire[1] \in Packets /\ Len(wire) >= n
           /\ wire[1].type = "HandshakeResponse" => session' = ProcessHandshakeResponse(wire[1])
           /\ wire[1].type = "CapabilityExchange" => session' = ProcessCapabilityExchange(wire[1])
           /\ wire[1].type = "EncryptedData" => session' = ProcessData(wire[1])
           /\ accepted' = IF wire[1].type = "EncryptedData" /\ Decrypts(wire[1])
                          THEN Append(accepted, wire[1].nonce) ELSE accepted
           /\ wire' = SubSeq(wire, n + 1, Len(wire)) /\ UNCHANGED peer
<1>1. n <= Len(wire)
    BY DEF ProcessSessionData
<1>2. wire[1] \in Packets
    BY <1>1 DEF SessionInv, SessionTypeOK
<1>3. /\ wire[1].type = "HandshakeResponse" => session' = ProcessHandshakeResponse(wire[1])
      /\ wire[1].type = "CapabilityExchange" => session' = ProcessCapabilityExchange(wire[1])
      /\ wire[1].type = "EncryptedData" => session' = ProcessData(wire[1])
    BY Zenon DEF ProcessSessionData
<1> QED BY <1>1, <1>2, <1>3 DEF ProcessSessionData

\* A packet uses up a nonce, or resets it before anything was accepted.
LEMMA PacketTaken ==
    ASSUME SessionInv, NEW n \in 1..2, ProcessSessionData(n)
    PROVE  SessionInv'
<1> DEFINE p == wire[1]
<1> USE DEF SessionInv
<1>1. p \in Packets /\ p.type \in PacketTypes /\ p.nonce \in Nat
    BY PacketCases DEF Packets
<1>2. /\ wire' \in Seq(Packets) /\ Len(wire') = Len(wire) - n
      /\ \A i \in 1..Len(wire') : wire'[i] = wire[i + n]
    <2>1. wire' = SubSeq(wire, n + 1, Len(wire)) /\ n <= Len(wire) /\ Len(wire) \in Nat /\ n \in Int
        BY PacketCases, SMTT(30) DEF SessionTypeOK
    <2>2. \A i \in (n + 1)..Len(wire) : wire[i] \in Packets
        BY <2>1 DEF SessionTypeOK
    <2>3. /\ SubSeq(wire, n + 1, Len(wire)) \in Seq(Packets)
          /\ Len(SubSeq(wire, n + 1, Len(wire))) = IF n + 1 <= Len(wire) THEN Len(wire) - (n + 1) + 1 ELSE 0
          /\ \A i \in 1..(Len(wire) - (n + 1) + 1) : SubSeq(wire, n + 1, Len(wire))[i] = wire[(n + 1) + i - 1]
        BY <2>1, <2>2, SubSeqProperties
    <2>4. Len(wire') = Len(wire) - n /\ Len(wire') = Len(wire) - (n + 1) + 1
        BY <2>1, <2>3
    <2>5. ASSUME NEW i \in 1..Len(wire')
          PROVE  wire'[i] = wire[i + n]
        <3>1. (n + 1) + i - 1 = i + n
            BY <2>1, <2>4
        <3> QED BY <2>1, <2>3, <2>4, <3>1
    <2> QED BY <2>1, <2>3, <2>4, <2>5
<1>3. \A i \in 1..Len(wire') : wire'[i].type = "EncryptedData" => wire'[i].nonce < peer'.nonce
    BY <1>2, PacketCases DEF NonceInv
<1>4. CASE p.type = "HandshakeResponse"
    <2>1. accepted' = accepted /\ peer' = peer
        BY <1>4, PacketCases
    <2>2. session' = session \/ (session.state = "WaitResponse" /\ session'.state = "WaitCapability")
        BY <1>4, PacketCases DEF ProcessHandshakeResponse, SessionTypeOK, SessionTypes
    <2>3. session' \in SessionTypes
        <3>1. \/ session' = session
              \/ session' = [session EXCEPT !.state = "WaitCapability", !.keyed = TRUE, !.tx = 0, !.rx = 0]
            BY <1>4, PacketCases DEF ProcessHandshakeResponse
        <3>2. session \in SessionTypes /\ 0 \in Nat
            BY DEF SessionTypeOK
        <3> QED BY ONLY <3>1, <3>2 DEF SessionTypes
    <2> QED BY <1>2, <1>3, <2>1, <2>2, <2>3, EmptySeq DEF NonceInv, SessionTypeOK, AcceptedInOrder
<1>5. CASE p.type = "CapabilityExchange"
    <2>1. accepted' = accepted /\ peer' = peer
        BY <1>5, PacketCases
    <2>2. session'.rx = session.rx /\ (session'.state = session.state \/ session'.state = "Established")
        BY <1>5, PacketCases DEF ProcessCapabilityExchange, SessionTypeOK, SessionTypes
    <2>3. session' \in SessionTypes
        BY <1>5, PacketCases DEF ProcessCapabilityExchange, SessionTypeOK, SessionTypes
    <2> QED BY <1>2, <1>3, <2>1, <2>2, <2>3 DEF NonceInv, SessionTypeOK, AcceptedInOrder
<1>6. CASE p.type = "EncryptedData" /\ session.state = "Established"
    <2>1. session' = [session EXCEPT !.rx = session.rx + 1] /\ peer' = peer
        BY <1>6, PacketCases DEF ProcessData
    <2>2. session.rx \in Nat /\ session.rx + 1 \in Nat
        BY DEF SessionTypeOK, SessionTypes
    <2>3. session' \in SessionTypes /\ session'.rx = session.rx + 1 /\ session'.state = "Established"
        BY <1>6, <2>1, <2>2 DEF SessionTypeOK, SessionTypes
    <2>4. accepted' = accepted \/ (accepted' = Append(accepted, p.nonce) /\ p.nonce = session.rx)
        BY PacketCases DEF Decrypts, NonceMatches
    <2>5. p.nonce < peer.nonce
        BY <1>6, PacketCases, SMTT(30) DEF NonceInv, SessionTypeOK
    <2>6. accepted' \in Seq(Nat)
        <3>1. accepted \in Seq(Nat) /\ p.nonce \in Nat
            BY <1>1 DEF SessionTypeOK
        <3>2. Append(accepted, p.nonce) \in Seq(Nat)
            BY <3>1, AppendProperties
        <3> QED BY <2>4, <3>1, <3>2
    <2>7. \A i \in 1..Len(accepted) : accepted[i] \in Nat /\ accepted[i] < session.rx
        BY DEF SessionTypeOK, NonceInv
    <2>8. CASE accepted' = accepted
        BY <1>2, <1>3, <2>1, <2>2, <2>3, <2>7, <2>8 DEF NonceInv, SessionTypeOK, AcceptedInOrder
    <2>9. CASE accepted' = Append(accepted, p.nonce) /\ p.nonce = session.rx
        <3>1. /\ Len(accepted') = Len(accepted) + 1 /\ Len(accepted) \in Nat
              /\ \A i \in 1..Len(accepted) : accepted'[i] = accepted[i]
              /\ accepted'[Len(accepted) + 1] = session.rx
            BY <1>1, <2>9 DEF SessionTypeOK
        <3>2. \A i \in 1..Len(accepted') : accepted'[i] < session'.rx
            BY <2>2, <2>3, <2>7, <3>1
        <3>3. AcceptedInOrder'
            BY <2>1, <2>2, <2>5, <2>7, <2>9, <3>1 DEF AcceptedInOrder
        <3> QED BY <1>2, <1>3, <2>1, <2>3, <2>6, <3>2, <3>3 DEF NonceInv, SessionTypeOK
    <2> QED BY <2>4, <2>8, <2>9
<1>7. CASE p.type = "EncryptedData" /\ session.state # "Established"
    <2>1. session' = session /\ peer' = peer /\ accepted' = accepted
        BY <1>7, PacketCases DEF ProcessData, Decrypts
    <2> QED BY <1>2, <1>3, <2>1 DEF NonceInv, SessionTypeOK, AcceptedInOrder
<1> QED BY <1>1, <1>4, <1>5, <1>6, <1>7 DEF PacketTypes

\* The peer numbers its packets in order, and may repeat them.
LEMMA PacketSent ==
    ASSUME SessionInv, NEW type \in PacketTypes, NEW nonce \in 0..MaxPackets, NEW whole \in BOOLEAN,
           PeerSends(type, nonce, whole)
    PROVE  SessionInv'
<1> USE DEF SessionInv
<1> DEFINE p == [type |-> type, nonce |-> nonce, whole |-> whole]
<1>1. UNCHANGED <<session, accepted>> /\ wire' = Append(wire, p)
    BY DEF PeerSends
<1>2. /\ peer.nonce \in Nat /\ peer.sent + 1 \in Nat /\ nonce \in Nat /\ nonce <= peer.nonce
      /\ peer'.nonce = IF type = "EncryptedData" /\ nonce = peer.nonce THEN peer.nonce + 1 ELSE peer.nonce
      /\ peer'.sent = peer.sent + 1
    BY DEF PeerSends, SessionTypeOK
<1>3. peer' \in [sent : Nat, nonce : Nat]
    BY <1>2 DEF PeerSends
<1>4. /\ wire' \in Seq(Packets) /\ Len(wire') = Len(wire) + 1 /\ Len(wire) \in Nat
      /\ \A i \in 1..Len(wire) : wire'[i] = wire[i]
      /\ wire'[Len(wire) + 1] = p
    BY <1>1, <1>2 DEF SessionTypeOK, Packets
<1>5. peer.nonce <= peer'.nonce /\ (type = "EncryptedData" => nonce < peer'.nonce) /\ peer'.nonce \in Nat
    BY <1>2
<1>6. \A i \in 1..Len(wire') : wire'[i].type = "EncryptedData" => wire'[i].nonce < peer'.nonce
    <2> SUFFICES ASSUME NEW i \in 1..Len(wire'), wire'[i].type = "EncryptedData"
                 PROVE  wire'[i].nonce < peer'.nonce
        OBVIOUS
    <2>1. CASE i \in 1..Len(wire)
        <3>1. wire[i] \in Packets /\ wire[i].nonce < peer.nonce
            BY <1>4, <2>1 DEF NonceInv, SessionTypeOK
        <3>2. wire[i].nonce \in Nat
            BY <3>1 DEF Packets
        <3> QED BY <1>2, <1>4, <1>5, <2>1, <3>1, <3>2
    <2>2. CASE i = Len(wire) + 1
        BY <1>4, <1>5, <2>2
    <2> QED BY <1>4, <2>1, <2>2
<1>7. AcceptedInOrder'
    BY <1>1, <1>2, <1>5 DEF AcceptedInOrder, SessionTypeOK
<1> QED BY <1>1, <1>3, <1>4, <1>6, <1>7 DEF NonceInv, SessionTypeOK

\* The invariant of a session.
LEMMA SessionInvariant == BraneSpec => []SessionInv
<1>1. BraneInit => SessionInv
    BY EmptySeq DEF BraneInit, NewSession, SessionInv, SessionTypeOK, SessionTypes, NonceInv, AcceptedInOrder
<1>2. SessionInv /\ [BraneNext]_braneVars => SessionInv'
    <2> SUFFICES ASSUME SessionInv, [BraneNext]_braneVars
                 PROVE  SessionInv'
        OBVIOUS
    <2>1. CASE UNCHANGED sessionVars
        BY <2>1 DEF sessionVars, SessionInv, SessionTypeOK, NonceInv, AcceptedInOrder
    <2>2. CASE BuildHandshakeInit \/ BuildCapabilityExchange \/ EncryptPayload \/ CloseSession
        <3>1. UNCHANGED <<wire, peer, accepted>>
            BY <2>2 DEF BuildHandshakeInit, BuildCapabilityExchange, EncryptPayload, CloseSession
        <3>2. session.tx + 1 \in Nat
            BY DEF SessionInv, SessionTypeOK, SessionTypes
        <3>3. /\ session' \in SessionTypes /\ session'.rx = session.rx
              /\ \/ session'.state = session.state \/ session'.state = "Closed"
                 \/ session'.state = "WaitResponse" /\ session.state = "Init"
            BY <2>2, <3>2 DEF BuildHandshakeInit, BuildCapabilityExchange, EncryptPayload, CloseSession,
                SessionInv, SessionTypeOK, SessionTypes
        <3> QED BY <3>1, <3>3 DEF SessionInv, SessionTypeOK, NonceInv, AcceptedInOrder
    <2> QED BY <2>1, <2>2, PacketTaken, PacketSent DEF BraneNext, Sessions, braneVars, PacketTypes
<1> QED BY <1>1, <1>2, PTL DEF BraneSpec

\* However many packets are damaged, repeated or swallowed: a session accepts
\* data in the order the peer numbered it, each number once, and none that the
\* peer has not used.
THEOREM AlwaysAcceptedInOrder == BraneSpec => []AcceptedInOrder
<1>1. SessionInv => AcceptedInOrder
    BY DEF SessionInv
<1> QED BY <1>1, SessionInvariant, PTL

Protocols == {"none", "Tcp", "Udp"}
SocketStates == {"Created", "Bound", "Listening", "Connected", "Closed"}
Sockets == [id : Nat, protocol : Protocols, state : SocketStates]

\* The tables of sockets and sessions: ids are numbers, below the next one.
TableInv ==
    /\ sockets \in [1..MAX_SOCKETS -> Sockets]
    /\ sessions \in [1..MAX_SESSIONS -> [id : Nat, brane : Nat]]
    /\ next_socket_id \in Nat /\ next_session_id \in Nat /\ discovered \in Nat

\* A slot of the socket table that is active after a step is the new socket's,
\* or the same socket's as before.
SocketsOf ==
    \A i \in 1..MAX_SOCKETS : Active(i)' =>
        \/ sockets'[i].id = next_socket_id
        \/ Active(i) /\ sockets'[i].id = sockets[i].id

SessionsOf ==
    \A i \in 1..MAX_SESSIONS :
        \/ sessions'[i].id \in {0, next_session_id}
        \/ sessions'[i].id = sessions[i].id

LEMMA SocketCreated ==
    ASSUME TableInv, NEW protocol \in Protocols, CreateSocket(protocol)
    PROVE  /\ sockets' \in [1..MAX_SOCKETS -> Sockets]
           /\ next_socket_id' \in Nat /\ SocketsOf
<1> DEFINE new == [id |-> next_socket_id, protocol |-> protocol, state |-> "Created"]
<1>1. \E k : sockets' = [sockets EXCEPT ![k] = new]
    BY DEF CreateSocket
<1>2. PICK k : sockets' = [sockets EXCEPT ![k] = new]
    BY <1>1
<1>3. new \in Sockets /\ next_socket_id' = next_socket_id + 1
    BY DEF TableInv, CreateSocket, Sockets, SocketStates
<1>4. \A i \in 1..MAX_SOCKETS : sockets'[i] = IF i = k THEN new ELSE sockets[i]
    BY <1>2 DEF TableInv
<1>5. new.id = next_socket_id
    OBVIOUS
<1> HIDE DEF new
<1>6. SocketsOf
    BY <1>4, <1>5 DEF SocketsOf, Active
<1>7. sockets' \in [1..MAX_SOCKETS -> Sockets]
    BY <1>2, <1>3 DEF TableInv
<1> QED BY <1>3, <1>6, <1>7 DEF TableInv

LEMMA SocketChanged ==
    ASSUME TableInv, NEW id, NEW state \in SocketStates, SetState(id, state)
    PROVE  /\ sockets' \in [1..MAX_SOCKETS -> Sockets]
           /\ SocketsOf
<1>1. \A i \in 1..MAX_SOCKETS :
          /\ sockets'[i] = IF i \in Holding(id) THEN [sockets[i] EXCEPT !.state = state] ELSE sockets[i]
          /\ sockets[i] \in Sockets
    BY DEF SetState, TableInv
<1>2. \A i \in 1..MAX_SOCKETS : sockets'[i] \in Sockets
    BY <1>1 DEF Sockets
<1>3. \A i \in 1..MAX_SOCKETS : sockets'[i].id = sockets[i].id /\ (Active(i)' => Active(i))
    BY <1>1 DEF Sockets, Active, Holding
<1> QED BY <1>2, <1>3 DEF SetState, SocketsOf

\* Every operation on the tables gives out new ids only.
LEMMA TablesKept ==
    ASSUME TableInv, [BraneNext]_braneVars
    PROVE  TableInv' /\ SocketsOf /\ SessionsOf
<1>1. CASE UNCHANGED <<tableVars, managerVars>>
    BY <1>1 DEF tableVars, managerVars, TableInv, SocketsOf, SessionsOf, Active
<1>2. CASE Tables /\ UNCHANGED managerVars
    <2>1. UNCHANGED <<sessions, next_session_id, discovered>> /\ SessionsOf
        BY <1>2 DEF managerVars, SessionsOf
    <2>2. CASE \E protocol \in {"Tcp", "Udp"} : CreateSocket(protocol)
        BY <2>1, <2>2, SocketCreated DEF TableInv, Protocols
    <2>3. CASE \E id \in 1..MaxSocketIds : Bind(id) \/ Listen(id) \/ ConnectSocket(id) \/ CloseSocket(id)
        <3>1. PICK id \in 1..MaxSocketIds, state \in SocketStates : SetState(id, state) /\ UNCHANGED next_socket_id
            BY <2>3 DEF Bind, Listen, ConnectSocket, CloseSocket, SocketStates
        <3> QED BY <2>1, <3>1, SocketChanged DEF TableInv
    <2>4. CASE SendHandshakeInit
        BY <2>1, <2>4 DEF SendHandshakeInit, TableInv, SocketsOf, Active
    <2> QED BY <1>2, <2>2, <2>3, <2>4 DEF Tables, InitiateHandshake
<1>3. CASE Manages /\ UNCHANGED tableVars
    <2>1. UNCHANGED <<sockets, next_socket_id>> /\ SocketsOf
        BY <1>3 DEF tableVars, SocketsOf, Active
    <2>2. CASE RegisterDiscovered
        BY <2>1, <2>2 DEF RegisterDiscovered, TableInv, SessionsOf
    <2>3. ASSUME NEW brane \in 1..MAX_DISCOVERED, ConnectBrane(brane)
          PROVE  TableInv' /\ SessionsOf
        <3>1. PICK slot \in 1..MAX_SESSIONS :
                  sessions' = [sessions EXCEPT ![slot] = [id |-> next_session_id, brane |-> brane]]
            BY <2>3 DEF ConnectBrane, SessionId
        <3>2. [id |-> next_session_id, brane |-> brane] \in [id : Nat, brane : Nat]
            BY BraneAssumption DEF TableInv
        <3>3. SessionsOf
            BY <3>1 DEF SessionsOf, TableInv
        <3>4. next_session_id' \in Nat /\ discovered' = discovered
            BY <2>3 DEF ConnectBrane, TableInv
        <3> QED BY <2>1, <3>1, <3>2, <3>3, <3>4 DEF TableInv
    <2>4. ASSUME NEW id \in 1..MaxSessionIds, Disconnect(id)
          PROVE  TableInv' /\ SessionsOf
        <3>1. PICK slot \in 1..MAX_SESSIONS : sessions' = [sessions EXCEPT ![slot] = [id |-> 0, brane |-> 0]]
            BY <2>4 DEF Disconnect, NoSession
        <3>2. SessionsOf
            BY <3>1 DEF SessionsOf, TableInv
        <3> QED BY <2>1, <2>4, <3>1, <3>2 DEF TableInv, Disconnect
    <2> QED BY <1>3, <2>1, <2>2, <2>3, <2>4 DEF Manages
<1> QED BY <1>1, <1>2, <1>3 DEF BraneNext, braneVars

\* For tables of any size: the id of a closed socket or of an ended session
\* never names one again, although its slot does.
THEOREM StaleIdsRefused == BraneSpec => StaleIdRefused
<1>1. BraneInit => TableInv
    <2>1. FreeSocket \in Sockets /\ NoSession \in [id : Nat, brane : Nat]
        BY DEF FreeSocket, NoSession, Sockets, Protocols, SocketStates
    <2> QED BY <2>1 DEF BraneInit, TableInv
<1>2. TableInv /\ [BraneNext]_braneVars =>
          /\ (SocketIds' \ SocketIds) \cap 1..next_socket_id - 1 = {}
          /\ (SessionIds' \ SessionIds) \cap 1..next_session_id - 1 = {}
    <2> SUFFICES ASSUME TableInv, [BraneNext]_braneVars
                 PROVE  /\ (SocketIds' \ SocketIds) \cap 1..next_socket_id - 1 = {}
                        /\ (SessionIds' \ SessionIds) \cap 1..next_session_id - 1 = {}
        OBVIOUS
    <2>1. SocketIds' \subseteq SocketIds \cup {next_socket_id}
        BY TablesKept DEF SocketIds, SocketsOf
    <2>2. SessionIds' \subseteq SessionIds \cup {next_session_id}
        BY TablesKept DEF SessionIds, SessionsOf
    <2> QED BY <2>1, <2>2 DEF TableInv
<1>3. TableInv /\ [BraneNext]_braneVars => TableInv'
    BY TablesKept
<1> QED BY <1>1, <1>2, <1>3, PTL DEF BraneSpec, StaleIdRefused

-----------------------------------------------------------------------------
(* The audit log.                                                          *)

\* The slot of the i-th oldest event, from 0.
LogSlot(i) == (log_head + i) % AUDIT_LOG_SIZE

LogTypeOK ==
    /\ events \in [LogSlots -> Seq(AuditEvents)]
    /\ log_head \in LogSlots /\ log_count \in 0..AUDIT_LOG_SIZE
    /\ overwritten \in Nat
    /\ total_events = overwritten + log_count /\ next_seq = total_events + 1
    /\ total_ticks \in 0..MaxTicks
    /\ snapshot \in [Cpus -> Seq(0..MaxTicks)]

\* The slots that count hold events, and no event of a CPU is younger than a
\* tick the CPU has captured and not yet recorded.
InOrder(c, tick) == \A i \in 0..(log_count - 1) :
    events[LogSlot(i)][1].cpu_id = c => events[LogSlot(i)][1].tick <= tick

LogInv ==
    /\ LogTypeOK
    /\ \A i \in 0..(log_count - 1) : events[LogSlot(i)] # None
    /\ \A c \in Cpus : /\ InOrder(c, total_ticks)
                       /\ snapshot[c] # None => InOrder(c, snapshot[c][1]) /\ snapshot[c][1] <= total_ticks

\* Where the slots are.
LEMMA LogSlotIs ==
    ASSUME LogTypeOK, NEW i \in 0..AUDIT_LOG_SIZE
    PROVE  /\ LogSlot(i) \in LogSlots
           /\ LogSlot(i) = IF log_head + i < AUDIT_LOG_SIZE THEN log_head + i ELSE log_head + i - AUDIT_LOG_SIZE
<1>1. log_head + i \in 0..(2 * AUDIT_LOG_SIZE - 1)
    BY LogSizeAssumption DEF LogTypeOK, LogSlots
<1>2. (log_head + i) % AUDIT_LOG_SIZE
        = IF log_head + i < AUDIT_LOG_SIZE THEN log_head + i ELSE (log_head + i) - AUDIT_LOG_SIZE
    BY <1>1, LogSizeAssumption, SmallMod
<1> QED BY <1>1, <1>2, LogSizeAssumption DEF LogSlot, LogSlots, LogTypeOK

\* The event that record_at writes.
NewEvent(c, action) == [seq |-> next_seq, tick |-> snapshot[c][1], cpu_id |-> c, action |-> action]

LEMMA NewEventType ==
    ASSUME LogInv, NEW c \in Cpus, NEW action \in Actions, RecordAt(c, action)
    PROVE  NewEvent(c, action) \in AuditEvents
<1>1. snapshot[c][1] \in 0..MaxTicks
    <2>1. snapshot[c] \in Seq(0..MaxTicks) /\ snapshot[c] # <<>>
        BY DEF LogInv, LogTypeOK, RecordAt, None
    <2>2. Len(snapshot[c]) \in Nat /\ Len(snapshot[c]) # 0
        BY <2>1, EmptySeq
    <2>3. 1 \in 1..Len(snapshot[c])
        BY <2>2
    <2> QED BY <2>1, <2>3, ElementOfSeq
<1>2. next_seq \in 1..MaxEvents
    BY AuditBoundsAssumption DEF LogInv, LogTypeOK, RecordAt
<1> QED BY <1>1, <1>2 DEF NewEvent, AuditEvents

\* With room the event is written after the others; without, in the place of
\* the oldest, and the ring starts one slot further.
LEMMA Recorded ==
    ASSUME LogInv, NEW c \in Cpus, NEW action \in Actions, RecordAt(c, action)
    PROVE  /\ log_count < AUDIT_LOG_SIZE => \A i \in 0..log_count :
                events'[LogSlot(i)'] = IF i = log_count THEN <<NewEvent(c, action)>> ELSE events[LogSlot(i)]
           /\ log_count = AUDIT_LOG_SIZE => \A i \in 0..(log_count - 1) :
                events'[LogSlot(i)'] = IF i = log_count - 1 THEN <<NewEvent(c, action)>> ELSE events[LogSlot(i + 1)]
           /\ LogTypeOK'
<1> DEFINE S == AUDIT_LOG_SIZE
<1>0. LogTypeOK /\ S \in Nat \ {0} /\ log_count \in 0..S /\ log_head \in 0..(S - 1)
    BY LogSizeAssumption DEF LogInv, LogTypeOK, LogSlots
<1>1. events' = [events EXCEPT ![LogSlot(log_count)] = <<NewEvent(c, action)>>]
    BY DEF RecordAt, NewEvent, LogSlot
<1>2. LogSlot(log_count) \in LogSlots /\ events \in [LogSlots -> Seq(AuditEvents)]
    BY <1>0, LogSlotIs DEF LogTypeOK
<1>3. <<NewEvent(c, action)>> \in Seq(AuditEvents)
    BY NewEventType
<1>4. /\ events' \in [LogSlots -> Seq(AuditEvents)]
      /\ events'[LogSlot(log_count)] = <<NewEvent(c, action)>>
      /\ \A s \in LogSlots : s # LogSlot(log_count) => events'[s] = events[s]
    BY <1>1, <1>2, <1>3
<1>5. snapshot' \in [Cpus -> Seq(0..MaxTicks)] /\ total_ticks' = total_ticks
    <2>1. <<>> \in Seq(0..MaxTicks)
        BY EmptySeq
    <2> QED BY <1>0, <2>1 DEF RecordAt, LogTypeOK, None
<1>6. CASE log_count < S
    <2>1. log_head' = log_head /\ log_count' = log_count + 1 /\ overwritten' = overwritten
        BY <1>6 DEF RecordAt
    <2>2. \A i \in 0..log_count : LogSlot(i)' = LogSlot(i)
        BY <2>1 DEF LogSlot
    <2>3. ASSUME NEW i \in 0..(log_count - 1)
          PROVE  LogSlot(i) \in LogSlots /\ LogSlot(i) # LogSlot(log_count)
        BY <1>0, <1>6, LogSlotIs
    <2>4. LogTypeOK'
        BY <1>0, <1>4, <1>5, <1>6, <2>1 DEF RecordAt, LogTypeOK, LogSlots
    <2>5. ASSUME NEW i \in 0..log_count
          PROVE  events'[LogSlot(i)'] = IF i = log_count THEN <<NewEvent(c, action)>> ELSE events[LogSlot(i)]
        <3>1. CASE i = log_count
            BY <1>4, <2>2, <3>1
        <3>2. CASE i # log_count
            <4>1. i \in 0..(log_count - 1)
                BY <1>0, <3>2
            <4> QED BY <1>4, <2>2, <2>3, <3>2, <4>1
        <3> QED BY <3>1, <3>2
    <2> QED BY <1>0, <1>6, <2>4, <2>5
<1>7. CASE log_count = S
    <2>1. log_head' = LogSlot(1) /\ log_count' = log_count /\ overwritten' = overwritten + 1
        BY <1>0, <1>7 DEF RecordAt, LogSlot
    <2>2. LogTypeOK'
        BY <1>0, <1>4, <1>5, <1>7, <2>1, LogSlotIs DEF RecordAt, LogTypeOK
    <2>3. LogSlot(1) = (IF log_head + 1 < S THEN log_head + 1 ELSE 0) /\ LogSlot(log_count) = log_head
        BY <1>0, <1>7, LogSlotIs
    <2>4. ASSUME NEW i \in 0..(S - 1)
          PROVE  LogSlot(i)' = LogSlot(i + 1)
        <3>1. log_head' + i \in 0..(2 * S - 1)
            BY <1>0, <2>1, <2>3
        <3>2. (log_head' + i) % S = IF log_head' + i < S THEN log_head' + i ELSE (log_head' + i) - S
            BY <1>0, <3>1, SmallMod
        <3>3. LogSlot(i + 1) = IF log_head + (i + 1) < S THEN log_head + (i + 1) ELSE log_head + (i + 1) - S
            BY <1>0, LogSlotIs
        <3>4. LogSlot(i)' = (log_head' + i) % S
            BY DEF LogSlot
        <3> QED BY <1>0, <2>1, <2>3, <3>2, <3>3, <3>4
    <2>5. ASSUME NEW i \in 0..(log_count - 1)
          PROVE  events'[LogSlot(i)'] = IF i = log_count - 1 THEN <<NewEvent(c, action)>> ELSE events[LogSlot(i + 1)]
        <3>1. i \in 0..(S - 1) /\ i + 1 \in 0..S /\ LogSlot(i)' = LogSlot(i + 1)
            BY <1>0, <1>7, <2>4
        <3>2. CASE i = log_count - 1
            <4>1. i + 1 = log_count
                BY <1>0, <3>2
            <4> QED BY <1>4, <3>1, <3>2, <4>1
        <3>3. CASE i # log_count - 1
            <4>1. LogSlot(i + 1) \in LogSlots /\ LogSlot(i + 1) # LogSlot(log_count)
                BY <1>0, <1>7, <2>3, <3>1, <3>3, LogSlotIs
            <4> QED BY <1>4, <3>1, <3>3, <4>1
        <3> QED BY <3>2, <3>3
    <2> QED BY <1>0, <1>7, <2>2, <2>5
<1> QED BY <1>0, <1>6, <1>7

\* What a reader is given, from the oldest event on.
HeldShape ==
    /\ Held = [i \in 1..log_count |-> events[LogSlot(i - 1)][1]]
    /\ Held \in [1..log_count -> AuditEvents]

LEMMA HeldIs == ASSUME LogInv PROVE HeldShape
<1>0. LogTypeOK /\ AUDIT_LOG_SIZE \in Nat /\ log_count \in 0..AUDIT_LOG_SIZE /\ log_head \in Nat
    BY LogSizeAssumption DEF LogInv, LogTypeOK, LogSlots
<1> DEFINE read == LastN(AUDIT_LOG_SIZE)
<1>1. (IF AUDIT_LOG_SIZE < log_count THEN AUDIT_LOG_SIZE ELSE log_count) = log_count
    BY <1>0
<1>2. read = [i \in 1..log_count |-> events[NewestSlot(i - 1)][1]]
    BY <1>1 DEF LastN
<1>3. Len(read) = log_count
    BY <1>0, <1>2
<1>4. Held = [i \in 1..log_count |-> read[log_count + 1 - i]]
    BY <1>3 DEF Held
<1>5. ASSUME NEW i \in 1..log_count
      PROVE  read[log_count + 1 - i] = events[LogSlot(i - 1)][1]
    <2>1. log_count + 1 - i \in 1..log_count
        BY <1>0
    <2>2. NewestSlot((log_count + 1 - i) - 1) = LogSlot(i - 1)
        <3>1. log_head + log_count - 1 - ((log_count + 1 - i) - 1) = log_head + (i - 1)
            BY <1>0
        <3> QED BY <3>1 DEF NewestSlot, LogSlot
    <2> QED BY <1>2, <2>1, <2>2
<1>6. ASSUME NEW i \in 1..log_count
      PROVE  events[LogSlot(i - 1)][1] \in AuditEvents
    <2>1. i - 1 \in 0..(log_count - 1) /\ i - 1 \in 0..AUDIT_LOG_SIZE
        BY <1>0
    <2>2. events[LogSlot(i - 1)] \in Seq(AuditEvents) /\ events[LogSlot(i - 1)] # <<>>
        BY <1>0, <2>1, LogSlotIs DEF LogInv, LogTypeOK, None
    <2>3. 1 \in 1..Len(events[LogSlot(i - 1)])
        BY <2>2, EmptySeq
    <2> QED BY <2>2, <2>3, ElementOfSeq
<1> HIDE DEF read
<1> QED BY <1>4, <1>5, <1>6 DEF HeldShape

\* Recording keeps the invariant of the log.
LEMMA RecordKeepsLog ==
    ASSUME LogInv, NEW c \in Cpus, NEW action \in Actions, RecordAt(c, action)
    PROVE  LogInv'
<1> DEFINE new == NewEvent(c, action)
<1>0. /\ LogTypeOK /\ LogTypeOK' /\ AUDIT_LOG_SIZE \in Nat \ {0} /\ log_count \in 0..AUDIT_LOG_SIZE
      /\ total_ticks' = total_ticks /\ total_ticks \in Nat
    <2>1. LogTypeOK'
        BY Recorded
    <2>2. LogTypeOK /\ AUDIT_LOG_SIZE \in Nat \ {0}
        BY LogSizeAssumption DEF LogInv
    <2>3. log_count \in 0..AUDIT_LOG_SIZE /\ total_ticks \in Nat
        BY <2>2, AuditBoundsAssumption DEF LogTypeOK
    <2>4. total_ticks' = total_ticks
        BY DEF RecordAt
    <2> QED BY <2>1, <2>2, <2>3, <2>4
<1>1. /\ log_count < AUDIT_LOG_SIZE => log_count' = log_count + 1
      /\ log_count = AUDIT_LOG_SIZE => log_count' = log_count
    BY <1>0 DEF RecordAt
\* Every event of the new log is the new one or one of the old.
<1>2. ASSUME NEW i \in 0..(log_count' - 1)
      PROVE  \/ events'[LogSlot(i)'] = <<new>>
             \/ \E j \in 0..(log_count - 1) : events'[LogSlot(i)'] = events[LogSlot(j)]
    <2>1. CASE log_count < AUDIT_LOG_SIZE
        <3>1. i \in 0..log_count /\ (i # log_count => i \in 0..(log_count - 1))
            BY <1>0, <1>1, <2>1
        <3> QED BY <2>1, <3>1, Recorded
    <2>2. CASE log_count = AUDIT_LOG_SIZE
        <3>1. i \in 0..(log_count - 1) /\ (i # log_count - 1 => i + 1 \in 0..(log_count - 1))
            BY <1>0, <1>1, <2>2
        <3> QED BY <2>2, <3>1, Recorded
    <2> QED BY <1>0, <2>1, <2>2
<1>3. new.cpu_id = c /\ new.tick = snapshot[c][1] /\ snapshot[c] # None
    BY DEF NewEvent, RecordAt
<1>4. snapshot[c][1] <= total_ticks /\ <<new>> # None /\ (<<new>>)[1] = new
    BY <1>3 DEF LogInv, None
<1>5. snapshot'[c] = None /\ \A d \in Cpus \ {c} : snapshot'[d] = snapshot[d]
    BY <1>0 DEF RecordAt, LogTypeOK
<1> HIDE DEF new
<1>6. ASSUME NEW i \in 0..(log_count' - 1)
      PROVE  events'[LogSlot(i)'] # None
    BY <1>2, <1>4 DEF LogInv
<1>7. ASSUME NEW d \in Cpus, NEW tick, InOrder(d, tick), d = c => snapshot[c][1] <= tick
      PROVE  \A i \in 0..(log_count' - 1) :
                 events'[LogSlot(i)'][1].cpu_id = d => events'[LogSlot(i)'][1].tick <= tick
    BY <1>2, <1>3, <1>4, <1>7 DEF InOrder
<1>8. ASSUME NEW d \in Cpus
      PROVE  \A i \in 0..(log_count' - 1) :
                 events'[LogSlot(i)'][1].cpu_id = d => events'[LogSlot(i)'][1].tick <= total_ticks'
    BY <1>0, <1>4, <1>7 DEF LogInv
<1>9. ASSUME NEW d \in Cpus, snapshot'[d] # None
      PROVE  /\ snapshot'[d][1] <= total_ticks'
             /\ \A i \in 0..(log_count' - 1) :
                    events'[LogSlot(i)'][1].cpu_id = d => events'[LogSlot(i)'][1].tick <= snapshot'[d][1]
    <2>1. d # c /\ snapshot'[d] = snapshot[d]
        BY <1>5, <1>9
    <2>2. InOrder(d, snapshot[d][1]) /\ snapshot[d][1] <= total_ticks
        BY <1>9, <2>1 DEF LogInv
    <2> QED BY <1>0, <1>7, <2>1, <2>2
<1> QED BY <1>0, <1>6, <1>8, <1>9 DEF LogInv, InOrder

LEMMA LogInvInit == ASSUME AuditInit PROVE LogInv /\ Held = <<>>
<1>1. log_count = 0 /\ log_head = 0 /\ 0..(0 - 1) = {}
    BY DEF AuditInit
<1>2. <<>> \in Seq(AuditEvents) /\ <<>> \in Seq(0..MaxTicks)
    BY EmptySeq
<1>3. LogTypeOK
    BY <1>2, LogSizeAssumption, AuditBoundsAssumption DEF AuditInit, LogTypeOK, LogSlots, None
<1>4. \A c \in Cpus : snapshot[c] = None
    BY DEF AuditInit
<1>5. LogInv
    BY <1>1, <1>3, <1>4 DEF LogInv, InOrder
<1>6. Held \in [1..0 -> AuditEvents]
    BY <1>1, <1>5, HeldIs DEF HeldShape
<1> QED BY <1>5, <1>6, EmptySeq, SeqDef

\* What the scheduler does between the events: the timer, and a CPU that takes
\* its tick.
LEMMA ClockKeepsLog ==
    ASSUME LogInv, Tick \/ (\E c \in Cpus : Snapshot(c)) \/ UNCHANGED auditVars
    PROVE  LogInv' /\ UNCHANGED ring
<1>0. LogTypeOK /\ total_ticks \in 0..MaxTicks /\ MaxTicks \in Nat
    BY AuditBoundsAssumption DEF LogInv, LogTypeOK
<1>1. UNCHANGED ring
    BY DEF Tick, Snapshot, auditVars
<1>2. /\ total_ticks' \in 0..MaxTicks /\ total_ticks <= total_ticks'
      /\ snapshot' \in [Cpus -> Seq(0..MaxTicks)]
      /\ \A c \in Cpus : snapshot'[c] = snapshot[c] \/ (snapshot'[c] = <<total_ticks>> /\ snapshot'[c][1] = total_ticks)
    <2>1. CASE Tick
        BY <1>0, <2>1 DEF Tick, LogTypeOK
    <2>2. ASSUME NEW c \in Cpus, Snapshot(c)
          PROVE  /\ total_ticks' = total_ticks
                 /\ snapshot' = [snapshot EXCEPT ![c] = <<total_ticks>>]
                 /\ <<total_ticks>> \in Seq(0..MaxTicks) /\ (<<total_ticks>>)[1] = total_ticks
        BY <1>0, <2>2 DEF Snapshot
    <2>3. CASE UNCHANGED auditVars
        BY <1>0, <2>3 DEF auditVars, LogTypeOK
    <2>4. CASE \E c \in Cpus : Snapshot(c)
        <3>1. PICK c \in Cpus : Snapshot(c)
            BY <2>4
        <3>2. snapshot \in [Cpus -> Seq(0..MaxTicks)]
            BY <1>0 DEF LogTypeOK
        <3>3. \A d \in Cpus : snapshot'[d] = IF d = c THEN <<total_ticks>> ELSE snapshot[d]
            BY <2>2, <3>1, <3>2
        <3>4. /\ snapshot' = [snapshot EXCEPT ![c] = <<total_ticks>>] /\ total_ticks' = total_ticks
              /\ <<total_ticks>> \in Seq(0..MaxTicks) /\ (<<total_ticks>>)[1] = total_ticks
            BY <2>2, <3>1
        <3>5. snapshot' \in [Cpus -> Seq(0..MaxTicks)]
            BY ONLY <3>2, <3>4
        <3> QED BY <1>0, <3>3, <3>4, <3>5
    <2> QED BY <2>1, <2>3, <2>4
<1>3. LogTypeOK'
    BY <1>0, <1>1, <1>2 DEF LogTypeOK, ring
<1>4. \A i \in 0..(log_count - 1) : events[LogSlot(i)][1] \in AuditEvents
    <2> SUFFICES ASSUME NEW i \in 0..(log_count - 1) PROVE events[LogSlot(i)][1] \in AuditEvents
        OBVIOUS
    <2>1. i + 1 \in 1..log_count /\ (i + 1) - 1 = i
        BY <1>0, LogSizeAssumption DEF LogTypeOK
    <2>2. Held[i + 1] \in AuditEvents /\ Held[i + 1] = events[LogSlot((i + 1) - 1)][1]
        BY <2>1, HeldIs DEF HeldShape
    <2> QED BY <2>1, <2>2
<1>5. ASSUME NEW c \in Cpus, NEW tick \in Nat, NEW later \in Nat, tick <= later, InOrder(c, tick)
      PROVE  InOrder(c, later)
    <2> SUFFICES ASSUME NEW i \in 0..(log_count - 1), events[LogSlot(i)][1].cpu_id = c
                 PROVE  events[LogSlot(i)][1].tick <= later
        BY DEF InOrder
    <2>1. events[LogSlot(i)][1].tick \in Nat
        BY <1>4, AuditBoundsAssumption DEF AuditEvents
    <2> QED BY <1>5, <2>1 DEF InOrder
<1>6. ASSUME NEW c \in Cpus
      PROVE  /\ InOrder(c, total_ticks')
             /\ snapshot'[c] # None => InOrder(c, snapshot'[c][1]) /\ snapshot'[c][1] <= total_ticks'
    <2>1. InOrder(c, total_ticks) /\ total_ticks \in Nat /\ total_ticks' \in Nat
        BY <1>0, <1>2 DEF LogInv
    <2>2. InOrder(c, total_ticks')
        BY <1>2, <1>5, <2>1
    <2>3. ASSUME snapshot[c] # None
          PROVE  InOrder(c, snapshot[c][1]) /\ snapshot[c][1] <= total_ticks /\ snapshot[c][1] \in Nat
        <3>1. snapshot[c] \in Seq(0..MaxTicks) /\ 1 \in 1..Len(snapshot[c])
            BY <1>0, <2>3, EmptySeq DEF LogTypeOK, None
        <3>2. snapshot[c][1] \in 0..MaxTicks
            BY <3>1, ElementOfSeq
        <3> QED BY <1>0, <2>3, <3>2 DEF LogInv
    <2> QED BY <1>2, <2>1, <2>2, <2>3
<1> QED BY <1>1, <1>3, <1>6 DEF LogInv, InOrder, LogSlot, ring

LEMMA LogAlways == AuditSpec => []LogInv
<1>1. AuditInit => LogInv
    BY LogInvInit
<1>2. LogInv /\ [AuditNext]_auditVars => LogInv'
    BY RecordKeepsLog, ClockKeepsLog DEF AuditNext
<1> QED BY <1>1, <1>2, PTL DEF AuditSpec

\* A reader sees the new event after the others, and, when the log was full,
\* the oldest one gone.
LEMMA RecordIsTrail ==
    ASSUME LogInv, NEW c \in Cpus, NEW action \in Actions, RecordAt(c, action),
           HeldShape'
    PROVE  Trail!TrailNext
<1> DEFINE new == NewEvent(c, action)
           read == Held'
<1>s. /\ read = [i \in 1..log_count' |-> events'[LogSlot(i - 1)'][1]]
      /\ read \in [1..log_count' -> AuditEvents]
    BY DEF HeldShape
<1> HIDE DEF read
<1>0. /\ AUDIT_LOG_SIZE \in Nat \ {0} /\ log_count \in 0..AUDIT_LOG_SIZE /\ log_count \in Nat
      /\ overwritten \in Nat /\ next_seq = overwritten + log_count + 1
    BY LogSizeAssumption DEF LogInv, LogTypeOK
<1>1. /\ Held = [i \in 1..log_count |-> events[LogSlot(i - 1)][1]]
      /\ Held \in [1..log_count -> AuditEvents]
    BY HeldIs DEF HeldShape
<1>2. Held \in Seq(AuditEvents) /\ Len(Held) = log_count
    BY <1>0, <1>1, LenProperties, SeqDef, SMTT(30)
<1>3. new \in AuditEvents /\ new.seq = next_seq /\ new.tick = snapshot[c][1] /\ new.cpu_id = c
        /\ (<<new>>)[1] = new
    BY NewEventType DEF NewEvent
<1>4. Trail!Follows(new)
    <2>1. InOrder(c, snapshot[c][1])
        BY DEF LogInv, RecordAt
    <2>2. ASSUME NEW i \in 1..log_count, Held[i].cpu_id = c PROVE Held[i].tick <= snapshot[c][1]
        <3>1. i - 1 \in 0..(log_count - 1) /\ Held[i] = events[LogSlot(i - 1)][1]
            BY <1>0, <1>1
        <3> QED BY <2>1, <2>2, <3>1 DEF InOrder
    <2> HIDE DEF new
    <2> QED BY <1>0, <1>2, <1>3, <2>2 DEF Trail!Follows
<1> HIDE DEF new
<1>5. CASE log_count < AUDIT_LOG_SIZE
    <2>1. log_count' = log_count + 1 /\ overwritten' = overwritten
        BY <1>5 DEF RecordAt
    <2>2. ASSUME NEW i \in 1..(log_count + 1)
          PROVE  read[i] = IF i = log_count + 1 THEN new ELSE Held[i]
        <3>1. i - 1 \in 0..log_count /\ (i = log_count + 1 <=> i - 1 = log_count)
            BY <1>0
        <3>2. events'[LogSlot(i - 1)'] = IF i - 1 = log_count THEN <<new>> ELSE events[LogSlot(i - 1)]
            BY <1>5, <3>1, Recorded DEF new
        <3>3. read[i] = events'[LogSlot(i - 1)'][1]
            BY <1>s, <2>1
        <3>4. i # log_count + 1 => i \in 1..log_count /\ Held[i] = events[LogSlot(i - 1)][1]
            BY <1>0, <1>1
        <3> QED BY <1>3, <3>1, <3>2, <3>3, <3>4
    <2>3. log_count + 1 \in 1..(log_count + 1) /\ read \in [1..(log_count + 1) -> AuditEvents]
            /\ \A i \in 1..log_count : i \in 1..(log_count + 1) /\ i # log_count + 1
        BY <1>0, <1>s, <2>1
    <2>4. read[log_count + 1] = new /\ \A i \in 1..log_count : read[i] = Held[i]
        BY <2>2, <2>3
    <2>5. read = Append(Held, new)
        <3> DEFINE s == Held
                   n == log_count
        <3>1. n \in Nat /\ s \in [1..n -> AuditEvents] /\ read \in [1..(n + 1) -> AuditEvents]
                /\ \A i \in 1..n : read[i] = s[i]
            BY <1>0, <1>1, <2>3, <2>4
        <3> HIDE DEF s, n
        <3>2. read = Append(s, read[n + 1])
            BY <3>1, AppendFunction
        <3> QED BY <2>4, <3>2 DEF s, n
    <2>6. Trail!Keep(new)
        BY <1>2, <1>5, <2>1, <2>5 DEF read, Trail!Keep
    <2> QED BY <1>3, <1>4, <2>6 DEF Trail!TrailNext
<1>6. CASE log_count = AUDIT_LOG_SIZE
    <2>1. log_count' = log_count /\ overwritten' = overwritten + 1
        BY <1>0, <1>6 DEF RecordAt
    <2> DEFINE n == log_count - 1
    <2>2. n \in Nat /\ n + 1 = log_count /\ log_count \in Nat \ {0}
        BY <1>0, <1>6
    <2>3. Tail(Held) = [i \in 1..n |-> Held[i + 1]]
        BY <1>1, <2>2, TailFunction
    <2>4. ASSUME NEW i \in 1..log_count
          PROVE  read[i] = IF i = log_count THEN new ELSE Held[i + 1]
        <3>1. i - 1 \in 0..(log_count - 1) /\ (i = log_count <=> i - 1 = log_count - 1) /\ (i - 1) + 1 = i
            BY <2>2
        <3>2. events'[LogSlot(i - 1)'] = IF i - 1 = log_count - 1 THEN <<new>> ELSE events[LogSlot((i - 1) + 1)]
            BY <1>6, <3>1, Recorded DEF new
        <3>3. read[i] = events'[LogSlot(i - 1)'][1]
            BY <1>s, <2>1
        <3>4. i # log_count => i + 1 \in 1..log_count /\ (i + 1) - 1 = i /\ Held[i + 1] = events[LogSlot((i + 1) - 1)][1]
            BY <1>1, <2>2
        <3> QED BY <1>3, <3>1, <3>2, <3>3, <3>4
    <2>5. n + 1 \in 1..(n + 1) /\ read \in [1..(n + 1) -> AuditEvents] /\ \A i \in 1..n : i \in 1..log_count /\ i # log_count
        BY <1>s, <2>1, <2>2
    <2>6. read[n + 1] = new /\ \A i \in 1..n : read[i] = Tail(Held)[i]
        BY <2>2, <2>3, <2>4, <2>5
    <2>7. ASSUME NEW i \in 1..n PROVE Held[i + 1] \in AuditEvents
        <3>1. i + 1 \in 1..log_count
            BY <2>2
        <3> QED BY <1>1, <3>1
    <2>8. Tail(Held) \in [1..n -> AuditEvents]
        BY <2>3, <2>7
    <2>9. read = Append(Tail(Held), new)
        <3> DEFINE s == Tail(Held)
        <3>1. n \in Nat /\ s \in [1..n -> AuditEvents] /\ read \in [1..(n + 1) -> AuditEvents]
                /\ \A i \in 1..n : read[i] = s[i]
            BY <2>2, <2>5, <2>6, <2>8
        <3> HIDE DEF s, n
        <3>2. read = Append(s, read[n + 1])
            BY <3>1, AppendFunction
        <3> QED BY <2>6, <3>2 DEF s
    <2>10. Trail!Displace(new)
        BY <1>2, <1>6, <2>1, <2>9 DEF read, Trail!Displace
    <2> QED BY <1>3, <1>4, <2>10 DEF Trail!TrailNext
<1> QED BY <1>0, <1>5, <1>6

\* The ring of audit.rs is a bounded trail of the newest events, for any size
\* of the log, any CPUs and any order in which record_at calls interleave: a
\* reader of last_n gets consecutive sequence numbers, the counter of
\* overwritten events is exact, and a CPU's events appear in the order of
\* their ticks although snapshot_tick_cpu runs outside the audit lock.
THEOREM LogKeepsNewest == AuditSpec => KeepsNewest
<1>1. AuditInit => Trail!TrailInit
    BY LogInvInit DEF Trail!TrailInit, AuditInit
<1>2. LogInv => HeldShape
    BY HeldIs
<1>3. LogInv' => HeldShape'
    BY <1>2, PTL
<1>4. LogInv /\ LogInv' /\ [AuditNext]_auditVars => [Trail!TrailNext]_<<Held, overwritten>>
    <2> SUFFICES ASSUME LogInv, LogInv', [AuditNext]_auditVars
                 PROVE  Trail!TrailNext \/ UNCHANGED <<Held, overwritten>>
        OBVIOUS
    <2>1. ASSUME NEW c \in Cpus, NEW action \in Actions, RecordAt(c, action)
          PROVE  Trail!TrailNext
        BY <1>3, <2>1, RecordIsTrail
    <2>2. ASSUME UNCHANGED ring PROVE UNCHANGED <<Held, overwritten>>
        BY <2>2 DEF ring, Held, LastN, NewestSlot
    <2> QED BY <2>1, <2>2, ClockKeepsLog DEF AuditNext
<1> QED BY <1>1, <1>4, LogAlways, PTL DEF AuditSpec, KeepsNewest, Trail!TrailSpec

-----------------------------------------------------------------------------
(* The system-call entry stub.                                             *)

\* Words of the kernel stack.
Words == (Regs \cup {"junk", "ret", "zero", "tag", "handler", "signal"}) \X Nat

\* The i-th word of the frame is the i-th field of UserContext.
LEMMA FrameLayout ==
    /\ FrameWords = 15 /\ ContextWords = 6 /\ UserContextPtr = 6 /\ Len(UserContext) = 15 /\ Popped = UserContext
    /\ \A i \in 1..15 : Pushed[16 - i] = UserContext[i]
    /\ \A i \in 1..15 : (UserContext[i] = "rax") <=> (i = 15)
    /\ \A i \in 1..15 : (UserContext[i] = "rcx") <=> (i = 14)
    /\ \A i \in 1..15 : (UserContext[i] = "rdi") <=> (i = 11)
<1>1. FrameWords = 15 /\ ContextWords = 6 /\ UserContextPtr = 6 /\ Len(UserContext) = 15 /\ Popped = UserContext
    BY DEF FrameWords, ContextWords, UserContextPtr, Pushed, UserContext, Popped
<1>2. ASSUME NEW i \in 1..15
      PROVE  /\ Pushed[16 - i] = UserContext[i]
             /\ (UserContext[i] = "rax") <=> (i = 15)
             /\ (UserContext[i] = "rcx") <=> (i = 14)
             /\ (UserContext[i] = "rdi") <=> (i = 11)
    <2>1. i \in {1, 2, 3, 4, 5, 6, 7, 8, 9, 10, 11, 12, 13, 14, 15}
        OBVIOUS
    <2>3. Pushed[16 - i] = UserContext[i]
        BY <2>1 DEF UserContext, Pushed
    <2>4. (UserContext[i] = "rax") <=> (i = 15)
        BY <2>1 DEF UserContext
    <2>5. (UserContext[i] = "rcx") <=> (i = 14)
        BY <2>1 DEF UserContext
    <2>6. (UserContext[i] = "rdi") <=> (i = 11)
        BY <2>1 DEF UserContext
    <2> QED BY <2>3, <2>4, <2>5, <2>6
<1> QED BY <1>1, <1>2

LEMMA FieldsDiffer == ASSUME NEW i \in 1..15, NEW j \in 1..15, UserContext[i] = UserContext[j] PROVE i = j
<1>1. i \in {1, 2, 3, 4, 5, 6, 7, 8, 9, 10, 11, 12, 13, 14, 15}
    OBVIOUS
<1>2. j \in {1, 2, 3, 4, 5, 6, 7, 8, 9, 10, 11, 12, 13, 14, 15}
    OBVIOUS
<1> QED BY <1>1, <1>2 DEF UserContext

LEMMA RegsAreFields ==
    /\ \A i \in 1..15 : UserContext[i] \in Regs
    /\ \A r \in Regs : Index(r, UserContext) \in 1..15 /\ UserContext[Index(r, UserContext)] = r
    /\ \A i \in 1..15 : Index(UserContext[i], UserContext) = i
<1>1. ASSUME NEW i \in 1..15 PROVE UserContext[i] \in Regs
    <2>1. 16 - i \in 1..FrameWords /\ Pushed[16 - i] = UserContext[i]
        BY FrameLayout
    <2> QED BY <2>1, Zenon DEF Regs
<1>2. ASSUME NEW r \in Regs PROVE \E i \in 1..15 : UserContext[i] = r
    <2>1. PICK j \in 1..15 : r = Pushed[j]
        BY FrameLayout DEF Regs
    <2>2. 16 - j \in 1..15 /\ 16 - (16 - j) = j
        OBVIOUS
    <2> QED BY <2>1, <2>2, FrameLayout
<1>3. ASSUME NEW r \in Regs PROVE Index(r, UserContext) \in 1..15 /\ UserContext[Index(r, UserContext)] = r
    <2>1. Len(UserContext) = 15
        BY FrameLayout
    <2> QED BY <1>2, <2>1, Zenon DEF Index
<1>4. ASSUME NEW i \in 1..15 PROVE Index(UserContext[i], UserContext) = i
    BY <1>1, <1>3, FieldsDiffer
<1> QED BY <1>1, <1>3, <1>4

\* t is s with w as its k-th word.
Put(t, s, k, w) == t = [s EXCEPT ![k] = w]

LEMMA WordPut ==
    ASSUME NEW s \in Seq(Words), NEW n \in Nat, Len(s) = n, NEW k \in 1..n, NEW w \in Words,
           NEW t, Put(t, s, k, w)
    PROVE  t \in Seq(Words) /\ Len(t) = n /\ \A i \in 1..n : t[i] = IF i = k THEN w ELSE s[i]
<1>1. DOMAIN s = 1..n /\ s = [i \in 1..n |-> s[i]] /\ \A i \in 1..n : s[i] \in Words
    BY LenProperties, ElementOfSeq
<1>2. t = [i \in 1..n |-> IF i = k THEN w ELSE s[i]]
    BY <1>1 DEF Put
<1>3. \A i \in 1..n : (IF i = k THEN w ELSE s[i]) \in Words
    BY <1>1
<1> QED BY ONLY <1>2, <1>3, n \in Nat

\* What the user must find in register r, by what dispatch did.
Due(r) == IF outcome = "signal" /\ r = "rcx" THEN <<"handler", entries>>
          ELSE IF outcome = "signal" /\ r = "rdi" THEN <<"signal", entries>>
          ELSE <<r, Origin>>

\* Where the words of the frame are, stage by stage.
StubTypes ==
    /\ entries \in Nat /\ interrupted \in Nat /\ outcome \in {"plain", "signal", "sigreturn"}
    /\ regs \in [Regs -> Words] /\ stack \in Seq(Words)
    /\ stub_pc \in {"user", "push", "load", "build", "dispatch", "unwind", "pop"}

SavedContext ==
    \/ saved = <<>>
    \/ \E s \in [Regs -> Words] : saved = <<s>> /\ \A r \in Regs \ {"rax"} : s[r] = <<r, interrupted>>

OnStack ==
    /\ stub_pc \in {"user", "push"} => Len(stack) = 0
    /\ stub_pc = "push" => \A r \in Regs : regs[r] = <<r, entries>>
    /\ stub_pc \in {"load", "build"} => Len(stack) = 15 /\ \A i \in 1..15 : stack[i] = <<UserContext[i], entries>>
    /\ stub_pc = "dispatch" => Len(stack) = 21 /\ \A i \in 1..15 : stack[6 + i] = <<UserContext[i], entries>>
    /\ stub_pc = "unwind" => Len(stack) = 21 /\ \A i \in 1..14 : stack[6 + i] = Due(UserContext[i])
    /\ stub_pc = "pop" => Len(stack) = 15 /\ \A i \in 1..14 : stack[i] = Due(UserContext[i])

StubInv == StubTypes /\ SavedContext /\ OnStack /\ RegistersPreserved

LEMMA StubInit == ASSUME EntryInit PROVE StubInv
<1>1. /\ stub_pc = "user" /\ entries = 0 /\ regs = [r \in Regs |-> <<r, 0>>]
      /\ stack = <<>> /\ gs = "user" /\ saved = <<>> /\ interrupted = 0 /\ outcome = "plain"
    BY DEF EntryInit, UserRegs
<1>2. regs \in [Regs -> Words]
    BY <1>1, RegsAreFields DEF Words
<1>3. StubTypes
    BY <1>1, <1>2 DEF StubTypes
<1> QED BY <1>1, <1>3 DEF StubInv, SavedContext, OnStack, RegistersPreserved, Origin

LEMMA InstructionKeeps == ASSUME StubInv, SyscallInstruction PROVE StubInv'
<1>1. /\ stub_pc = "user" /\ stub_pc' = "push" /\ entries' = entries + 1 /\ regs' = [r \in Regs |-> <<r, entries'>>]
      /\ stack' = stack /\ saved' = saved /\ interrupted' = interrupted /\ outcome' = outcome
    BY DEF SyscallInstruction, UserRegs
<1>2. entries' \in Nat
    BY <1>1 DEF StubInv, StubTypes
<1>3. regs' \in [Regs -> Words]
    BY <1>1, <1>2, RegsAreFields DEF Words
<1>4. StubTypes'
    BY <1>1, <1>2, <1>3 DEF StubInv, StubTypes
<1>5. SavedContext'
    BY <1>1 DEF StubInv, SavedContext
<1>6. OnStack' /\ RegistersPreserved'
    BY <1>1 DEF StubInv, OnStack, RegistersPreserved
<1> QED BY <1>4, <1>5, <1>6 DEF StubInv

LEMMA PushKeeps == ASSUME StubInv, PushAll PROVE StubInv'
<1>1. /\ stub_pc = "push" /\ stub_pc' = "load" /\ entries' = entries /\ regs' = regs
      /\ saved' = saved /\ interrupted' = interrupted /\ outcome' = outcome
      /\ stack' = [i \in 1..15 |-> regs[Pushed[16 - i]]] \o stack
    BY FrameLayout DEF PushAll
<1>2. stack = <<>>
    BY <1>1, EmptySeq DEF StubInv, StubTypes, OnStack
<1>3. \A i \in 1..15 : regs[Pushed[16 - i]] = <<UserContext[i], entries>>
    BY <1>1, FrameLayout, RegsAreFields DEF StubInv, OnStack
<1>4. [i \in 1..15 |-> regs[Pushed[16 - i]]] = [i \in 1..15 |-> <<UserContext[i], entries>>]
    BY <1>3
<1>5. \A i \in 1..15 : <<UserContext[i], entries>> \in Words
    BY RegsAreFields DEF StubInv, StubTypes, Words
<1>6. PICK f : f = [i \in 1..15 |-> <<UserContext[i], entries>>]
    OBVIOUS
<1>7. f \in Seq(Words) /\ Len(f) = 15 /\ \A i \in 1..15 : f[i] = <<UserContext[i], entries>>
    BY <1>5, <1>6
<1>8. stack' = f
    BY <1>1, <1>2, <1>4, <1>6, <1>7, ConcatEmptySeq
<1>9. StubTypes'
    BY <1>1, <1>7, <1>8 DEF StubInv, StubTypes
<1>10. SavedContext'
    BY <1>1 DEF StubInv, SavedContext
<1>11. OnStack' /\ RegistersPreserved'
    BY <1>1, <1>7, <1>8 DEF OnStack, RegistersPreserved
<1> QED BY <1>9, <1>10, <1>11 DEF StubInv

LEMMA LoadKeeps == ASSUME StubInv, LoadArguments PROVE StubInv'
<1>1. /\ stub_pc = "load" /\ stub_pc' = "build" /\ entries' = entries /\ stack' = stack
      /\ saved' = saved /\ interrupted' = interrupted /\ outcome' = outcome
      /\ regs' = [regs EXCEPT !["rax"] = stack[15], !["rdi"] = stack[7], !["rsi"] = stack[6],
                              !["rdx"] = stack[3], !["r10"] = stack[4], !["r8"] = stack[5]]
    BY DEF LoadArguments, Word
<1>2. Len(stack) = 15 /\ stack \in Seq(Words) /\ regs \in [Regs -> Words]
    BY <1>1 DEF StubInv, StubTypes, OnStack
<1>3. regs' \in [Regs -> Words]
    <2>1. PICK w1, w2, w3, w4, w5, w6 :
              /\ w1 = stack[15] /\ w2 = stack[7] /\ w3 = stack[6] /\ w4 = stack[3] /\ w5 = stack[4] /\ w6 = stack[5]
        OBVIOUS
    <2>2. w1 \in Words /\ w2 \in Words /\ w3 \in Words /\ w4 \in Words /\ w5 \in Words /\ w6 \in Words
        <3>1. \A i \in 1..15 : stack[i] \in Words
            BY ONLY <1>2, ElementOfSeq
        <3> QED BY ONLY <2>1, <3>1
    <2>3. regs' = [regs EXCEPT !["rax"] = w1, !["rdi"] = w2, !["rsi"] = w3, !["rdx"] = w4, !["r10"] = w5, !["r8"] = w6]
        BY ONLY <1>1, <2>1, Zenon
    <2>4. regs \in [Regs -> Words]
        BY <1>2
    <2> QED BY ONLY <2>2, <2>3, <2>4
<1>4. StubTypes'
    BY <1>1, <1>3 DEF StubInv, StubTypes
<1>5. SavedContext'
    BY <1>1 DEF StubInv, SavedContext
<1>6. OnStack' /\ RegistersPreserved'
    BY <1>1 DEF StubInv, OnStack, RegistersPreserved
<1> QED BY <1>4, <1>5, <1>6 DEF StubInv

LEMMA BuildKeeps == ASSUME StubInv, BuildContext PROVE StubInv'
<1> DEFINE context == <<regs["rax"], regs["rdi"], regs["rsi"], regs["rdx"], regs["r10"], regs["r8"]>>
<1>1. /\ stub_pc = "build" /\ stub_pc' = "dispatch" /\ entries' = entries /\ regs' = regs
      /\ saved' = saved /\ interrupted' = interrupted /\ outcome' = outcome
      /\ stack' = context \o stack
    BY DEF BuildContext
<1>2. Len(stack) = 15 /\ stack \in Seq(Words) /\ (\A i \in 1..15 : stack[i] = <<UserContext[i], entries>>)
    BY <1>1 DEF StubInv, StubTypes, OnStack
<1>3. {"rax", "rdi", "rsi", "rdx", "r10", "r8"} \subseteq Regs
    <2>1. \A i \in 1..15 : UserContext[i] \in Regs
        BY RegsAreFields
    <2>2. /\ UserContext[15] = "rax" /\ UserContext[11] = "rdi" /\ UserContext[12] = "rsi"
          /\ UserContext[13] = "rdx" /\ UserContext[8] = "r10" /\ UserContext[10] = "r8"
        BY DEF UserContext
    <2> QED BY <2>1, <2>2
<1>4. context \in Seq(Words) /\ Len(context) = 6
    <2>1. /\ regs["rax"] \in Words /\ regs["rdi"] \in Words /\ regs["rsi"] \in Words
          /\ regs["rdx"] \in Words /\ regs["r10"] \in Words /\ regs["r8"] \in Words
        BY <1>3 DEF StubInv, StubTypes
    <2> QED BY <2>1
<1> HIDE DEF context
<1>5. /\ stack' \in Seq(Words) /\ Len(stack') = 21
      /\ \A i \in 1..21 : stack'[i] = IF i <= 6 THEN context[i] ELSE stack[i - 6]
    <2>1. stack' \in Seq(Words) /\ Len(stack') = Len(context) + Len(stack)
          /\ \A i \in 1..Len(context) + Len(stack) :
                stack'[i] = IF i <= Len(context) THEN context[i] ELSE stack[i - Len(context)]
        BY ONLY <1>1, <1>2, <1>4, ConcatProperties, Zenon
    <2>2. Len(context) = 6 /\ Len(stack) = 15
        BY <1>2, <1>4
    <2>3. Len(context) + Len(stack) = 21
        BY ONLY <2>2
    <2> QED BY ONLY <2>1, <2>2, <2>3
<1>6. \A i \in 1..15 : stack'[6 + i] = <<UserContext[i], entries>>
    <2>1. TAKE i \in 1..15
    <2>2. 6 + i \in 1..21 /\ ~(6 + i <= 6) /\ 6 + i - 6 = i
        BY ONLY <2>1
    <2>3. stack'[6 + i] = stack[6 + i - 6]
        BY ONLY <1>5, <2>2, SMTT(30)
    <2>4. stack[i] = <<UserContext[i], entries>>
        BY <1>2
    <2> QED BY ONLY <2>2, <2>3, <2>4
<1>7. StubTypes'
    BY <1>1, <1>5 DEF StubInv, StubTypes
<1>8. SavedContext'
    BY <1>1 DEF StubInv, SavedContext
<1>9. OnStack' /\ RegistersPreserved'
    BY <1>1, <1>5, <1>6 DEF OnStack, RegistersPreserved
<1> QED BY <1>7, <1>8, <1>9 DEF StubInv

\* A call from Rust leaves words in the registers.
LEMMA CallTypes ==
    ASSUME StubTypes, NEW value \in Words, Called(value)
    PROVE  regs' \in [Regs -> Words]
<1>1. Junk \in Words /\ Tag \in Words
    BY DEF Junk, Tag, Words
<1>2. PICK word \in {value, Tag} :
          regs' = [r \in Regs |->
            IF r = "rax" THEN word
            ELSE IF r \in {"rbx", "rbp", "r12", "r13", "r14", "r15"} THEN regs[r] ELSE Junk]
    BY DEF Called
<1>3. word \in Words
    BY <1>1, <1>2
<1>4. \A r \in Regs : regs[r] \in Words
    BY DEF StubTypes
<1>5. \A r \in Regs : (IF r = "rax" THEN word
            ELSE IF r \in {"rbx", "rbp", "r12", "r13", "r14", "r15"} THEN regs[r] ELSE Junk) \in Words
    BY ONLY <1>1, <1>3, <1>4
<1> QED BY <1>2, <1>5

LEMMA PlainKeeps == ASSUME StubInv, DispatchPlain PROVE StubInv'
<1>1. /\ stub_pc = "dispatch" /\ stub_pc' = "unwind" /\ entries' = entries /\ stack' = stack
      /\ saved' = saved /\ interrupted' = interrupted /\ outcome' = "plain" /\ Called(<<"ret", entries>>)
    BY DEF DispatchPlain
<1>2. regs' \in [Regs -> Words]
    <2>1. <<"ret", entries>> \in Words
        BY DEF StubInv, StubTypes, Words
    <2> QED BY <1>1, <2>1, CallTypes DEF StubInv
<1>3. StubTypes'
    BY <1>1, <1>2 DEF StubInv, StubTypes
<1>4. SavedContext'
    BY <1>1 DEF StubInv, SavedContext
<1>5. OnStack' /\ RegistersPreserved'
    BY <1>1 DEF StubInv, OnStack, RegistersPreserved, Due, Origin
<1> QED BY <1>3, <1>4, <1>5 DEF StubInv

LEMMA SignalKeeps == ASSUME StubInv, DispatchSignal PROVE StubInv'
<1>1. /\ stub_pc = "dispatch" /\ stub_pc' = "unwind" /\ entries' = entries
      /\ interrupted' = entries /\ outcome' = "signal" /\ Called(<<"zero", 0>>)
      /\ saved' = <<[f \in Regs |-> IF f = "rax" THEN <<"ret", entries>> ELSE stack[Field(f)]]>>
      /\ stack' = [stack EXCEPT ![Field("rcx")] = <<"handler", entries>>,
                                ![Field("rdi")] = <<"signal", entries>>]
    BY DEF DispatchSignal
<1>2. entries \in Nat /\ Len(stack) = 21 /\ stack \in Seq(Words)
        /\ (\A i \in 1..15 : stack[6 + i] = <<UserContext[i], entries>>)
    BY <1>1 DEF StubInv, StubTypes, OnStack
<1>3. \A f \in Regs : stack[Field(f)] = <<f, entries>>
    <2>1. TAKE f \in Regs
    <2>2. PICK k : k = Index(f, UserContext)
        OBVIOUS
    <2>3. k \in 1..15 /\ UserContext[k] = f /\ Field(f) = 6 + k
        BY <2>2, RegsAreFields, FrameLayout DEF Field
    <2> QED BY <1>2, <2>3
<1>4. Field("rcx") = 20 /\ Field("rdi") = 17
    <2>1. UserContext[14] = "rcx" /\ UserContext[11] = "rdi"
        BY DEF UserContext
    <2>2. Index(UserContext[14], UserContext) = 14 /\ Index(UserContext[11], UserContext) = 11
        BY RegsAreFields
    <2> QED BY <2>1, <2>2, FrameLayout DEF Field
<1>5. regs' \in [Regs -> Words]
    <2>1. <<"zero", 0>> \in Words
        BY DEF Words
    <2> QED BY <1>1, <2>1, CallTypes DEF StubInv
<1>6. <<"handler", entries>> \in Words /\ <<"signal", entries>> \in Words /\ <<"ret", entries>> \in Words
        /\ (\A f \in Regs : <<f, entries>> \in Words)
    BY <1>2 DEF Words
<1>7. PICK h, g : h = <<"handler", entries>> /\ g = <<"signal", entries>>
    OBVIOUS
<1>8. stack' = [stack EXCEPT ![20] = h, ![17] = g]
    BY ONLY <1>1, <1>4, <1>7, Zenon
<1>9. /\ stack' \in Seq(Words) /\ Len(stack') = 21 /\ stack'[20] = h /\ stack'[17] = g
      /\ \A i \in 1..21 : i # 20 /\ i # 17 => stack'[i] = stack[i]
    <2>1. h \in Words /\ g \in Words
        BY <1>6, <1>7
    <2>2. PICK t : t = [stack EXCEPT ![20] = h]
        OBVIOUS
    <2>3. t \in Seq(Words) /\ Len(t) = 21 /\ \A i \in 1..21 : t[i] = IF i = 20 THEN h ELSE stack[i]
        <3>2. Put(t, stack, 20, h)
            BY <2>2 DEF Put
        <3>3. PICK n, k : n = 21 /\ k = 20
            OBVIOUS
        <3>4. n \in Nat /\ k \in 1..n /\ Len(stack) = n /\ stack \in Seq(Words) /\ h \in Words /\ Put(t, stack, k, h)
            BY <1>2, <2>1, <3>2, <3>3
        <3>5. t \in Seq(Words) /\ Len(t) = n /\ \A i \in 1..n : t[i] = IF i = k THEN h ELSE stack[i]
            BY <3>4, WordPut
        <3> QED BY ONLY <3>3, <3>5
    <2>4. stack' = [t EXCEPT ![17] = g]
        BY ONLY <1>8, <2>2
    <2>5. stack' \in Seq(Words) /\ Len(stack') = 21 /\ \A i \in 1..21 : stack'[i] = IF i = 17 THEN g ELSE t[i]
        <3>2. Put(stack', t, 17, g)
            BY <2>4 DEF Put
        <3>3. PICK n, k : n = 21 /\ k = 17
            OBVIOUS
        <3>4. n \in Nat /\ k \in 1..n /\ Len(t) = n /\ t \in Seq(Words) /\ g \in Words /\ Put(stack', t, k, g)
            BY <2>1, <2>3, <3>2, <3>3
        <3>5. stack' \in Seq(Words) /\ Len(stack') = n /\ \A i \in 1..n : stack'[i] = IF i = k THEN g ELSE t[i]
            BY <3>4, WordPut
        <3> QED BY ONLY <3>3, <3>5
    <2> QED BY ONLY <2>3, <2>5
<1>10. \A i \in 1..14 : stack'[6 + i] = Due(UserContext[i])'
    <2>0. TAKE i \in 1..14
    <2>1. i \in 1..15 /\ 6 + i \in 1..21 /\ stack[6 + i] = <<UserContext[i], entries>>
        <3>1. i \in 1..15 /\ 6 + i \in 1..21
            BY ONLY <2>0
        <3> QED BY <1>2, <3>1
    <2>2. (UserContext[i] = "rcx" <=> i = 14) /\ (UserContext[i] = "rdi" <=> i = 11)
        BY <2>1, FrameLayout
    <2>3. Due(UserContext[i])' = IF UserContext[i] = "rcx" THEN <<"handler", entries>>
                                 ELSE IF UserContext[i] = "rdi" THEN <<"signal", entries>>
                                 ELSE <<UserContext[i], entries>>
        BY <1>1 DEF Due, Origin
    <2>4. CASE i = 14
        BY <1>7, <1>9, <2>2, <2>3, <2>4, SMTT(30)
    <2>5. CASE i = 11
        BY <1>7, <1>9, <2>2, <2>3, <2>5
    <2>6. CASE i # 14 /\ i # 11
        <3>1. 6 + i # 20 /\ 6 + i # 17
            BY <2>6
        <3> QED BY <1>9, <2>1, <2>2, <2>3, <2>6, <3>1
    <2> QED BY <2>4, <2>5, <2>6
<1>11. SavedContext'
    <2>1. PICK s : s = [f \in Regs |-> IF f = "rax" THEN <<"ret", entries>> ELSE stack[Field(f)]]
        OBVIOUS
    <2>2. s \in [Regs -> Words] /\ \A r \in Regs \ {"rax"} : s[r] = <<r, entries>>
        BY <1>3, <1>6, <2>1
    <2> QED BY <1>1, <2>1, <2>2 DEF SavedContext
<1>12. StubTypes'
    BY <1>1, <1>2, <1>5, <1>9 DEF StubTypes
<1>13. OnStack' /\ RegistersPreserved'
    BY <1>1, <1>9, <1>10 DEF OnStack, RegistersPreserved
<1> QED BY <1>11, <1>12, <1>13 DEF StubInv

LEMMA SigReturnKeeps == ASSUME StubInv, DispatchSigReturn PROVE StubInv'
<1>1. /\ stub_pc = "dispatch" /\ stub_pc' = "unwind" /\ entries' = entries /\ saved # <<>>
      /\ interrupted' = interrupted /\ outcome' = "sigreturn" /\ Called(saved[1]["rax"]) /\ saved' = <<>>
      /\ stack' = [i \in 1..Len(stack) |->
             IF i > UserContextPtr /\ i <= UserContextPtr + FrameWords
             THEN saved[1][UserContext[i - UserContextPtr]] ELSE stack[i]]
    BY DEF DispatchSigReturn
<1>2. entries \in Nat /\ interrupted \in Nat /\ Len(stack) = 21 /\ stack \in Seq(Words)
    BY <1>1 DEF StubInv, StubTypes, OnStack
<1>3. PICK s \in [Regs -> Words] : saved = <<s>> /\ \A r \in Regs \ {"rax"} : s[r] = <<r, interrupted>>
    BY <1>1 DEF StubInv, SavedContext
<1>4. saved[1] = s
    BY <1>3
<1>5. "rax" \in Regs
    <2>1. UserContext[15] = "rax"
        BY DEF UserContext
    <2> QED BY <2>1, RegsAreFields
<1>6. regs' \in [Regs -> Words]
    BY <1>1, <1>3, <1>4, <1>5, CallTypes DEF StubInv
<1>7. stack' = [i \in 1..21 |-> IF i > 6 /\ i <= 21 THEN s[UserContext[i - 6]] ELSE stack[i]]
    BY ONLY <1>1, <1>2, <1>4, FrameLayout
<1>8. \A i \in 1..15 : s[UserContext[i]] \in Words
    BY <1>3, RegsAreFields
<1>9. stack' \in Seq(Words) /\ Len(stack') = 21 /\ \A i \in 1..15 : stack'[6 + i] = s[UserContext[i]]
    <2>1. \A i \in 1..21 : stack[i] \in Words
        BY ONLY <1>2, ElementOfSeq
    <2>2. \A i \in 1..21 : (IF i > 6 /\ i <= 21 THEN s[UserContext[i - 6]] ELSE stack[i]) \in Words
        BY ONLY <1>8, <2>1
    <2>3. stack' \in Seq(Words) /\ Len(stack') = 21
        BY ONLY <1>7, <2>2
    <2>4. ASSUME NEW i \in 1..15 PROVE stack'[6 + i] = s[UserContext[i]]
        <3>1. 6 + i \in 1..21 /\ 6 + i > 6 /\ 6 + i <= 21 /\ 6 + i - 6 = i
            BY ONLY <2>4
        <3> QED BY ONLY <1>7, <3>1
    <2> QED BY <2>3, <2>4
<1>10. \A i \in 1..14 : stack'[6 + i] = Due(UserContext[i])'
    <2>1. TAKE i \in 1..14
    <2>2. i \in 1..15 /\ i # 15
        BY ONLY <2>1
    <2>3. UserContext[i] \in Regs \ {"rax"}
        BY <2>2, FrameLayout, RegsAreFields
    <2>4. Due(UserContext[i])' = <<UserContext[i], interrupted>>
        BY <1>1 DEF Due, Origin
    <2> QED BY <1>3, <1>9, <2>2, <2>3, <2>4
<1>11. StubTypes'
    BY <1>1, <1>2, <1>6, <1>9 DEF StubTypes
<1>12. SavedContext'
    BY <1>1 DEF SavedContext
<1>13. OnStack' /\ RegistersPreserved'
    BY <1>1, <1>9, <1>10 DEF OnStack, RegistersPreserved
<1> QED BY <1>11, <1>12, <1>13 DEF StubInv

LEMMA DropKeeps == ASSUME StubInv, DropContext PROVE StubInv'
<1>1. /\ stub_pc = "unwind" /\ stub_pc' = "pop" /\ entries' = entries /\ regs' = regs
      /\ saved' = saved /\ interrupted' = interrupted /\ outcome' = outcome
      /\ stack' = [SubSeq(stack, 7, Len(stack)) EXCEPT ![15] = regs["rax"]]
    BY FrameLayout DEF DropContext
<1>2. Len(stack) = 21 /\ stack \in Seq(Words) /\ (\A i \in 1..14 : stack[6 + i] = Due(UserContext[i]))
    BY <1>1 DEF StubInv, StubTypes, OnStack
<1>3. PICK t : t = SubSeq(stack, 7, 21)
    OBVIOUS
<1>4. t \in Seq(Words) /\ Len(t) = 15 /\ \A i \in 1..15 : t[i] = stack[6 + i]
    <2>1. \A i \in 7..21 : stack[i] \in Words
        <3>1. \A i \in 1..21 : stack[i] \in Words
            BY ONLY <1>2, ElementOfSeq
        <3> QED BY ONLY <3>1
    <2>2. t = [i \in 1..15 |-> stack[i + 6]]
        BY ONLY <1>3
    <2>3. \A i \in 1..15 : stack[i + 6] \in Words
        BY ONLY <2>1
    <2>4. t \in Seq(Words) /\ Len(t) = 15
        BY ONLY <2>2, <2>3
    <2> QED BY ONLY <2>2, <2>4
<1>5. regs["rax"] \in Words
    <2>1. UserContext[15] = "rax"
        BY DEF UserContext
    <2>2. "rax" \in Regs
        BY <2>1, RegsAreFields
    <2> QED BY <2>2 DEF StubInv, StubTypes
<1>6. stack' \in Seq(Words) /\ Len(stack') = 15 /\ \A i \in 1..15 : stack'[i] = IF i = 15 THEN regs["rax"] ELSE t[i]
    <2>2. stack' = [t EXCEPT ![15] = regs["rax"]]
        BY ONLY <1>1, <1>2, <1>3, Zenon
    <2>3. Put(stack', t, 15, regs["rax"])
        BY <2>2 DEF Put
    <2>4. PICK n, w : n = 15 /\ w = regs["rax"]
        OBVIOUS
    <2>5. n \in Nat /\ n \in 1..n /\ Len(t) = n /\ t \in Seq(Words) /\ w \in Words /\ Put(stack', t, n, w)
        BY <1>4, <1>5, <2>3, <2>4
    <2>6. stack' \in Seq(Words) /\ Len(stack') = n /\ \A i \in 1..n : stack'[i] = IF i = n THEN w ELSE t[i]
        BY <2>5, WordPut
    <2> QED BY ONLY <2>4, <2>6
<1>7. \A i \in 1..14 : stack'[i] = Due(UserContext[i])'
    <2>1. TAKE i \in 1..14
    <2>2. i \in 1..15 /\ i # 15
        BY ONLY <2>1
    <2>3. stack'[i] = stack[6 + i]
        BY ONLY <1>4, <1>6, <2>2
    <2>4. stack[6 + i] = Due(UserContext[i])
        BY <1>2
    <2>5. Due(UserContext[i])' = Due(UserContext[i])
        BY <1>1 DEF Due, Origin
    <2> QED BY ONLY <2>3, <2>4, <2>5
<1>8. StubTypes'
    BY <1>1, <1>6 DEF StubInv, StubTypes
<1>9. SavedContext'
    BY <1>1 DEF StubInv, SavedContext
<1>10. OnStack' /\ RegistersPreserved'
    BY <1>1, <1>6, <1>7 DEF OnStack, RegistersPreserved
<1> QED BY <1>8, <1>9, <1>10 DEF StubInv

LEMMA PopKeeps == ASSUME StubInv, PopAll PROVE StubInv'
<1>1. /\ stub_pc = "pop" /\ stub_pc' = "user" /\ entries' = entries
      /\ saved' = saved /\ interrupted' = interrupted /\ outcome' = outcome
      /\ regs' = [r \in Regs |-> stack[Index(r, UserContext)]]
      /\ stack' = SubSeq(stack, 16, Len(stack))
    BY FrameLayout DEF PopAll
<1>2. Len(stack) = 15 /\ stack \in Seq(Words) /\ (\A i \in 1..14 : stack[i] = Due(UserContext[i]))
    BY <1>1 DEF StubInv, StubTypes, OnStack
<1>3. \A i \in 1..15 : stack[i] \in Words
    BY ONLY <1>2, ElementOfSeq
<1>4. regs' \in [Regs -> Words]
    BY <1>1, <1>3, RegsAreFields
<1>5. stack' = <<>>
    BY ONLY <1>1, <1>2
<1>6. ASSUME NEW r \in Regs \ {"rax"} PROVE regs'[r] = Due(r)
    <2>1. PICK k : k = Index(r, UserContext)
        OBVIOUS
    <2>2. k \in 1..15 /\ UserContext[k] = r
        BY <2>1, RegsAreFields
    <2>3. k # 15
        BY <2>2, FrameLayout
    <2>4. k \in 1..14
        BY ONLY <2>2, <2>3
    <2> QED BY <1>1, <1>2, <2>1, <2>2, <2>4
<1>7. RegistersPreserved'
    BY <1>1, <1>6 DEF RegistersPreserved, Due, Origin
<1>8. StubTypes'
    BY <1>1, <1>4, <1>5 DEF StubInv, StubTypes
<1>9. SavedContext'
    BY <1>1 DEF StubInv, SavedContext
<1>10. OnStack'
    BY <1>1, <1>5 DEF OnStack
<1> QED BY <1>7, <1>8, <1>9, <1>10 DEF StubInv

\* Every step of the stub keeps the invariant.
LEMMA StubStep == ASSUME StubInv, [EntryNext]_entryVars PROVE StubInv'
<1>1. CASE UNCHANGED entryVars
    BY <1>1, ZenonT(60) DEF entryVars, StubInv, StubTypes, SavedContext, OnStack, RegistersPreserved, Due, Origin
<1>2. CASE EntryNext
    BY <1>2, InstructionKeeps, PushKeeps, LoadKeeps, BuildKeeps, PlainKeeps, SignalKeeps, SigReturnKeeps,
       DropKeeps, PopKeeps DEF EntryNext
<1> QED BY <1>1, <1>2

\* However many calls, signals and SigReturns a process makes, the user gets
\* every register but rax back as it was, or as the signal prescribes: the
\* pushes of syscall_entry, the fields of UserContext and the pops name the
\* same words of the stack.
THEOREM RegistersAlwaysPreserved == EntrySpec => []RegistersPreserved
<1>1. EntryInit => StubInv
    BY StubInit
<1>2. StubInv /\ [EntryNext]_entryVars => StubInv'
    BY StubStep
<1>3. StubInv => RegistersPreserved
    BY DEF StubInv
<1> QED BY <1>1, <1>2, <1>3, PTL DEF EntrySpec
=============================================================================
