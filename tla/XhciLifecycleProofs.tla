------------------------- MODULE XhciLifecycleProofs -------------------------
(***************************************************************************)
(* The life of the controller for rings of any size and any number of      *)
(* reports, recoveries and suspends.  Resume moves the controller to the   *)
(* start of the command ring and not the driver, so that commands may run  *)
(* again: of the rings, only the endpoints keep the lane invariant, and    *)
(* the command ring keeps a weaker one.                                    *)
(***************************************************************************)
EXTENDS XhciLifecycle, XhciTransportProofs

-----------------------------------------------------------------------------
(* The plan.                                                               *)

NoOp == Td("command", 1, "no_op")

\* What the plan consists of, entry by entry.
Planned ==
    /\ Plan[1] = NoOp
    /\ device = "none" => Len(Plan) = 1 /\ Plan = <<NoOp>>
    /\ device # "none" =>
          /\ Plan[2] = Td("port", 0, "reset_port")
          /\ Plan[3] = Td("command", 1, "enable_slot") /\ Plan[4] = Td("command", 1, "address_device")
          /\ Plan[5] = Td("control", 3, "device_descriptor")
          /\ Plan[6] = Td("control", 3, "configuration_header")
          /\ Plan[7] = Td("control", 3, "configuration")
          /\ Plan[8] = Td("control", 2, "set_configuration")
    /\ device = "keyboard" => /\ Len(Plan) = 10 /\ Plan[9] = Td("control", 2, "set_protocol")
                              /\ Plan[10] = Td("command", 1, "configure_endpoints")
    /\ device = "storage" => Len(Plan) = 9 /\ Plan[9] = Td("command", 1, "configure_endpoints")

LEMMA PlanEntries == ASSUME device \in {"none", "keyboard", "storage"} PROVE Planned
<1>1. PICK t1, t2, t3, t4 : /\ t1 = NoOp /\ t2 = Td("port", 0, "reset_port")
                            /\ t3 = Td("command", 1, "enable_slot") /\ t4 = Td("command", 1, "address_device")
    OBVIOUS
<1>2. PICK t5, t6, t7, t8 : /\ t5 = Td("control", 3, "device_descriptor")
                            /\ t6 = Td("control", 3, "configuration_header")
                            /\ t7 = Td("control", 3, "configuration")
                            /\ t8 = Td("control", 2, "set_configuration")
    OBVIOUS
<1>3. PICK t9, t10 : t9 = Td("control", 2, "set_protocol") /\ t10 = Td("command", 1, "configure_endpoints")
    OBVIOUS
<1>4. PICK S : S = {t1, t2, t3, t4, t5, t6, t7, t8, t9, t10}
    OBVIOUS
<1> DEFINE k == <<t1>> \o (<<t2, t3, t4>> \o (<<t5, t6, t7, t8>> \o <<t9>> \o <<t10>>))
           s == <<t1>> \o (<<t2, t3, t4>> \o (<<t5, t6, t7, t8>> \o <<>> \o <<t10>>))
           o == <<t1>> \o <<>>
<1>5. t1 \in S /\ t2 \in S /\ t3 \in S /\ t4 \in S /\ t5 \in S /\ t6 \in S /\ t7 \in S /\ t8 \in S /\ t9 \in S /\ t10 \in S
    BY ONLY <1>4
<1>6. /\ Len(k) = 10 /\ k[1] = t1 /\ k[2] = t2 /\ k[3] = t3 /\ k[4] = t4 /\ k[5] = t5
      /\ k[6] = t6 /\ k[7] = t7 /\ k[8] = t8 /\ k[9] = t9 /\ k[10] = t10
      /\ Len(s) = 9 /\ s[1] = t1 /\ s[2] = t2 /\ s[3] = t3 /\ s[4] = t4 /\ s[5] = t5
      /\ s[6] = t6 /\ s[7] = t7 /\ s[8] = t8 /\ s[9] = t10
      /\ o = <<t1>> /\ Len(o) = 1 /\ o[1] = t1
    BY ONLY <1>5
<1>7. /\ device = "none" => Plan = o
      /\ device = "keyboard" => Plan = k
      /\ device = "storage" => Plan = s
    BY <1>1, <1>2, <1>3, Zenon DEF Plan, NoOp, Addressing, Enumerating
<1> HIDE DEF k, s, o
<1>8. CASE device = "none"
    BY ONLY <1>1, <1>6, <1>7, <1>8 DEF Planned
<1>9. CASE device = "keyboard"
    BY ONLY <1>1, <1>2, <1>3, <1>6, <1>7, <1>9 DEF Planned
<1>10. CASE device = "storage"
    BY ONLY <1>1, <1>2, <1>3, <1>6, <1>7, <1>10 DEF Planned
<1> QED BY <1>8, <1>9, <1>10

-----------------------------------------------------------------------------
(* The invariant.                                                          *)

\* The stages before the rings exist, those that prepare the controller, those
\* after init, and those of a suspend.
Early == {"boot", "capabilities", "protocols", "reset", "allocate"}
Starting == {"program", "arm", "start"}
Planning == {"plan", "clear_port", "wait"}
Asleep == {"acpi", "abort", "asleep", "woken"}
Up == {"prompt", "command"} \cup Asleep

\* The endpoints: at most the awaited TD lies between driver and controller.
EndpointInv ==
    /\ RingTypes /\ EventShape
    /\ \A r \in Endpoints : RingShape(r) /\ (Ready(r) \/ (Loaded(r, transfer) /\ UnreadOf(Endpoints) = {}))
    /\ LaneInv(Endpoints, transfer)

\* Entry i of a ring has been written, and only names what is there.
Filled(r, i) == ring[r][i].td \in Nat \ {0}
EntryOK(r, i) ==
    /\ ring[r][i].td \in Nat
    /\ Filled(r, i) => Follows(ring[r][i].what) \subseteq prepared

\* The commands of the driver.
CommandOK(i) ==
    /\ ring["command"][i].length = 1
    /\ Filled("command", i) => /\ ring["command"][i].what \notin {"dequeue_in", "dequeue_out", "reset_out"}
                               /\ ring["command"][i].what = "reset_in" => device = "storage"

\* The command ring has been filled once; or the controller, wherever resume
\* has put it, has not passed the driver.
Wrapped == \A i \in 0..Usable["command"] - 1 : Filled("command", i)
Fresh ==
    /\ cursor["command"].cycle = TRUE /\ hw["command"].cycle = TRUE
    /\ hw["command"].index <= cursor["command"].index
    /\ \A i \in 0..Usable["command"] - 1 :
           /\ i < cursor["command"].index => Filled("command", i)
           /\ i >= cursor["command"].index => ring["command"][i].cycle = FALSE

CommandRingInv ==
    /\ cursor["command"].index < Usable["command"] /\ hw["command"].index <= Usable["command"]
    /\ \A i \in 0..Usable["command"] - 1 : CommandOK(i)
    /\ Wrapped \/ Fresh

EntriesInv == \A r \in {"command", "control", "in"} : \A i \in 0..Usable[r] - 1 : EntryOK(r, i)

\* TRBs of the control ring that the first k entries of the plan take, at most.
Drawn(k) == IF k <= 4 THEN 0 ELSE IF k <= 7 THEN 3 * (k - 4) ELSE 9 + 2 * (k - 7)

Base == {"dcbaa", "scratchpads", "command_ring", "event_ring"}

\* How far init has come, and what is there by then.
PlanInv ==
    /\ device \in {"none", "keyboard", "storage"} /\ step \in Nat \ {0}
    /\ stage \in Early => prepared = {}
    /\ stage \in Starting \cup Planning \/ (stage \in Up /\ Published) => Base \subseteq prepared
    /\ device # "none" =>
          /\ step > 2 => port.enabled
          /\ step > 3 => "slot_context" \in prepared
          /\ device = "keyboard" /\ step > 9 => "endpoint_contexts" \in prepared
          /\ device = "storage" /\ step > 8 => "endpoint_contexts" \in prepared
    /\ stage = "wait" => step <= Len(Plan) /\ Plan[step].ring # "port"
    /\ stage = "clear_port" => device # "none" /\ step = 2 /\ port.enabled
    /\ stage = "failed" => step <= Len(Plan)
    /\ stage = "plan" => step <= Len(Plan) + 1
    /\ stage \in Early \cup Starting => step = 1
    /\ stage \in Early \cup Starting \cup {"plan", "clear_port"} => cursor["control"].index <= FirstControl + Drawn(step - 1)
    /\ stage = "wait" => cursor["control"].index <= FirstControl + Drawn(step)

\* What is awaited in which stage.
AwaitInv ==
    /\ stage \in Early \cup Starting \cup {"plan", "clear_port"} => transfer = NotPending
    /\ stage \in Asleep /\ Published => transfer = NotPending
    /\ stage = "wait" /\ Plan[step].ring = "command" => transfer = NotPending
    /\ device = "storage" => transfer.owner # "in"

\* A token exists from the stop of a published controller until it is given
\* back; without a published driver there is none.
SuspendInv ==
    /\ stage \in Early \cup Starting \cup Planning \cup Up \cup {"failed"}
    /\ s3_generation \in Nat
    /\ stage \in Asleep /\ Published => ~run /\ PENDING_S3_TOKEN # NoToken
    /\ stage \notin Asleep \/ ~Published => PENDING_S3_TOKEN = NoToken /\ s3_state # "Quiesced"

LifeInv == EndpointInv /\ CommandRingInv /\ EntriesInv /\ PlanInv /\ AwaitInv /\ SuspendInv

-----------------------------------------------------------------------------
(* Steps that leave the endpoints alone.                                   *)

LEMMA RingNames ==
    /\ Endpoints = {"control", "in", "out"} /\ Rings = {"control", "in", "out", "command"}
    /\ "command" \notin Endpoints /\ Endpoints \subseteq Rings /\ Endpoints = Rings \ {"command"}
    /\ "command" \in Rings /\ "control" \in Rings /\ "in" \in Rings /\ "out" \in Rings
    /\ "control" \in Endpoints /\ "in" \in Endpoints /\ "out" \in Endpoints
BY DEF Rings, Endpoints

LEMMA Sizes ==
    /\ \A r \in Rings : Usable[r] \in Nat \ {0, 1}
    /\ Usable["control"] = ControlTrbs /\ ControlTrbs \in Nat \ 0..3 /\ FirstControl \in Nat
    /\ FirstControl + 13 <= ControlTrbs
<1>1. Usable["control"] = ControlTrbs
    BY Zenon DEF Usable, Rings, Endpoints
<1> QED BY <1>1, UsableType, TransportAssumption, LifecycleAssumption

\* Whose position, ring and events of the endpoints stay the same.
SameEndpoints ==
    /\ \A r \in Endpoints : ring'[r] = ring[r] /\ cursor'[r] = cursor[r] /\ hw'[r] = hw[r]
    /\ UnreadOf(Endpoints)' = UnreadOf(Endpoints)
    /\ \A j \in UnreadOf(Endpoints) : eventRing'[j] = eventRing[j]
    /\ transfer' = transfer

LEMMA EndpointsKept ==
    ASSUME EndpointInv, SameEndpoints, RingTypes', EventShape', submitted <= submitted'
    PROVE  EndpointInv'
<1>1. submitted \in Nat /\ submitted' \in Nat /\ \A r \in Endpoints : hw[r].ran \in Nat
    BY RingFields, RingNames DEF EndpointInv, RingTypes
<1>2. PICK p : p = transfer
    OBVIOUS
<1>3. LaneInv(Endpoints, p)'
    BY <1>1, <1>2, LaneUntouched DEF EndpointInv, SameEndpoints
<1>4. LaneInv(Endpoints, transfer)'
    BY <1>2, <1>3, LaneNext DEF SameEndpoints
<1>5. ASSUME NEW r \in Endpoints
      PROVE  RingShape(r)' /\ (Ready(r)' \/ (Loaded(r, transfer)' /\ UnreadOf(Endpoints)' = {}))
    <2>1. ring'[r] = ring[r] /\ cursor'[r] = cursor[r] /\ hw'[r] = hw[r]
        BY <1>5 DEF SameEndpoints
    <2>2. RingShape(r)' /\ (Ready(r)' <=> Ready(r)) /\ (Loaded(r, p)' <=> Loaded(r, p))
        BY <1>1, <1>5, <2>1, RingUntouched DEF EndpointInv
    <2>3. Loaded(r, p)' => Loaded(r, transfer)'
        BY <1>2, LaneNext DEF SameEndpoints
    <2> QED BY <1>2, <1>5, <2>2, <2>3 DEF EndpointInv, SameEndpoints
<1> QED BY <1>4, <1>5 DEF EndpointInv

\* Nothing of the rings and events changes.
LEMMA EndpointsStay ==
    ASSUME EndpointInv, UNCHANGED <<ring, cursor, hw, eventRing, hwEvent, dequeue, transfer, submitted>>
    PROVE  EndpointInv'
<1>1. RingTypes' /\ EventShape'
    BY DEF EndpointInv, RingTypes, EventShape
<1>2. UnreadOf(Endpoints)' = UnreadOf(Endpoints)
    BY DEF UnreadOf, Unread
<1>3. SameEndpoints
    BY <1>2 DEF SameEndpoints
<1>4. submitted <= submitted'
    BY DEF EndpointInv, RingTypes
<1> QED BY <1>1, <1>3, <1>4, EndpointsKept

LEMMA CommandsStay ==
    ASSUME CommandRingInv, ring'["command"] = ring["command"], cursor'["command"] = cursor["command"],
           hw'["command"] = hw["command"], device' = device
    PROVE  CommandRingInv'
BY DEF CommandRingInv, CommandOK, Filled, Wrapped, Fresh

LEMMA EntriesStay ==
    ASSUME EntriesInv, ring' = ring, prepared \subseteq prepared'
    PROVE  EntriesInv'
BY DEF EntriesInv, EntryOK, Filled

\* None of the rings, events and structures changes.
LEMMA AllStay ==
    ASSUME LifeInv, UNCHANGED <<ring, cursor, hw, eventRing, hwEvent, dequeue, transfer, submitted, device>>,
           prepared \subseteq prepared'
    PROVE  EndpointInv' /\ CommandRingInv' /\ EntriesInv'
BY EndpointsStay, CommandsStay, EntriesStay DEF LifeInv

-----------------------------------------------------------------------------
(* Submissions.                                                            *)

\* What a submission writes over the entries of a ring.
LEMMA EnqueueWrites ==
    ASSUME RingTypes, NEW r \in Rings, NEW length \in Nat \ {0}, NEW what, cursor[r].index + length <= Usable[r],
           Enqueue(r, length, what)
    PROVE  /\ \A i \in 0..Usable[r] - 1 :
                  IF i \in cursor[r].index .. cursor[r].index + length - 1
                  THEN ring'[r][i] = [cycle |-> cursor[r].cycle, td |-> submitted + 1, length |-> length, what |-> what]
                  ELSE ring'[r][i] = ring[r][i]
           /\ cursor'[r] = Reserved(r, length)
           /\ hw'[r].index = hw[r].index /\ hw'[r].cycle = hw[r].cycle
           /\ \A s \in Rings \ {r} : ring'[s] = ring[s] /\ cursor'[s] = cursor[s] /\ hw'[s] = hw[s]
           /\ submitted' = submitted + 1 /\ submitted \in Nat
           /\ RingTypes'
<1>1. PICK c, y, U, h, n : c = cursor[r].index /\ y = cursor[r].cycle /\ U = Usable[r] /\ h = hw[r] /\ n = submitted + 1
    OBVIOUS
<1>2. /\ c \in Nat /\ y \in BOOLEAN /\ U \in Nat \ {0, 1} /\ cursor[r] = [index |-> c, cycle |-> y]
      /\ h = [index |-> h.index, cycle |-> h.cycle, state |-> h.state, ran |-> h.ran]
      /\ h.index \in Nat /\ h.cycle \in BOOLEAN /\ h.ran \in Nat /\ h.state \in {"running", "stopped", "halted"}
      /\ submitted \in Nat
    BY <1>1, RingFields DEF RingTypes
<1>3. ring = [s \in Rings |-> ring[s]] /\ cursor = [s \in Rings |-> cursor[s]] /\ hw = [s \in Rings |-> hw[s]]
    BY DEF RingTypes
<1>4. ring' = [ring EXCEPT ![r] = WithTd(r, length, what)] /\ cursor' = [cursor EXCEPT ![r] = Reserved(r, length)]
          /\ hw' = Rung(r) /\ submitted' = submitted + 1
    BY DEF Enqueue
<1>5. PICK w, z : w = WithTd(r, length, what) /\ z = Reserved(r, length)
    OBVIOUS
<1>6. /\ ring'[r] = w /\ cursor'[r] = z
      /\ \A s \in Rings \ {r} : ring'[s] = ring[s] /\ cursor'[s] = cursor[s]
      /\ ring' = [s \in Rings |-> ring'[s]] /\ cursor' = [s \in Rings |-> cursor'[s]]
    BY ONLY <1>3, <1>4, <1>5, r \in Rings
<1>7. PICK g : g = [h EXCEPT !.state = IF @ = "stopped" THEN "running" ELSE @]
    OBVIOUS
<1>8. hw' = [hw EXCEPT ![r] = g]
    BY <1>1, <1>4, <1>7 DEF Rung
<1>9. hw'[r] = g /\ (\A s \in Rings \ {r} : hw'[s] = hw[s]) /\ hw' = [s \in Rings |-> hw'[s]]
    BY ONLY <1>3, <1>8, r \in Rings
<1>10. g.index = h.index /\ g.cycle = h.cycle
       /\ g \in [index : Nat, cycle : BOOLEAN, state : {"running", "stopped", "halted"}, ran : Nat]
    BY ONLY <1>2, <1>7
<1>11. z \in [index : Nat, cycle : BOOLEAN]
    <2>1. ReachesLink(r, length) => z = [index |-> 0, cycle |-> Flip(y)]
        BY <1>1, <1>5, Zenon DEF Reserved, Flip
    <2>2. PICK m : m = c + length
        OBVIOUS
    <2>3. [cursor[r] EXCEPT !.index = @ + length] = [index |-> m, cycle |-> y]
        BY ONLY <1>2, <2>2
    <2>4. ~ReachesLink(r, length) => z = [index |-> m, cycle |-> y]
        BY <1>5, <2>3 DEF Reserved
    <2>5. m \in Nat /\ Flip(y) \in BOOLEAN
        BY <1>2, <2>2, FlipFacts
    <2> QED BY ONLY <1>2, <2>1, <2>4, <2>5
<1>12. ASSUME NEW i \in 0..Usable[r] - 1
       PROVE  IF i \in cursor[r].index .. cursor[r].index + length - 1
              THEN ring'[r][i] = [cycle |-> cursor[r].cycle, td |-> submitted + 1, length |-> length, what |-> what]
              ELSE ring'[r][i] = ring[r][i]
    <2>1. i \in 0..Usable[r] /\ i # Usable[r]
        BY <1>1, <1>2, <1>12
    <2>2. w[i] = IF i \in cursor[r].index .. cursor[r].index + length - 1
                 THEN [cycle |-> cursor[r].cycle, td |-> submitted + 1, length |-> length, what |-> what]
                 ELSE ring[r][i]
        BY <1>5, <2>1 DEF WithTd
    <2> QED BY <1>6, <2>2
<1>13. \A s \in Rings : cursor'[s] \in [index : Nat, cycle : BOOLEAN]
    BY <1>6, <1>11 DEF RingTypes
<1>14. \A s \in Rings : hw'[s] \in [index : Nat, cycle : BOOLEAN, state : {"running", "stopped", "halted"}, ran : Nat]
    BY <1>9, <1>10 DEF RingTypes
<1>15. RingTypes'
    BY <1>2, <1>4, <1>6, <1>9, <1>13, <1>14 DEF RingTypes
<1> QED BY <1>1, <1>2, <1>4, <1>5, <1>6, <1>9, <1>10, <1>12, <1>15

\* A TD that names only what is there.
LEMMA EntriesWritten ==
    ASSUME RingTypes, EntriesInv, NEW r \in {"command", "control", "in"}, NEW length \in Nat \ {0}, NEW what,
           cursor[r].index + length <= Usable[r], Enqueue(r, length, what), Follows(what) \subseteq prepared,
           prepared' = prepared
    PROVE  EntriesInv'
<1>1. r \in Rings
    BY RingNames
<1>2. PICK e : e = [cycle |-> cursor[r].cycle, td |-> submitted + 1, length |-> length, what |-> what]
    OBVIOUS
<1>3. e.td = submitted + 1 /\ e.what = what /\ submitted \in Nat
    BY <1>2 DEF RingTypes
<1>4. /\ \A i \in 0..Usable[r] - 1 : ring'[r][i] = e \/ ring'[r][i] = ring[r][i]
      /\ \A s \in Rings \ {r} : ring'[s] = ring[s]
    BY <1>1, <1>2, EnqueueWrites
<1>5. ASSUME NEW i \in 0..Usable[r] - 1 PROVE EntryOK(r, i)'
    <2>1. CASE ring'[r][i] = e
        BY <1>3, <2>1 DEF EntryOK, Filled
    <2>2. CASE ring'[r][i] = ring[r][i]
        BY <1>5, <2>2 DEF EntriesInv, EntryOK, Filled
    <2> QED BY <1>4, <1>5, <2>1, <2>2
<1>6. ASSUME NEW s \in {"command", "control", "in"} \ {r}, NEW i \in 0..Usable[s] - 1 PROVE EntryOK(s, i)'
    <2>1. s \in Rings \ {r} /\ s \in {"command", "control", "in"}
        BY <1>6, RingNames
    <2> QED BY <1>4, <1>6, <2>1 DEF EntriesInv, EntryOK, Filled
<1> QED BY <1>5, <1>6 DEF EntriesInv

\* A command is written: the endpoints are left alone, and the command ring
\* is filled in order.
LEMMA CommandEnqueued ==
    ASSUME EndpointInv, CommandRingInv, EntriesInv, NEW what,
           what \notin {"dequeue_in", "dequeue_out", "reset_out"}, what = "reset_in" => device = "storage",
           Follows(what) \subseteq prepared, SubmitCommand(what), UNCHANGED <<transfer, prepared, device>>
    PROVE  EndpointInv' /\ CommandRingInv' /\ EntriesInv' /\ SameEndpoints
<1>1. PICK c, y, U, h, n : /\ c = cursor["command"].index /\ y = cursor["command"].cycle
                           /\ U = Usable["command"] /\ h = hw["command"] /\ n = submitted + 1
    OBVIOUS
<1>2. PICK e : e = [cycle |-> y, td |-> n, length |-> 1, what |-> what]
    OBVIOUS
<1>3. RingTypes /\ EventShape
    BY DEF EndpointInv
<1>4. /\ c \in Nat /\ y \in BOOLEAN /\ U \in Nat \ {0, 1} /\ h.index \in Nat /\ h.cycle \in BOOLEAN
      /\ cursor["command"] = [index |-> c, cycle |-> y] /\ submitted \in Nat /\ n \in Nat \ {0}
    BY <1>1, <1>3, RingFields, RingNames DEF RingTypes
<1>5. c < U /\ h.index <= U
    BY <1>1 DEF CommandRingInv
<1>6. Enqueue("command", 1, what) /\ UNCHANGED <<eventRing, hwEvent, dequeue>>
    BY DEF SubmitCommand, Enqueue
<1>7. cursor["command"].index + 1 <= Usable["command"]
    BY <1>1, <1>4, <1>5
<1>8. /\ \A i \in 0..U - 1 : IF i \in c .. c + 1 - 1 THEN ring'["command"][i] = e
                                                     ELSE ring'["command"][i] = ring["command"][i]
      /\ cursor'["command"] = Reserved("command", 1)
      /\ hw'["command"].index = h.index /\ hw'["command"].cycle = h.cycle
      /\ \A s \in Rings \ {"command"} : ring'[s] = ring[s] /\ cursor'[s] = cursor[s] /\ hw'[s] = hw[s]
      /\ submitted' = n /\ RingTypes'
    BY <1>1, <1>2, <1>3, <1>6, <1>7, EnqueueWrites, RingNames
<1>9. \A i \in 0..U - 1 : /\ i = c => ring'["command"][i] = e
                          /\ i # c => ring'["command"][i] = ring["command"][i]
    BY <1>4, <1>5, <1>8
<1>10. e.cycle = y /\ e.td = n /\ e.length = 1 /\ e.what = what
    BY <1>2
<1>11. /\ c + 1 = U => cursor'["command"].index = 0
       /\ c + 1 # U => cursor'["command"].index = c + 1 /\ cursor'["command"].cycle = y
    <2>1. ReachesLink("command", 1) <=> c + 1 = U
        BY <1>1 DEF ReachesLink
    <2>2. c + 1 = U => cursor'["command"].index = 0
        BY <1>8, <2>1 DEF Reserved
    <2>3. c + 1 # U => cursor'["command"] = [cursor["command"] EXCEPT !.index = @ + 1]
        BY <1>8, <2>1 DEF Reserved
    <2> QED BY <1>4, <2>2, <2>3
<1>12. SameEndpoints
    <2>1. UnreadOf(Endpoints)' = UnreadOf(Endpoints)
        BY <1>6 DEF UnreadOf, Unread
    <2> QED BY <1>6, <1>8, <2>1, RingNames DEF SameEndpoints
<1>13. EndpointInv'
    <2>1. EventShape' /\ submitted <= submitted'
        BY <1>1, <1>3, <1>4, <1>6, <1>8 DEF EventShape
    <2> QED BY <1>8, <1>12, <2>1, EndpointsKept
<1>14. EntriesInv'
    BY <1>3, <1>6, <1>7, EntriesWritten
<1>15. ASSUME NEW i \in 0..U - 1 PROVE CommandOK(i)' /\ (Filled("command", i) \/ i = c => Filled("command", i)')
    <2>1. CASE i = c
        BY <1>4, <1>9, <1>10, <1>15, <2>1 DEF CommandOK, Filled
    <2>2. CASE i # c
        BY <1>1, <1>9, <1>15, <2>2 DEF CommandOK, Filled, CommandRingInv
    <2> QED BY <2>1, <2>2
<1>16. cursor'["command"].index < U /\ hw'["command"].index <= U
    BY <1>4, <1>5, <1>8, <1>11
<1>17. CASE Wrapped
    <2>1. Wrapped'
        BY <1>1, <1>15, <1>17 DEF Wrapped
    <2> QED BY <1>1, <1>13, <1>14, <1>15, <1>16, <1>12, <2>1 DEF CommandRingInv
<1>18. CASE Fresh /\ c + 1 = U
    <2>1. \A i \in 0..U - 1 : i < c \/ i = c
        BY <1>4, <1>18
    <2>2. Wrapped'
        BY <1>1, <1>15, <1>18, <2>1 DEF Wrapped, Fresh
    <2> QED BY <1>1, <1>13, <1>14, <1>15, <1>16, <1>12, <2>2 DEF CommandRingInv
<1>19. CASE Fresh /\ c + 1 # U
    <2>1. cursor'["command"].index = c + 1 /\ cursor'["command"].cycle = y
        BY <1>11, <1>19
    <2>2. y = TRUE /\ h.cycle = TRUE /\ h.index <= c
        BY <1>1, <1>19 DEF Fresh
    <2>3. \A i \in 0..U - 1 : /\ i < c + 1 => Filled("command", i)'
                              /\ i >= c + 1 => ring'["command"][i].cycle = FALSE
        <3>1. ASSUME NEW i \in 0..U - 1 PROVE /\ i < c + 1 => i < c \/ i = c
                                              /\ i >= c + 1 => i # c /\ i >= c
            BY <1>4
        <3> QED BY <1>1, <1>9, <1>15, <1>19, <3>1 DEF Fresh
    <2>4. Fresh'
        BY <1>1, <1>4, <1>8, <2>1, <2>2, <2>3 DEF Fresh
    <2> QED BY <1>1, <1>13, <1>14, <1>15, <1>16, <1>12, <2>4 DEF CommandRingInv
<1> QED BY <1>17, <1>18, <1>19 DEF CommandRingInv

\* An endpoint is ready unless its TD is awaited.
LEMMA EndpointsReady ==
    ASSUME EndpointInv, Done(transfer)
    PROVE  UnreadOf(Endpoints) = {} /\ \A r \in Endpoints : Ready(r) /\ Settled(r)
<1>1. UnreadOf(Endpoints) = {} /\ \A r \in Endpoints : Settled(r)
    BY LaneIdle, RingNames DEF EndpointInv
<1>2. ASSUME NEW r \in Endpoints PROVE Ready(r)
    <2>1. r # "none"
        BY RingNames
    <2>2. ~Loaded(r, transfer)
        BY <2>1, NotPendingFields DEF Done, Loaded
    <2> QED BY <2>2 DEF EndpointInv
<1> QED BY <1>1, <1>2

\* LaneSubmitted for the endpoints.
LEMMA EndpointSubmitted ==
    ASSUME RingTypes, NEW r \in Endpoints, RingShape(r), \A s \in Endpoints : Settled(s), UnreadOf(Endpoints)' = {},
           Ready(r), NEW length \in Nat \ {0}, length < Usable[r], CanReserve(r, length), NEW what,
           Enqueue(r, length, what), NEW q, q = Awaiting(r, length)
    PROVE  /\ RingTypes' /\ RingShape(r)' /\ LaneInv(Endpoints, q)' /\ Loaded(r, q)'
           /\ \A s \in Rings \ {r} : ring'[s] = ring[s] /\ cursor'[s] = cursor[s] /\ hw'[s] = hw[s]
           /\ submitted' = submitted + 1
           /\ q.owner = r
BY LaneSubmitted, LanesOfRings

\* A TD is written for an endpoint on which nothing is awaited.
LEMMA TransferEnqueued ==
    ASSUME EndpointInv, CommandRingInv, EntriesInv, NEW r \in Endpoints, r \in {"control", "in"}, NEW length \in Nat \ {0}, NEW what,
           cursor[r].index + length <= Usable[r], length < Usable[r], Done(transfer), Follows(what) \subseteq prepared,
           SubmitTransfer(r, length, what), UNCHANGED <<prepared, device>>
    PROVE  EndpointInv' /\ CommandRingInv' /\ EntriesInv' /\ transfer'.owner = r
<1>1. r \in Endpoints /\ r \in Rings /\ r # "command" /\ r \in {"command", "control", "in"}
    BY RingNames
<1>2. UnreadOf(Endpoints) = {} /\ \A s \in Endpoints : Ready(s) /\ Settled(s)
    BY EndpointsReady
<1>3. RingTypes /\ EventShape /\ RingShape(r) /\ Ready(r)
    BY <1>1, <1>2 DEF EndpointInv
<1>4. Enqueue(r, length, what) /\ transfer' = Awaiting(r, length) /\ UNCHANGED <<eventRing, hwEvent, dequeue>>
    BY DEF SubmitTransfer, Enqueue
<1>5. UnreadOf(Endpoints)' = {} /\ EventShape'
    BY <1>2, <1>3, <1>4 DEF UnreadOf, Unread, EventShape
<1>6. PICK q : q = Awaiting(r, length)
    OBVIOUS
<1>7. CanReserve(r, length)
    BY DEF CanReserve
<1>8. /\ RingTypes' /\ RingShape(r)' /\ LaneInv(Endpoints, q)' /\ Loaded(r, q)'
      /\ \A s \in Rings \ {r} : ring'[s] = ring[s] /\ cursor'[s] = cursor[s] /\ hw'[s] = hw[s]
      /\ submitted' = submitted + 1 /\ q.owner = r
    <2>1. Endpoints \subseteq Rings /\ (\A s \in Endpoints : Settled(s)) /\ length \in Nat \ {0} /\ length < Usable[r]
        BY <1>2, RingNames
    <2> QED BY <1>3, <1>4, <1>5, <1>6, <1>7, <2>1, EndpointSubmitted
<1>9. LaneInv(Endpoints, transfer)' /\ Loaded(r, transfer)'
    BY <1>4, <1>6, <1>8, LaneNext
<1>10. ASSUME NEW s \in Endpoints, s # r PROVE RingShape(s)' /\ Ready(s)'
    <2>1. s \in Rings \ {r} /\ RingShape(s) /\ Ready(s)
        BY <1>2, <1>10, RingNames DEF EndpointInv
    <2>2. hw[s].ran \in Nat /\ submitted \in Nat
        BY <1>3, <2>1, RingFields DEF RingTypes
    <2>3. ring'[s] = ring[s] /\ cursor'[s] = cursor[s] /\ hw'[s] = hw[s] /\ submitted' = submitted + 1
        BY <1>8, <2>1
    <2>4. submitted' \in Nat /\ submitted <= submitted'
        BY <2>2, <2>3
    <2> QED BY <2>1, <2>2, <2>3, <2>4, RingUntouched
<1>11. EndpointInv'
    BY <1>1, <1>5, <1>8, <1>9, <1>10 DEF EndpointInv
<1>12. CommandRingInv'
    BY <1>1, <1>8, CommandsStay, RingNames
<1>13. EntriesInv'
    BY <1>1, <1>3, <1>4, EntriesWritten
<1> QED BY <1>4, <1>6, <1>8, <1>11, <1>12, <1>13

\* The driver forgets a transfer that is over.
LEMMA TransferForgotten ==
    ASSUME EndpointInv, Done(transfer), transfer' = NotPending,
           UNCHANGED <<ring, cursor, hw, eventRing, hwEvent, dequeue, submitted>>
    PROVE  EndpointInv'
<1>1. UnreadOf(Endpoints) = {} /\ \A r \in Endpoints : Ready(r) /\ Settled(r)
    BY EndpointsReady
<1>2. RingTypes' /\ EventShape' /\ UnreadOf(Endpoints)' = {}
    BY <1>1 DEF EndpointInv, RingTypes, EventShape, UnreadOf, Unread
<1>3. ASSUME NEW r \in Endpoints PROVE Ready(r)' /\ Settled(r)' /\ RingShape(r)'
    <2>1. hw[r].ran \in Nat /\ submitted \in Nat
        BY RingFields, RingNames DEF EndpointInv, RingTypes
    <2> QED BY <1>1, <2>1, RingUntouched DEF EndpointInv
<1>4. LaneInv(Endpoints, NotPending)'
    BY <1>2, <1>3, LaneCleared DEF RingTypes
<1>5. PICK q : q = NotPending
    OBVIOUS
<1>6. LaneInv(Endpoints, q)'
    BY <1>4, <1>5
<1>7. LaneInv(Endpoints, transfer)'
    BY <1>5, <1>6, LaneNext
<1> QED BY <1>2, <1>3, <1>7 DEF EndpointInv

-----------------------------------------------------------------------------
(* Events.                                                                 *)

LEMMA EventAccepted ==
    ASSUME EndpointInv, Dispatch
    PROVE  /\ EndpointInv'
           /\ transfer'.owner = transfer.owner
           /\ transfer = NotPending => transfer' = NotPending
<1>1. PICK d, e : d = dequeue.index /\ e = eventRing[d]
    OBVIOUS
<1>2. /\ HasEvent /\ UNCHANGED <<ring, cursor, hw, eventRing, hwEvent, submitted>>
      /\ transfer' = IF e.ring \in Endpoints THEN Accepted(transfer, e) ELSE transfer
      /\ dequeue' = IF dequeue.index + 1 = EventTrbs THEN [index |-> 0, cycle |-> ~dequeue.cycle]
                                                     ELSE [dequeue EXCEPT !.index = @ + 1]
    BY <1>1 DEF Dispatch
<1>3. RingTypes /\ EventShape /\ RingTypes'
    BY <1>2 DEF EndpointInv, RingTypes
<1>4. /\ EventShape' /\ UnreadOf(Endpoints)' = UnreadOf(Endpoints) \ {d}
      /\ d \in UnreadOf(Endpoints) <=> e.ring \in Endpoints
    BY <1>1, <1>2, <1>3, TakenFrom
<1>5. CASE e.ring \notin Endpoints
    <2>1. SameEndpoints
        BY <1>2, <1>4, <1>5 DEF SameEndpoints
    <2>2. submitted <= submitted'
        BY <1>2, <1>3 DEF RingTypes
    <2> QED BY <1>2, <1>3, <1>4, <1>5, <2>1, <2>2, EndpointsKept
<1>6. CASE e.ring \in Endpoints
    <2>1. PICK p, q : p = transfer /\ q = Accepted(transfer, e)
        OBVIOUS
    <2>2. LaneInv(Endpoints, p)
        BY <2>1 DEF EndpointInv
    <2>3. /\ LaneInv(Endpoints, q)' /\ UnreadOf(Endpoints)' = {} /\ UnreadOf(Endpoints) = {d}
          /\ q.owner = p.owner /\ p # NotPending
        BY <1>1, <1>2, <1>3, <1>6, <2>1, <2>2, LaneDispatched, LanesOfRings
    <2>4. LaneInv(Endpoints, transfer)'
        BY <1>2, <1>6, <2>1, <2>3, LaneNext
    <2>5. ASSUME NEW r \in Endpoints PROVE RingShape(r)' /\ Ready(r)'
        <3>1. Ready(r) /\ RingShape(r)
            BY <2>3 DEF EndpointInv
        <3>2. hw[r].ran \in Nat /\ submitted \in Nat
            BY <1>3, RingFields, RingNames DEF RingTypes
        <3> QED BY <1>2, <3>1, <3>2, RingUntouched
    <2> QED BY <1>2, <1>3, <1>4, <1>6, <2>1, <2>3, <2>4, <2>5 DEF EndpointInv
<1> QED BY <1>5, <1>6

-----------------------------------------------------------------------------
(* The controller.                                                         *)

LEMMA EndpointExecuted ==
    ASSUME EndpointInv, NEW r \in Endpoints, NEW code \in {"success", "error"}, Execute(r, code)
    PROVE  EndpointInv'
<1>1. r \in Endpoints /\ r \in Rings
    BY RingNames
<1>2. /\ CanExecute(r) /\ Post(r, code) /\ hw' = [hw EXCEPT ![r] = Retired(r, code)]
      /\ UNCHANGED <<ring, cursor, dequeue, command, transfer, submitted>>
    BY DEF Execute
<1>3. RingTypes /\ EventShape /\ RingShape(r)
    BY <1>1 DEF EndpointInv
<1>4. hw = [s \in Rings |-> hw[s]]
    BY <1>3 DEF RingTypes
<1>5. PICK g : g = Retired(r, code)
    OBVIOUS
<1>6. hw'[r] = g /\ (\A s \in Rings \ {r} : hw'[s] = hw[s]) /\ hw' = [s \in Rings |-> hw'[s]]
    <2>1. hw' = [hw EXCEPT ![r] = g]
        BY <1>2, <1>5
    <2> QED BY ONLY <1>1, <1>4, <2>1
<1>7. PICK p : p = transfer
    OBVIOUS
<1>8. LaneInv(Endpoints, p) /\ code # "none" /\ code # "stall"
    BY <1>7 DEF EndpointInv
<1>9. \A s \in Endpoints \ {r} : ring'[s] = ring[s] /\ cursor'[s] = cursor[s] /\ hw'[s] = hw[s]
    BY <1>2, <1>6, RingNames
<1>10. ring'[r] = ring[r] /\ cursor'[r] = cursor[r] /\ submitted' = submitted /\ dequeue' = dequeue /\ hw'[r] = Retired(r, code)
    BY <1>2, <1>5, <1>6
<1>11. /\ hw'[r] \in [index : Nat, cycle : BOOLEAN, state : {"running", "stopped", "halted"}, ran : Nat]
       /\ RingShape(r)' /\ EventShape' /\ LaneInv(Endpoints, p)' /\ p.owner = r /\ Ready(r)'
    <2>1. Endpoints \subseteq Rings /\ CanExecute(r) /\ Post(r, code)
        BY <1>2, RingNames
    <2> QED BY <1>3, <1>8, <1>9, <1>10, <2>1, LaneExecuted
<1>12. RingTypes'
    <2>1. \A s \in Rings : hw'[s] \in [index : Nat, cycle : BOOLEAN, state : {"running", "stopped", "halted"}, ran : Nat]
        BY <1>3, <1>6, <1>11 DEF RingTypes
    <2> QED BY <1>2, <1>3, <1>6, <2>1 DEF RingTypes
<1>13. ASSUME NEW s \in Endpoints \ {r} PROVE RingShape(s)' /\ Ready(s)'
    <2>1. RingShape(s) /\ Ready(s)
        BY <1>7, <1>11 DEF EndpointInv, Loaded
    <2>2. hw[s].ran \in Nat /\ submitted \in Nat
        BY <1>3, RingFields, RingNames DEF RingTypes
    <2> QED BY <1>9, <1>10, <2>1, <2>2, RingUntouched
<1>14. LaneInv(Endpoints, transfer)'
    BY <1>2, <1>7, <1>11, LaneNext
<1> QED BY <1>11, <1>12, <1>13, <1>14 DEF EndpointInv

\* The controller only meets commands that were written, also when it runs
\* through the ring again.
LEMMA CommandOffered ==
    ASSUME RingTypes, CommandRingInv, CanExecute("command")
    PROVE  \E i \in 0..Usable["command"] - 1, y \in BOOLEAN :
              /\ Position("command") = [index |-> i, cycle |-> y, state |-> hw["command"].state, ran |-> hw["command"].ran]
              /\ Offered("command") = ring["command"][i] /\ Filled("command", i)
              /\ Fresh => i < cursor["command"].index /\ y = TRUE
<1>1. PICK h, U, c : h = hw["command"] /\ U = Usable["command"] /\ c = cursor["command"].index
    OBVIOUS
<1>2. /\ h = [index |-> h.index, cycle |-> h.cycle, state |-> h.state, ran |-> h.ran]
      /\ h.index \in Nat /\ h.cycle \in BOOLEAN /\ U \in Nat \ {0, 1} /\ c \in Nat
    BY <1>1, RingFields, RingNames
<1>3. c < U /\ h.index <= U /\ (Wrapped \/ Fresh)
    BY <1>1 DEF CommandRingInv
<1>4. CASE h.index = U /\ ring["command"][U].cycle = h.cycle
    <2>1. Position("command") = [h EXCEPT !.index = 0, !.cycle = ~@]
        BY <1>1, <1>4 DEF Position
    <2>2. PICK f : f = Flip(h.cycle)
        OBVIOUS
    <2>3. f \in BOOLEAN
        BY <1>2, <2>2, FlipFacts
    <2>4. Position("command") = [h EXCEPT !.index = 0, !.cycle = f]
        BY ONLY <2>1, <2>2, Zenon DEF Flip
    <2>5. Position("command") = [index |-> 0, cycle |-> f, state |-> h.state, ran |-> h.ran]
        BY ONLY <1>2, <2>4
    <2>6. ~Fresh
        BY <1>1, <1>2, <1>3, <1>4 DEF Fresh
    <2>7. 0 \in 0..U - 1
        BY <1>2
    <2>8. Filled("command", 0)
        BY <1>1, <1>3, <2>6, <2>7 DEF Wrapped
    <2>9. Offered("command") = ring["command"][0]
        BY <2>5 DEF Offered
    <2> QED BY <1>1, <2>3, <2>5, <2>6, <2>7, <2>8, <2>9
<1>5. CASE ~(h.index = U /\ ring["command"][U].cycle = h.cycle)
    <2>1. Position("command") = h
        BY <1>1, <1>5 DEF Position
    <2>2. PICK i, y : i = h.index /\ y = h.cycle
        OBVIOUS
    <2>3. i # U /\ ring["command"][i].cycle = y /\ Offered("command") = ring["command"][i]
        BY <1>1, <2>1, <2>2 DEF CanExecute, Offered
    <2>4. i \in 0..U - 1 /\ y \in BOOLEAN
        BY <1>2, <1>3, <2>2, <2>3
    <2>5. Fresh => i < c /\ y = TRUE
        <3>1. SUFFICES ASSUME Fresh PROVE i < c /\ y = TRUE
            OBVIOUS
        <3>2. y = TRUE /\ i <= c
            BY <1>1, <2>2, <3>1 DEF Fresh
        <3>3. ~(i >= c)
            BY <1>1, <2>3, <2>4, <3>1, <3>2 DEF Fresh
        <3> QED BY <1>2, <2>4, <3>2, <3>3
    <2>6. Filled("command", i)
        <3>1. CASE Wrapped
            BY <1>1, <2>4, <3>1 DEF Wrapped
        <3>2. CASE Fresh
            BY <1>1, <2>4, <2>5, <3>2 DEF Fresh
        <3> QED BY <1>3, <3>1, <3>2
    <2>7. Position("command") = [index |-> i, cycle |-> y, state |-> h.state, ran |-> h.ran]
        BY <1>2, <2>1, <2>2
    <2> QED BY <1>1, <2>3, <2>4, <2>5, <2>6, <2>7
<1> QED BY <1>4, <1>5

\* A command is executed, for the first time or again.  Of the endpoints it
\* touches at most the bulk-in one of a disk, which nobody waits for.
LEMMA CommandRuns ==
    ASSUME EndpointInv, CommandRingInv, device = "storage" => transfer.owner # "in",
           NEW code \in {"success", "error"}, ExecuteCommand(code), device' = device
    PROVE  EndpointInv' /\ CommandRingInv'
<1>1. PICK h, U, c : h = hw["command"] /\ U = Usable["command"] /\ c = cursor["command"].index
    OBVIOUS
<1>2. RingTypes /\ EventShape /\ LaneInv(Endpoints, transfer)
    BY DEF EndpointInv
<1>3. CanExecute("command") /\ Post("command", code) /\ UNCHANGED <<ring, cursor, dequeue, transfer, submitted>>
    BY DEF ExecuteCommand
<1>4. PICK i \in 0..U - 1, y \in BOOLEAN :
              /\ Position("command") = [index |-> i, cycle |-> y, state |-> h.state, ran |-> h.ran]
              /\ Offered("command") = ring["command"][i] /\ Filled("command", i)
              /\ Fresh => i < c /\ y = TRUE
    BY <1>1, <1>2, <1>3, CommandOffered
<1>5. PICK t : t = ring["command"][i]
    OBVIOUS
<1> DEFINE resets == t.what = "reset_in" /\ code = "success"
<1>6. /\ t.length = 1 /\ t.td \in Nat
      /\ t.what \notin {"dequeue_in", "dequeue_out", "reset_out"} /\ (t.what = "reset_in" => device = "storage")
    BY <1>1, <1>4, <1>5 DEF CommandRingInv, CommandOK, Filled
<1>7. /\ h.state \in {"running", "stopped", "halted"} /\ h.ran \in Nat /\ U \in Nat \ {0, 1} /\ c \in Nat
    BY <1>1, <1>2, RingFields, RingNames
<1>8. PICK g, n : g = Retired("command", code) /\ n = i + 1
    OBVIOUS
<1>9. g = [index |-> n, cycle |-> y, state |-> h.state, ran |-> t.td]
    <2>1. g = [Position("command") EXCEPT !.index = @ + t.length, !.ran = t.td]
        BY <1>4, <1>5, <1>8 DEF Retired
    <2>2. PICK q, m : q = Position("command") /\ m = t.td
        OBVIOUS
    <2>3. q = [index |-> i, cycle |-> y, state |-> h.state, ran |-> h.ran] /\ g = [q EXCEPT !.index = @ + 1, !.ran = m]
        BY ONLY <1>4, <1>6, <2>1, <2>2
    <2>4. g = [index |-> g.index, cycle |-> g.cycle, state |-> g.state, ran |-> g.ran]
        BY ONLY <2>3
    <2>5. g.index = i + 1 /\ g.cycle = y /\ g.state = h.state /\ g.ran = m
        BY ONLY <2>3
    <2> QED BY ONLY <1>8, <2>2, <2>4, <2>5
<1>10. n \in Nat /\ n <= U /\ (Fresh => n <= c)
    BY <1>4, <1>7, <1>8
<1>11. hw = [s \in Rings |-> hw[s]]
    BY <1>2 DEF RingTypes
<1>12. /\ resets => hw' = [hw EXCEPT !["command"] = g, !["in"] = [hw["in"] EXCEPT !.state = "stopped"]]
       /\ ~resets => hw' = [hw EXCEPT !["command"] = g, !["out"] = hw["out"]]
                     \/ hw' = [hw EXCEPT !["command"] = g, !["in"] = hw["in"]]
    <2>1. Offered("command").what = t.what
        BY <1>4, <1>5
    <2>2. CASE t.what = "reset_in" /\ code = "success"
        BY <1>8, <2>1, <2>2 DEF ExecuteCommand, ResetEndpoint
    <2>3. CASE t.what # "reset_in"
        BY <1>6, <1>8, <2>1, <2>3 DEF ExecuteCommand
    <2>4. CASE t.what = "reset_in" /\ code # "success"
        BY <1>8, <2>1, <2>4 DEF ExecuteCommand
    <2> QED BY <2>2, <2>3, <2>4
<1>13. PICK e : e = [cycle |-> hwEvent.cycle, ring |-> "command",
                     index |-> Position("command").index + Offered("command").length - 1,
                     code |-> code, td |-> Offered("command").td]
    OBVIOUS
<1>14. /\ EventShape' /\ UnreadOf(Endpoints)' = UnreadOf(Endpoints)
       /\ \A j \in UnreadOf(Endpoints) : eventRing'[j] = eventRing[j]
    <2>1. e.cycle = hwEvent.cycle /\ e.ring = "command" /\ "command" \notin Endpoints
        BY <1>13, RingNames
    <2>2. /\ EventRoom /\ eventRing' = [eventRing EXCEPT ![hwEvent.index] = e] /\ dequeue' = dequeue
          /\ hwEvent' = IF hwEvent.index + 1 = EventTrbs THEN [index |-> 0, cycle |-> ~hwEvent.cycle]
                                                         ELSE [hwEvent EXCEPT !.index = @ + 1]
        BY <1>3, <1>13 DEF Post
    <2>3. /\ EventShape'
          /\ \A lane : /\ e.ring \notin lane => UnreadOf(lane)' = UnreadOf(lane)
                       /\ \A j \in UnreadOf(lane) : eventRing'[j] = eventRing[j]
        BY <1>2, <2>1, <2>2, PostedOn, ZenonT(60)
    <2> QED BY <2>1, <2>3
<1>15. /\ hw'["command"] = g /\ hw' = [s \in Rings |-> hw'[s]]
       /\ hw'["control"] = hw["control"] /\ hw'["out"] = hw["out"]
       /\ ~resets => hw'["in"] = hw["in"]
       /\ resets => hw'["in"] = [hw["in"] EXCEPT !.state = "stopped"]
    BY <1>11, <1>12, RingNames
<1>16. CommandRingInv'
    <2>1. hw'["command"].index = n /\ hw'["command"].cycle = y
        BY <1>9, <1>15
    <2>2. \A j \in 0..U - 1 : CommandOK(j)' /\ (Filled("command", j)' <=> Filled("command", j))
        BY <1>1, <1>3 DEF CommandOK, Filled, CommandRingInv
    <2>3. CASE Wrapped
        <3>1. Wrapped'
            BY <1>1, <2>2, <2>3 DEF Wrapped
        <3> QED BY <1>1, <1>3, <1>10, <2>1, <2>2, <3>1 DEF CommandRingInv
    <2>4. CASE Fresh
        <3>1. Fresh'
            BY <1>1, <1>3, <1>4, <1>10, <2>1, <2>2, <2>4 DEF Fresh
        <3> QED BY <1>1, <1>3, <1>10, <2>1, <2>2, <3>1 DEF CommandRingInv
    <2> QED BY <2>3, <2>4 DEF CommandRingInv
<1>17. PICK k : k = hw["in"]
    OBVIOUS
<1>18. /\ k = [index |-> k.index, cycle |-> k.cycle, state |-> k.state, ran |-> k.ran]
       /\ k.index \in Nat /\ k.cycle \in BOOLEAN /\ k.ran \in Nat
    BY <1>2, <1>17, RingFields, RingNames
<1>19. resets => hw'["in"] = [index |-> k.index, cycle |-> k.cycle, state |-> "stopped", ran |-> k.ran]
    <2>1. [k EXCEPT !.state = "stopped"] = [index |-> k.index, cycle |-> k.cycle, state |-> "stopped", ran |-> k.ran]
        BY ONLY <1>18
    <2> QED BY <1>15, <1>17, <2>1
<1>20. RingTypes'
    <2>1. hw'["command"] \in [index : Nat, cycle : BOOLEAN, state : {"running", "stopped", "halted"}, ran : Nat]
        BY <1>4, <1>6, <1>7, <1>9, <1>10, <1>15
    <2>2. hw'["in"] \in [index : Nat, cycle : BOOLEAN, state : {"running", "stopped", "halted"}, ran : Nat]
        BY <1>2, <1>15, <1>18, <1>19, RingNames DEF RingTypes
    <2>3. \A s \in Rings : hw'[s] \in [index : Nat, cycle : BOOLEAN, state : {"running", "stopped", "halted"}, ran : Nat]
        BY <1>2, <1>15, <2>1, <2>2, RingNames DEF RingTypes
    <2> QED BY <1>2, <1>3, <1>15, <2>3 DEF RingTypes
<1>21. submitted \in Nat /\ submitted <= submitted'
    BY <1>2, <1>3 DEF RingTypes
<1>22. CASE ~resets
    <2>1. SameEndpoints
        BY <1>3, <1>14, <1>15, <1>22, RingNames DEF SameEndpoints
    <2> QED BY <1>14, <1>16, <1>20, <1>21, <2>1, EndpointsKept
<1>23. CASE resets
    <2>1. PICK p : p = transfer
        OBVIOUS
    <2>2. p.owner # "in" /\ Ready("in") /\ RingShape("in")
        BY <1>6, <1>23, <2>1, RingNames DEF EndpointInv, Loaded
    <2>3. /\ Ready("in")' /\ Settled("in")' /\ Halts("in")' /\ RingShape("in")'
        <3>1. /\ ring'["in"] = ring["in"] /\ cursor'["in"] = cursor["in"]
              /\ hw'["in"].index = k.index /\ hw'["in"].cycle = k.cycle /\ hw'["in"].state = "stopped" /\ hw'["in"].ran = k.ran
            BY <1>3, <1>19, <1>23
        <3>2. Quiet("in")'
            BY <1>17, <2>2, <3>1 DEF Ready, Quiet, Stands
        <3>3. RingShape("in")'
            BY <1>3, <1>17, <2>2, <3>1 DEF RingShape
        <3> QED BY <3>1, <3>2, <3>3 DEF Ready, Settled, Halts
    <2>4. ASSUME NEW r \in Endpoints, r # "in"
          PROVE  /\ (Settled(r)' <=> Settled(r)) /\ (Ready(r)' <=> Ready(r)) /\ (Halts(r)' <=> Halts(r))
                 /\ (Loaded(r, p)' <=> Loaded(r, p)) /\ RingShape(r)'
        <3>1. ring'[r] = ring[r] /\ cursor'[r] = cursor[r] /\ hw'[r] = hw[r]
            BY <1>3, <1>15, <2>4, RingNames
        <3>2. hw[r].ran \in Nat /\ RingShape(r) /\ submitted' \in Nat
            BY <1>2, <1>3, <1>21, RingFields, RingNames DEF EndpointInv
        <3> QED BY <1>21, <3>1, <3>2, RingUntouched
    <2>5. \A r \in Endpoints : (Ready(r) => Ready(r)') /\ (Halts(r) => Halts(r)') /\ (Settled(r) => Settled(r)')
        BY <2>3, <2>4
    <2>6. \A r \in Endpoints : Loaded(r, p) => r # "in"
        BY <2>2 DEF Loaded
    <2>7. PendingOK(p, Endpoints)'
        BY <1>2, <1>3, <2>1, <2>5 DEF LaneInv, PendingOK, PendingTypes
    <2>8. ASSUME NEW j \in UnreadOf(Endpoints) PROVE CompletionOK(j, p)'
        <3>1. CompletionOK(j, p) /\ eventRing[j].ring \in Endpoints /\ eventRing'[j] = eventRing[j]
            BY <1>2, <1>14, <2>1, <2>8 DEF LaneInv, UnreadOf
        <3> QED BY <2>5, <3>1 DEF CompletionOK
    <2>9. LaneInv(Endpoints, p)'
        BY <1>2, <1>14, <2>1, <2>4, <2>5, <2>6, <2>7, <2>8 DEF LaneInv
    <2>10. LaneInv(Endpoints, transfer)'
        BY <1>3, <2>1, <2>9, LaneNext
    <2>11. ASSUME NEW r \in Endpoints
           PROVE  RingShape(r)' /\ (Ready(r)' \/ (Loaded(r, transfer)' /\ UnreadOf(Endpoints)' = {}))
        <3>1. RingShape(r)'
            BY <2>3, <2>4
        <3>2. Ready(r) \/ (Loaded(r, p) /\ UnreadOf(Endpoints)' = {})
            BY <1>14, <2>1 DEF EndpointInv
        <3>3. Loaded(r, p) => Loaded(r, transfer)'
            BY <1>3, <2>1, <2>4, <2>6, LaneNext
        <3> QED BY <2>5, <3>1, <3>2, <3>3
    <2> QED BY <1>14, <1>16, <1>20, <2>10, <2>11 DEF EndpointInv
<1> QED BY <1>22, <1>23

\* Resume puts the controller back to the start of the command ring.
LEMMA CommandsRestart ==
    ASSUME EndpointInv, CommandRingInv, device' = device,
           hw' = [hw EXCEPT !["command"].index = 0, !["command"].cycle = TRUE],
           UNCHANGED <<ring, cursor, eventRing, hwEvent, dequeue, transfer, submitted>>
    PROVE  EndpointInv' /\ CommandRingInv'
<1>1. RingTypes /\ EventShape
    BY DEF EndpointInv
<1>2. PICK h, g : h = hw["command"] /\ g = [h EXCEPT !.index = 0, !.cycle = TRUE]
    OBVIOUS
<1>3. /\ h = [index |-> h.index, cycle |-> h.cycle, state |-> h.state, ran |-> h.ran]
      /\ h.state \in {"running", "stopped", "halted"} /\ h.ran \in Nat
      /\ cursor["command"].index \in Nat /\ Usable["command"] \in Nat \ {0, 1}
    BY <1>1, <1>2, RingFields, RingNames
<1>4. g = [index |-> 0, cycle |-> TRUE, state |-> h.state, ran |-> h.ran]
    BY ONLY <1>2, <1>3
<1>5. hw = [s \in Rings |-> hw[s]]
    BY <1>1 DEF RingTypes
<1>6. hw'["command"] = g /\ (\A s \in Rings \ {"command"} : hw'[s] = hw[s]) /\ hw' = [s \in Rings |-> hw'[s]]
    <2>1. hw' = [hw EXCEPT !["command"] = g]
        BY <1>2, <1>5, RingNames
    <2> QED BY <1>5, <2>1, RingNames
<1>7. RingTypes'
    <2>1. g \in [index : Nat, cycle : BOOLEAN, state : {"running", "stopped", "halted"}, ran : Nat]
        BY <1>3, <1>4
    <2>2. \A s \in Rings : hw'[s] \in [index : Nat, cycle : BOOLEAN, state : {"running", "stopped", "halted"}, ran : Nat]
        BY <1>1, <1>6, <2>1 DEF RingTypes
    <2> QED BY <1>1, <1>6, <2>2 DEF RingTypes
<1>8. EventShape' /\ UnreadOf(Endpoints)' = UnreadOf(Endpoints) /\ submitted <= submitted'
    BY <1>1 DEF EventShape, UnreadOf, Unread, RingTypes
<1>9. SameEndpoints
    BY <1>6, <1>8, RingNames DEF SameEndpoints
<1>10. EndpointInv'
    BY <1>7, <1>8, <1>9, EndpointsKept
<1>11. hw'["command"].index = 0 /\ hw'["command"].cycle = TRUE
    BY <1>4, <1>6
<1>12. \A i \in 0..Usable["command"] - 1 : CommandOK(i)' /\ (Filled("command", i)' <=> Filled("command", i))
    BY DEF CommandRingInv, CommandOK, Filled
<1>13. Wrapped => Wrapped'
    BY <1>12 DEF Wrapped
<1>14. Fresh => Fresh'
    BY <1>3, <1>11, <1>12 DEF Fresh
<1> QED BY <1>3, <1>10, <1>11, <1>12, <1>13, <1>14 DEF CommandRingInv

-----------------------------------------------------------------------------
(* The invariant holds initially.                                          *)

LEMMA PlanSame == ASSUME device' = device PROVE Plan' = Plan
BY Zenon DEF Plan, Addressing, Enumerating, Td

\* Whether the driver is published depends on where the plan stands.
LEMMA PublishedSame == ASSUME UNCHANGED <<step, device>> PROVE Published' <=> Published
    BY PlanSame DEF Published

LEMMA LifeStarts == ASSUME LifecycleInit PROVE LifeInv
<1>1. TransportInv /\ \A r \in Rings : Ready(r)
    BY TransportStarts DEF LifecycleInit
<1>2. EndpointInv
    BY <1>1, RingNames DEF EndpointInv, TransportInv
<1>3. /\ transfer = NotPending
      /\ \A r \in Rings : \A i \in 0..Usable[r] - 1 :
            /\ ring[r][i].td = 0 /\ ring[r][i].length = 1
            /\ r = "command" => ring[r][i].cycle = FALSE
    <2>1. ASSUME NEW r \in Rings, NEW i \in 0..Usable[r] - 1
          PROVE  /\ ring[r][i].td = 0 /\ ring[r][i].length = 1
                 /\ r = "command" => ring[r][i].cycle = FALSE
        <3>1. i \in 0..Usable[r] /\ i # Usable[r]
            BY <2>1, UsableType
        <3>2. PICK b : b = (i = Usable[r] \/ (r = "control" /\ i < FirstControl))
            OBVIOUS
        <3>3. ring[r][i] = [NoTrb EXCEPT !.cycle = b]
            BY <3>1, <3>2 DEF LifecycleInit, TransportInit
        <3>4. r = "command" => b = FALSE
            BY <3>1, <3>2
        <3> QED BY <3>3, <3>4 DEF NoTrb
    <2> QED BY <2>1 DEF LifecycleInit, TransportInit
<1>4. /\ cursor["command"] = [index |-> 0, cycle |-> TRUE]
      /\ hw["command"].index = 0 /\ hw["command"].cycle = TRUE
      /\ cursor["control"].index = FirstControl
    BY RingNames DEF LifecycleInit, TransportInit
<1>5. EntriesInv
    BY <1>3, RingNames DEF EntriesInv, EntryOK, Filled
<1>6. CommandRingInv
    <2>1. \A i \in 0..Usable["command"] - 1 : CommandOK(i) /\ ring["command"][i].cycle = FALSE
        BY <1>3, RingNames DEF CommandOK, Filled
    <2>2. Usable["command"] \in Nat \ {0, 1}
        BY UsableType, RingNames
    <2>3. Fresh
        BY <1>4, <2>1, <2>2 DEF Fresh
    <2> QED BY <1>4, <2>1, <2>2, <2>3 DEF CommandRingInv
<1>7. /\ stage = "boot" /\ step = 1 /\ device \in {"none", "keyboard", "storage"} /\ prepared = {}
      /\ s3_generation = 0 /\ PENDING_S3_TOKEN = NoToken /\ s3_state = "Absent"
    BY LifecycleAssumption DEF LifecycleInit
<1>8. PlanInv
    <2>1. Drawn(step - 1) = 0 /\ FirstControl \in Nat
        BY <1>7, Sizes DEF Drawn
    <2> QED BY <1>4, <1>7, <2>1 DEF PlanInv, Early, Starting, Planning, Up, Asleep
<1>9. AwaitInv
    BY <1>3, <1>7, NotPendingFields DEF AwaitInv
<1>10. SuspendInv
    BY <1>7 DEF SuspendInv, Early, Asleep
<1> QED BY <1>2, <1>5, <1>6, <1>8, <1>9, <1>10 DEF LifeInv

-----------------------------------------------------------------------------
(* init, up to the running controller.                                     *)

\* A step that only moves on, or fails.
LEMMA MovesOn ==
    ASSUME LifeInv, stage \in Early \cup Starting, stage' \in Early \cup Starting \cup {"plan", "failed"},
           stage \in Starting => stage' \notin Early,
           UNCHANGED <<transportVars, step, device, port, s3_generation, PENDING_S3_TOKEN>>,
           stage' \in Early => prepared' = {}, prepared \subseteq prepared',
           stage' \in Starting \cup {"plan"} => Base \subseteq prepared',
           s3_state' = s3_state \/ s3_state' = "Active"
    PROVE  LifeInv'
<1>1. EndpointInv' /\ CommandRingInv' /\ EntriesInv'
    BY AllStay DEF transportVars
<1>2. Plan' = Plan
    BY PlanSame
<1>3. PlanInv /\ AwaitInv /\ SuspendInv /\ UNCHANGED <<cursor, transfer>>
    BY DEF LifeInv, transportVars
<1>4. step = 1
    BY <1>3 DEF PlanInv
<1>5. Planned
    BY <1>3, PlanEntries DEF PlanInv
<1>6. PlanInv'
    <2>1. Len(Plan) \in Nat /\ 1 <= Len(Plan)
        BY <1>3, <1>5 DEF PlanInv, Planned
    <2> QED BY <1>2, <1>3, <1>4, <2>1 DEF PlanInv, Early, Starting, Planning, Up, Asleep
<1>7. AwaitInv'
    BY <1>2, <1>3 DEF AwaitInv, Early, Starting, Asleep
<1>8. SuspendInv'
    BY <1>3 DEF SuspendInv, Early, Starting, Planning, Up, Asleep
<1> QED BY <1>1, <1>6, <1>7, <1>8 DEF LifeInv

LEMMA StartupKeeps ==
    ASSUME LifeInv, NEW f \in BOOLEAN, NEW g \in BOOLEAN, NEW h \in BOOLEAN,
           \/ FindController(f) \/ ParseCapabilities(f) \/ DiscoverSupportedProtocols(f)
           \/ ResetController(f, g, h) \/ InitializeRuntimeStructures(f) \/ ProgramRegisters
           \/ ArmInterrupts(f) \/ Start(f)
    PROVE  LifeInv'
<1>1. /\ stage \in Early => prepared = {}
      /\ stage \in Starting => Base \subseteq prepared
    BY DEF LifeInv, PlanInv
<1>2. CASE FindController(f) \/ ParseCapabilities(f) \/ DiscoverSupportedProtocols(f)
    <2>1. /\ stage \in Early /\ stage' \in Early \cup {"failed"}
          /\ UNCHANGED <<transportVars, step, device, prepared, port, s3Vars>>
        BY <1>2 DEF FindController, ParseCapabilities, DiscoverSupportedProtocols, At, Early
    <2>2. stage' \notin Starting \cup {"plan"} /\ stage \notin Starting
        BY <2>1 DEF Early, Starting
    <2> QED BY <1>1, <2>1, <2>2, MovesOn DEF s3Vars
<1>3. CASE ResetController(f, g, h)
    <2>1. /\ stage \in Early /\ stage' \in Early \cup {"failed"}
          /\ UNCHANGED <<transportVars, step, device, prepared, port, s3Vars>>
        BY <1>3 DEF ResetController, At, Early
    <2>2. stage' \notin Starting \cup {"plan"} /\ stage \notin Starting
        BY <2>1 DEF Early, Starting
    <2> QED BY <1>1, <2>1, <2>2, MovesOn DEF s3Vars
<1>4. CASE InitializeRuntimeStructures(f)
    <2>1. /\ stage = "allocate" /\ stage' = (IF f THEN "program" ELSE "failed")
          /\ prepared' = (IF f THEN Base ELSE prepared)
          /\ UNCHANGED <<transportVars, step, device, port, s3Vars>>
        BY <1>4 DEF InitializeRuntimeStructures, At, Base
    <2>2. stage \in Early /\ stage \notin Starting /\ stage' \in Starting \cup {"failed"} /\ stage' \notin Early
        BY <2>1 DEF Early, Starting
    <2>3. prepared \subseteq prepared' /\ (stage' \in Starting \cup {"plan"} => Base \subseteq prepared')
        BY <1>1, <2>1, <2>2 DEF Starting
    <2> QED BY <2>1, <2>2, <2>3, MovesOn DEF s3Vars
<1>5. CASE ProgramRegisters \/ ArmInterrupts(f)
    <2>1. /\ stage \in Starting /\ stage' \in Starting
          /\ UNCHANGED <<transportVars, step, device, prepared, port, s3Vars>>
        BY <1>5 DEF ProgramRegisters, ArmInterrupts, At, Starting
    <2>2. stage' \notin Early
        BY <2>1 DEF Early, Starting
    <2> QED BY <1>1, <2>1, <2>2, MovesOn DEF s3Vars
<1>6. CASE Start(f)
    <2>1. /\ stage \in Starting /\ stage' \in {"plan", "failed"}
          /\ s3_state' = s3_state \/ s3_state' = "Active"
          /\ UNCHANGED <<transportVars, step, device, prepared, port, s3_generation, PENDING_S3_TOKEN>>
        BY <1>6 DEF Start, At, Starting
    <2>2. stage' \notin Early
        BY <2>1 DEF Early
    <2> QED BY <1>1, <2>1, <2>2, MovesOn
<1> QED BY <1>2, <1>3, <1>4, <1>5, <1>6

-----------------------------------------------------------------------------
(* The plan is carried out.                                                *)

Commands == {"no_op", "enable_slot", "address_device", "configure_endpoints"}

\* What is submitted at each step, and that what it needs is there.
PlanStepOK ==
    /\ device = "none" => step = 1
    /\ Plan[step].ring \in {"port", "command", "control"}
    /\ Plan[step].ring = "port" <=> step = 2
    /\ Plan[step].what = "reset_port" => step = 2
    /\ Plan[step].ring = "command" => Plan[step].what \in Commands
    /\ Plan[step].ring = "control" =>
          /\ Plan[step].length \in {2, 3}
          /\ FirstControl + Drawn(step - 1) + Plan[step].length <= ControlTrbs
          /\ Drawn(step) = Drawn(step - 1) + Plan[step].length
    /\ Drawn(step) \in Nat /\ Drawn(step - 1) \in Nat /\ Drawn(step - 1) <= Drawn(step)
    /\ Plan[step].ring # "port" => Follows(Plan[step].what) \subseteq prepared
    /\ step = 3 => Plan[step].what = "enable_slot"
    /\ step = 9 /\ device = "keyboard" => Plan[step].what = "set_protocol"
    /\ step = 8 => Plan[step].what = "set_configuration"
    /\ Len(Plan) \in Nat

\* What a TD needs, for the steps of the plan.
LEMMA Followed ==
    ASSUME Base \subseteq prepared
    PROVE  /\ \A what \in {"no_op", "enable_slot"} : Follows(what) \subseteq prepared
           /\ "slot_context" \in prepared =>
                 \A what \in {"address_device", "device_descriptor", "configuration_header", "configuration",
                              "set_configuration", "set_protocol"} : Follows(what) \subseteq prepared
           /\ "slot_context" \in prepared /\ "endpoint_contexts" \in prepared =>
                 \A what \in {"configure_endpoints", "report", "reset_in"} : Follows(what) \subseteq prepared
<1>1. \A what \in {"no_op", "enable_slot"} : Follows(what) = Base
    BY DEF Follows, Base
<1>2. \A what \in {"configure_endpoints", "report", "reset_in"} :
          Follows(what) = Base \cup {"slot_context", "endpoint_contexts"}
    BY DEF Follows, Base
<1>3. \A what \in {"address_device", "device_descriptor", "configuration_header", "configuration",
                   "set_configuration", "set_protocol"} : Follows(what) = Base \cup {"slot_context"}
    BY DEF Follows, Base
<1> QED BY <1>1, <1>2, <1>3

LEMMA PlanStep ==
    ASSUME PlanInv, stage \in Planning, step <= Len(Plan)
    PROVE  PlanStepOK
<1>1. Planned /\ step \in Nat \ {0} /\ device \in {"none", "keyboard", "storage"} /\ Base \subseteq prepared
    BY PlanEntries DEF PlanInv, Planning
<1>2. Len(Plan) \in {1, 9, 10} /\ (device = "none" => Len(Plan) = 1) /\ (device = "storage" => Len(Plan) = 9)
    BY <1>1 DEF Planned
<1>3. step \in {1, 2, 3, 4, 5, 6, 7, 8, 9, 10} /\ (device = "none" => step = 1) /\ (step = 10 => device = "keyboard")
    <2>1. PICK n : n = Len(Plan)
        OBVIOUS
    <2>2. n \in {1, 9, 10} /\ step <= n /\ step \in Nat \ {0}
        BY <1>1, <1>2, <2>1
    <2>3. step \in {1, 2, 3, 4, 5, 6, 7, 8, 9, 10} /\ (n = 1 => step = 1) /\ (n = 9 => step # 10)
        BY ONLY <2>2
    <2> QED BY <1>1, <1>2, <2>1, <2>3
<1>4. device # "none" /\ step > 3 => "slot_context" \in prepared
    BY DEF PlanInv
<1>5. (device = "keyboard" /\ step > 9) \/ (device = "storage" /\ step > 8) => "endpoint_contexts" \in prepared
    BY DEF PlanInv
<1>6. FirstControl \in Nat /\ ControlTrbs \in Nat /\ FirstControl + 13 <= ControlTrbs
    BY Sizes
<1>7. CASE step = 1
    BY <1>1, <1>2, <1>3, <1>7, Followed DEF PlanStepOK, Planned, NoOp, Td, Drawn, Commands
<1>8. CASE step = 2
    BY <1>1, <1>2, <1>3, <1>8 DEF PlanStepOK, Planned, Td, Drawn, Commands
<1>9. CASE step = 3
    BY <1>1, <1>2, <1>3, <1>9, Followed DEF PlanStepOK, Planned, Td, Drawn, Commands
<1>10. CASE step = 4
    BY <1>1, <1>2, <1>3, <1>4, <1>10, Followed DEF PlanStepOK, Planned, Td, Drawn, Commands
<1>11. CASE step = 5
    <2>1. Plan[step] = Td("control", 3, "device_descriptor") /\ device # "none" /\ Len(Plan) \in Nat
        BY <1>1, <1>2, <1>3, <1>11 DEF Planned
    <2>2. Plan[step].ring = "control" /\ Plan[step].length = 3 /\ Plan[step].what = "device_descriptor"
        BY ONLY <2>1 DEF Td
    <2>3. Drawn(step) = 3 /\ Drawn(step - 1) = 0
        BY ONLY <1>11 DEF Drawn
    <2>4. Follows("device_descriptor") \subseteq prepared
        BY <1>1, <1>4, <1>11, <2>1, Followed
    <2> QED BY ONLY <1>3, <1>6, <1>11, <2>1, <2>2, <2>3, <2>4 DEF PlanStepOK, Commands
<1>12. CASE step = 6
    <2>1. Plan[step] = Td("control", 3, "configuration_header") /\ device # "none" /\ Len(Plan) \in Nat
        BY <1>1, <1>2, <1>3, <1>12 DEF Planned
    <2>2. Plan[step].ring = "control" /\ Plan[step].length = 3 /\ Plan[step].what = "configuration_header"
        BY ONLY <2>1 DEF Td
    <2>3. Drawn(step) = 6 /\ Drawn(step - 1) = 3
        BY ONLY <1>12 DEF Drawn
    <2>4. Follows("configuration_header") \subseteq prepared
        BY <1>1, <1>4, <1>12, <2>1, Followed
    <2> QED BY ONLY <1>3, <1>6, <1>12, <2>1, <2>2, <2>3, <2>4 DEF PlanStepOK, Commands
<1>13. CASE step = 7
    <2>1. Plan[step] = Td("control", 3, "configuration") /\ device # "none" /\ Len(Plan) \in Nat
        BY <1>1, <1>2, <1>3, <1>13 DEF Planned
    <2>2. Plan[step].ring = "control" /\ Plan[step].length = 3 /\ Plan[step].what = "configuration"
        BY ONLY <2>1 DEF Td
    <2>3. Drawn(step) = 9 /\ Drawn(step - 1) = 6
        BY ONLY <1>13 DEF Drawn
    <2>4. Follows("configuration") \subseteq prepared
        BY <1>1, <1>4, <1>13, <2>1, Followed
    <2> QED BY ONLY <1>3, <1>6, <1>13, <2>1, <2>2, <2>3, <2>4 DEF PlanStepOK, Commands
<1>14. CASE step = 8
    <2>1. Plan[step] = Td("control", 2, "set_configuration") /\ device # "none" /\ Len(Plan) \in Nat
        BY <1>1, <1>2, <1>3, <1>14 DEF Planned
    <2>2. Plan[step].ring = "control" /\ Plan[step].length = 2 /\ Plan[step].what = "set_configuration"
        BY ONLY <2>1 DEF Td
    <2>3. Drawn(step) = 11 /\ Drawn(step - 1) = 9
        BY ONLY <1>14 DEF Drawn
    <2>4. Follows("set_configuration") \subseteq prepared
        BY <1>1, <1>4, <1>14, <2>1, Followed
    <2> QED BY ONLY <1>3, <1>6, <1>14, <2>1, <2>2, <2>3, <2>4 DEF PlanStepOK, Commands
<1>15. CASE step = 9
    <2>1. CASE device = "keyboard"
        <3>1. Plan[step] = Td("control", 2, "set_protocol") /\ device # "none" /\ Len(Plan) \in Nat
            BY <1>1, <1>2, <1>3, <1>15, <2>1 DEF Planned
        <3>2. Plan[step].ring = "control" /\ Plan[step].length = 2 /\ Plan[step].what = "set_protocol"
            BY ONLY <3>1 DEF Td
        <3>3. Drawn(step) = 13 /\ Drawn(step - 1) = 11
            BY ONLY <1>15 DEF Drawn
        <3>4. Follows("set_protocol") \subseteq prepared
            BY <1>1, <1>4, <1>15, <3>1, <2>1, Followed
        <3> QED BY ONLY <1>3, <1>6, <1>15, <2>1, <3>1, <3>2, <3>3, <3>4 DEF PlanStepOK, Commands
    <2>2. CASE device = "storage"
        <3>1. Plan[step] = Td("command", 1, "configure_endpoints") /\ device # "none" /\ Len(Plan) \in Nat
            BY <1>1, <1>2, <1>3, <1>15, <2>2 DEF Planned
        <3>2. Plan[step].ring = "command" /\ Plan[step].length = 1 /\ Plan[step].what = "configure_endpoints"
            BY ONLY <3>1 DEF Td
        <3>3. Drawn(step) = 13 /\ Drawn(step - 1) = 11
            BY ONLY <1>15 DEF Drawn
        <3>4. Follows("configure_endpoints") \subseteq prepared
            BY <1>1, <1>4, <1>5, <1>15, <3>1, <2>2, Followed
        <3> QED BY ONLY <1>3, <1>6, <1>15, <2>2, <3>1, <3>2, <3>3, <3>4 DEF PlanStepOK, Commands
    <2> QED BY <1>1, <1>3, <1>15, <2>1, <2>2
<1>16. CASE step = 10
    <2>1. Plan[step] = Td("command", 1, "configure_endpoints") /\ device # "none" /\ Len(Plan) \in Nat
        BY <1>1, <1>2, <1>3, <1>16 DEF Planned
    <2>2. Plan[step].ring = "command" /\ Plan[step].length = 1 /\ Plan[step].what = "configure_endpoints"
        BY ONLY <2>1 DEF Td
    <2>3. Drawn(step) = 15 /\ Drawn(step - 1) = 13
        BY ONLY <1>16 DEF Drawn
    <2>4. Follows("configure_endpoints") \subseteq prepared
        BY <1>1, <1>3, <1>4, <1>5, <1>16, <2>1, Followed
    <2> QED BY ONLY <1>3, <1>6, <1>16, <2>1, <2>2, <2>3, <2>4 DEF PlanStepOK, Commands
<1> QED BY <1>3, <1>7, <1>8, <1>9, <1>10, <1>11, <1>12, <1>13, <1>14, <1>15, <1>16

\* The rest of the invariant when a step of the plan is submitted.
LEMMA SubmitKeeps == ASSUME LifeInv, Submit PROVE LifeInv'
<1>1. PICK td : td = Plan[step]
    OBVIOUS
<1>2. /\ step <= Len(Plan) /\ td.ring # "port" /\ stage = "plan" /\ stage' = "wait"
      /\ td.ring = "command" => SubmitCommand(td.what) /\ transfer' = transfer
      /\ td.ring # "command" => SubmitTransfer(td.ring, td.length, td.what)
      /\ UNCHANGED <<step, device, prepared, port, s3Vars>>
    BY <1>1 DEF Submit, At
<1>3. EndpointInv /\ CommandRingInv /\ EntriesInv /\ PlanInv /\ AwaitInv /\ SuspendInv
    BY DEF LifeInv
<1>4. PlanStepOK
    BY <1>2, <1>3, PlanStep DEF Planning
<1>5. transfer = NotPending /\ Plan' = Plan
    BY <1>2, <1>3, PlanSame DEF AwaitInv
<1>6. /\ cursor["control"].index <= FirstControl + Drawn(step - 1) /\ step \in Nat \ {0}
      /\ cursor["control"].index \in Nat /\ FirstControl \in Nat
    BY <1>2, <1>3, RingFields, RingNames, Sizes DEF PlanInv, EndpointInv
<1>7. SuspendInv'
    BY <1>2, <1>3 DEF SuspendInv, s3Vars, Early, Starting, Planning, Up, Asleep
<1>8. ASSUME cursor'["control"].index <= FirstControl + Drawn(step) PROVE PlanInv'
    BY <1>1, <1>2, <1>3, <1>5, <1>8 DEF PlanInv, Early, Starting, Planning, Up, Asleep
<1>9. CASE td.ring = "command"
    <2>1. /\ td.what \notin {"dequeue_in", "dequeue_out", "reset_out"} /\ td.what # "reset_in"
          /\ Follows(td.what) \subseteq prepared
        BY <1>1, <1>2, <1>4, <1>9 DEF PlanStepOK, Commands
    <2>2. EndpointInv' /\ CommandRingInv' /\ EntriesInv' /\ SameEndpoints
        BY <1>2, <1>3, <1>9, <2>1, CommandEnqueued
    <2>3. cursor'["control"] = cursor["control"]
        BY <2>2, RingNames DEF SameEndpoints
    <2>4. cursor'["control"].index <= FirstControl + Drawn(step)
        BY <1>4, <1>6, <2>3 DEF PlanStepOK
    <2>5. AwaitInv'
        BY <1>2, <1>3, <1>5, <1>9, NotPendingFields DEF AwaitInv, Early, Starting, Asleep
    <2> QED BY <1>7, <1>8, <2>2, <2>4, <2>5 DEF LifeInv
<1>10. CASE td.ring # "command"
    <2>1. /\ td.ring = "control" /\ td.length \in {2, 3} /\ Follows(td.what) \subseteq prepared
          /\ FirstControl + Drawn(step - 1) + td.length <= ControlTrbs
          /\ Drawn(step) = Drawn(step - 1) + td.length /\ Drawn(step - 1) \in Nat
        BY <1>1, <1>2, <1>4, <1>10 DEF PlanStepOK
    <2>2. PICK n, what : n = td.length /\ what = td.what
        OBVIOUS
    <2>3. /\ n \in Nat \ {0} /\ cursor["control"].index + n <= Usable["control"] /\ n < Usable["control"]
        BY <1>6, <2>1, <2>2, Sizes
    <2>4. Done(transfer) /\ SubmitTransfer("control", n, what) /\ Follows(what) \subseteq prepared
        BY <1>2, <1>5, <1>10, <2>1, <2>2 DEF Done
    <2>5. EndpointInv' /\ CommandRingInv' /\ EntriesInv' /\ transfer'.owner = "control"
        BY <1>2, <1>3, <2>3, <2>4, TransferEnqueued, RingNames
    <2>6. cursor'["control"].index <= FirstControl + Drawn(step)
        <3>1. cursor'["control"] = Reserved("control", n)
            BY <1>3, <2>3, <2>4, EnqueueWrites, RingNames DEF SubmitTransfer, EndpointInv
        <3>2. cursor["control"] = [index |-> cursor["control"].index, cycle |-> cursor["control"].cycle]
            BY <1>3, RingFields, RingNames DEF EndpointInv
        <3>3. cursor'["control"].index \in {0, cursor["control"].index + n}
            BY <3>1, <3>2 DEF Reserved
        <3> QED BY <1>6, <2>1, <2>2, <2>3, <3>3
    <2>7. AwaitInv'
        <3>1. ~(stage' = "wait" /\ Plan'[step'].ring = "command")
            BY <1>1, <1>2, <1>5, <1>10
        <3> QED BY <1>2, <2>5, <3>1 DEF AwaitInv, Early, Starting, Asleep
    <2> QED BY <1>7, <1>8, <2>5, <2>6, <2>7 DEF LifeInv
<1> QED BY <1>9, <1>10

LEMMA FailedUnpublished == ASSUME PlanInv, stage = "failed" PROVE ~Published
<1>1. Planned /\ step \in Nat /\ step <= Len(Plan)
    BY PlanEntries DEF PlanInv
<1>2. PICK n : n = Len(Plan)
    OBVIOUS
<1>3. n \in Nat /\ step <= n
    BY <1>1, <1>2 DEF Planned, PlanInv
<1>4. ~(step > n)
    BY ONLY <1>1, <1>3
<1> QED BY <1>2, <1>4 DEF Published

\* The bookkeeping of the plan when it is not the plan that moves.
LEMMA PlanKept ==
    ASSUME PlanInv, UNCHANGED <<step, device, prepared, port>>,
           \/ stage' = stage /\ cursor'["control"] = cursor["control"]
           \/ stage \in Up /\ stage' \in Up
           \/ stage' = "failed" /\ step <= Len(Plan)
           \/ stage = "failed" /\ stage' = "prompt"
    PROVE  PlanInv'
<1>1. Plan' = Plan /\ (Published' <=> Published)
    BY PlanSame, PublishedSame
<1>2. CASE stage' = stage /\ cursor'["control"] = cursor["control"]
    BY <1>1, <1>2 DEF PlanInv
<1>3. CASE stage \in Up /\ stage' \in Up
    BY <1>1, <1>3 DEF PlanInv, Early, Starting, Planning, Up, Asleep
<1>4. CASE stage' = "failed" /\ step <= Len(Plan)
    BY <1>1, <1>4 DEF PlanInv, Early, Starting, Planning, Up, Asleep
<1>5. CASE stage = "failed" /\ stage' = "prompt"
    <2>1. ~Published
        BY <1>5, FailedUnpublished
    <2> QED BY <1>1, <1>5, <2>1 DEF PlanInv, Early, Starting, Planning, Up, Asleep
<1> QED BY <1>2, <1>3, <1>4, <1>5

LEMMA PortKeeps ==
    ASSUME LifeInv, NEW enables \in BOOLEAN, ResetPort(enables) \/ ClearPort
    PROVE  LifeInv'
<1>1. EndpointInv /\ CommandRingInv /\ EntriesInv /\ PlanInv /\ AwaitInv /\ SuspendInv
    BY DEF LifeInv
<1>2. /\ UNCHANGED <<transportVars, device, prepared, s3Vars>>
      /\ stage \in {"plan", "clear_port"} /\ stage' \in {"plan", "clear_port", "failed"}
    BY DEF ResetPort, ClearPort, At
<1>3. EndpointInv' /\ CommandRingInv' /\ EntriesInv' /\ cursor' = cursor /\ transfer' = transfer
    BY <1>2, AllStay DEF transportVars
<1>4. AwaitInv'
    BY <1>1, <1>2, <1>3 DEF AwaitInv, Early, Starting, Asleep
<1>5. SuspendInv'
    BY <1>1, <1>2 DEF SuspendInv, s3Vars, Early, Starting, Planning, Up, Asleep
<1>6. Plan' = Plan /\ device \in {"none", "keyboard", "storage"} /\ Planned /\ step \in Nat \ {0}
    BY <1>1, <1>2, PlanSame, PlanEntries DEF PlanInv
<1>7. CASE ResetPort(enables)
    <2>1. /\ step <= Len(Plan) /\ Plan[step].what = "reset_port" /\ stage = "plan" /\ step' = step
          /\ stage' = IF enables THEN "clear_port" ELSE "failed"
          /\ port' = IF enables THEN [enabled |-> TRUE, changed |-> TRUE] ELSE port
        BY <1>7 DEF ResetPort, At
    <2>2. step = 2 /\ device # "none"
        BY <1>1, <2>1, PlanStep DEF PlanStepOK, Planning
    <2>3. CASE enables
        <3>1. port'.enabled = TRUE
            BY <2>1, <2>3
        <3>2. port'.enabled
            BY <3>1, Zenon
        <3> QED BY <1>1, <1>2, <1>3, <1>4, <1>5, <1>6, <2>1, <2>2, <2>3, <3>2
                DEF LifeInv, PlanInv, Early, Starting, Planning, Up, Asleep
    <2>4. CASE ~enables
        <3>1. PlanInv'
            BY <1>1, <1>2, <2>1, <2>4, PlanKept
        <3> QED BY <1>3, <1>4, <1>5, <3>1 DEF LifeInv
    <2> QED BY <2>3, <2>4
<1>8. CASE ClearPort
    <2>1. /\ stage = "clear_port" /\ stage' = "plan" /\ step' = step + 1 /\ port' = ClearChanges
        BY <1>8 DEF ClearPort, At
    <2>2. device # "none" /\ step = 2 /\ port.enabled
        BY <1>1, <2>1 DEF PlanInv
    <2>3. port'.enabled
        <3>1. PICK v : v = [enabled |-> FALSE, changed |-> port.changed]
            OBVIOUS
        <3>2. ~v.enabled
            BY <3>1, Zenon
        <3>3. port' = [enabled |-> port.enabled /\ ~v.enabled, changed |-> port.changed /\ ~v.changed]
            BY <2>1, <3>1, Zenon DEF ClearChanges, PortWrite
        <3>4. port'.enabled = (port.enabled /\ ~v.enabled)
            BY <3>3, Zenon
        <3> QED BY <2>2, <3>2, <3>4, Zenon
    <2>4. Len(Plan) \in {9, 10}
        BY <1>6, <2>2 DEF Planned
    <2>5. step' = 3 /\ Drawn(step' - 1) = 0 /\ Drawn(step - 1) = 0 /\ step' <= Len(Plan) + 1
        <3>1. step' = 3 /\ step' - 1 = 2 /\ step - 1 = 1
            BY ONLY <2>1, <2>2
        <3>2. Drawn(step' - 1) = 0 /\ Drawn(step - 1) = 0
            BY ONLY <3>1 DEF Drawn
        <3>3. PICK n : n = Len(Plan)
            OBVIOUS
        <3>4. n \in {9, 10}
            BY ONLY <2>4, <3>3
        <3>5. step' <= n + 1
            BY ONLY <3>1, <3>4
        <3> QED BY ONLY <3>1, <3>2, <3>3, <3>5
    <2>6. PlanInv'
        BY <1>1, <1>2, <1>3, <1>6, <2>1, <2>2, <2>3, <2>5 DEF PlanInv, Early, Starting, Planning, Up, Asleep
    <2> QED BY <1>3, <1>4, <1>5, <2>6 DEF LifeInv
<1> QED BY <1>7, <1>8

\* What is prepared when an entry of the plan is done.
LEMMA PreparedInTime ==
    /\ "slot_context" \in Prepares("enable_slot")
    /\ device = "keyboard" => "endpoint_contexts" \in Prepares("set_protocol")
    /\ device = "storage" => "endpoint_contexts" \in Prepares("set_configuration")
BY DEF Prepares, AllocatesDevice, ConfiguresHid, ConfiguresMassStorage

LEMMA StageDoneKeeps ==
    ASSUME LifeInv, NEW valid \in BOOLEAN, StageDone(valid)
    PROVE  LifeInv'
<1>1. PICK td : td = Plan[step]
    OBVIOUS
<1>2. /\ stage = "wait" /\ Pending(td.ring).code # "none"
      /\ td.ring = "command" => transfer' = transfer
      /\ td.ring # "command" => transfer' = NotPending
      /\ \/ stage' = "plan" /\ step' = step + 1 /\ prepared' = prepared \cup Prepares(td.what)
         \/ stage' = "failed" /\ step' = step /\ prepared' = prepared
      /\ UNCHANGED <<ring, cursor, hw, eventRing, hwEvent, dequeue, submitted, device, port, s3Vars>>
    BY <1>1 DEF StageDone
<1>3. EndpointInv /\ CommandRingInv /\ EntriesInv /\ PlanInv /\ AwaitInv /\ SuspendInv
    BY DEF LifeInv
<1>4. step <= Len(Plan) /\ td.ring # "port" /\ step \in Nat \ {0}
    BY <1>1, <1>2, <1>3 DEF PlanInv
<1>5. PlanStepOK
    BY <1>2, <1>3, <1>4, PlanStep DEF Planning
<1>6. Plan' = Plan /\ prepared \subseteq prepared'
    BY <1>2, PlanSame
<1>7. CommandRingInv' /\ EntriesInv'
    BY <1>2, <1>3, <1>6, CommandsStay, EntriesStay
<1>8. EndpointInv' /\ transfer' = NotPending
    <2>1. CASE td.ring = "command"
        <3>1. transfer = NotPending
            BY <1>1, <1>2, <1>3, <2>1 DEF AwaitInv
        <3> QED BY <1>2, <1>3, <2>1, <3>1, EndpointsStay
    <2>2. CASE td.ring # "command"
        <3>1. Done(transfer)
            BY <1>2, <2>2 DEF Done, Pending
        <3> QED BY <1>2, <1>3, <2>2, <3>1, TransferForgotten
    <2> QED BY <2>1, <2>2
<1>9. AwaitInv'
    BY <1>8, NotPendingFields DEF AwaitInv
<1>10. SuspendInv'
    BY <1>2, <1>3 DEF SuspendInv, s3Vars, Early, Starting, Planning, Up, Asleep
<1>11. PlanInv'
    <2>1. CASE stage' = "failed" /\ step' = step /\ prepared' = prepared
        BY <1>2, <1>3, <1>4, <2>1, PlanKept
    <2>2. CASE stage' = "plan" /\ step' = step + 1 /\ prepared' = prepared \cup Prepares(td.what)
        <3>1. /\ device \in {"none", "keyboard", "storage"} /\ Base \subseteq prepared'
              /\ cursor'["control"].index <= FirstControl + Drawn(step' - 1)
              /\ step' \in Nat \ {0} /\ step' <= Len(Plan) + 1
            <4>1. step' - 1 = step
                BY <1>4, <2>2
            <4> QED BY <1>2, <1>3, <1>4, <1>5, <1>6, <2>2, <4>1 DEF PlanInv, PlanStepOK, Planning
        <3>2. device # "none" /\ step' > 2 => port'.enabled
            <4>1. step # 2
                BY <1>1, <1>4, <1>5 DEF PlanStepOK
            <4>2. step' > 2 => step > 2
                BY <1>4, <2>2, <4>1
            <4> QED BY <1>2, <1>3, <4>2 DEF PlanInv
        <3>3. device # "none" /\ step' > 3 => "slot_context" \in prepared'
            <4>1. step' > 3 => step > 3 \/ step = 3
                BY <1>4, <2>2
            <4>2. step = 3 => "slot_context" \in prepared'
                BY <1>1, <1>5, <2>2, PreparedInTime DEF PlanStepOK
            <4> QED BY <1>3, <1>6, <4>1, <4>2 DEF PlanInv
        <3>4. device = "keyboard" /\ step' > 9 => "endpoint_contexts" \in prepared'
            <4>1. step' > 9 => step > 9 \/ step = 9
                BY <1>4, <2>2
            <4>2. device = "keyboard" /\ step = 9 => "endpoint_contexts" \in prepared'
                BY <1>1, <1>5, <2>2, PreparedInTime DEF PlanStepOK
            <4> QED BY <1>3, <1>6, <4>1, <4>2 DEF PlanInv
        <3>5. device = "storage" /\ step' > 8 => "endpoint_contexts" \in prepared'
            <4>1. step' > 8 => step > 8 \/ step = 8
                BY <1>4, <2>2
            <4>2. device = "storage" /\ step = 8 => "endpoint_contexts" \in prepared'
                BY <1>1, <1>5, <2>2, PreparedInTime DEF PlanStepOK
            <4> QED BY <1>3, <1>6, <4>1, <4>2 DEF PlanInv
        <3>6. device' = device /\ Plan' = Plan /\ stage' = "plan"
            BY <1>2, <1>6, <2>2
        <3> QED BY ONLY <3>1, <3>2, <3>3, <3>4, <3>5, <3>6 DEF PlanInv, Early, Starting, Planning, Up, Asleep
    <2> QED BY <1>2, <2>1, <2>2
<1> QED BY <1>7, <1>8, <1>9, <1>10, <1>11 DEF LifeInv

LEMMA StageTimesOutKeeps == ASSUME LifeInv, StageTimesOut PROVE LifeInv'
<1>1. /\ stage = "wait" /\ stage' = "failed"
      /\ UNCHANGED <<transportVars, step, device, prepared, port, s3Vars>>
    BY DEF StageTimesOut, At
<1>2. PlanInv /\ AwaitInv /\ SuspendInv
    BY DEF LifeInv
<1>3. EndpointInv' /\ CommandRingInv' /\ EntriesInv' /\ transfer' = transfer
    BY <1>1, AllStay DEF transportVars
<1>4. PlanInv'
    BY <1>1, <1>2, PlanKept DEF PlanInv
<1>5. AwaitInv'
    BY <1>1, <1>2, <1>3 DEF AwaitInv, Early, Starting, Asleep
<1>6. SuspendInv'
    BY <1>1, <1>2 DEF SuspendInv, s3Vars, Early, Starting, Planning, Up, Asleep
<1> QED BY <1>3, <1>4, <1>5, <1>6 DEF LifeInv

\* init has failed and the kernel boots on without a published driver.
LEMMA BootsOnKeeps == ASSUME LifeInv, BootsOn PROVE LifeInv'
<1>1. /\ stage = "failed" /\ stage' = "prompt"
      /\ UNCHANGED <<transportVars, step, device, prepared, port, s3Vars>>
    BY DEF BootsOn, At
<1>2. PlanInv /\ AwaitInv /\ SuspendInv
    BY DEF LifeInv
<1>3. EndpointInv' /\ CommandRingInv' /\ EntriesInv' /\ transfer' = transfer
    BY <1>1, AllStay DEF transportVars
<1>4. PlanInv'
    BY <1>1, <1>2, PlanKept
<1>5. AwaitInv'
    BY <1>1, <1>2, <1>3 DEF AwaitInv, Early, Starting, Asleep
<1>6. SuspendInv'
    BY <1>1, <1>2 DEF SuspendInv, s3Vars, Up, Asleep
<1> QED BY <1>3, <1>4, <1>5, <1>6 DEF LifeInv

\* A report may be awaited once the plan is done and nothing is.
LEMMA ReportAwaited ==
    ASSUME LifeInv, device = "keyboard", step > Len(Plan), stage \in Planning \cup Up, Done(transfer),
           SubmitTransfer("in", 1, "report"), UNCHANGED <<prepared, device>>
    PROVE  EndpointInv' /\ CommandRingInv' /\ EntriesInv' /\ transfer'.owner = "in"
<1>1. EndpointInv /\ CommandRingInv /\ EntriesInv /\ PlanInv
    BY DEF LifeInv
<1>2. Planned /\ step \in Nat
    BY <1>1, PlanEntries DEF PlanInv
<1>3. step > 10
    BY <1>2 DEF Planned
<1>4. Base \subseteq prepared /\ "slot_context" \in prepared /\ "endpoint_contexts" \in prepared
    BY <1>1, <1>2, <1>3 DEF PlanInv, Published
<1>5. Follows("report") \subseteq prepared
    BY <1>4, Followed
<1>6. /\ cursor["in"].index \in Nat /\ cursor["in"].index < Usable["in"] /\ Usable["in"] \in Nat \ {0, 1}
    BY <1>1, RingFields, RingNames DEF EndpointInv, RingShape
<1>7. cursor["in"].index + 1 <= Usable["in"] /\ 1 < Usable["in"] /\ 1 \in Nat \ {0}
    BY <1>6
<1> QED BY <1>1, <1>5, <1>7, TransferEnqueued, RingNames

LEMMA PublishKeeps == ASSUME LifeInv, Publish PROVE LifeInv'
<1>1. /\ step > Len(Plan) /\ stage = "plan" /\ stage' = "prompt"
      /\ device = "keyboard" => SubmitTransfer("in", 1, "report")
      /\ device # "keyboard" => UNCHANGED transportVars
      /\ UNCHANGED <<step, device, prepared, port, s3Vars>>
    BY DEF Publish, At, Published
<1>2. PlanInv /\ AwaitInv /\ SuspendInv
    BY DEF LifeInv
<1>3. transfer = NotPending
    BY <1>1, <1>2 DEF AwaitInv
<1>4. EndpointInv' /\ CommandRingInv' /\ EntriesInv' /\ (device = "storage" => transfer'.owner # "in")
    <2>1. CASE device = "keyboard"
        BY <1>1, <1>3, <2>1, ReportAwaited DEF Done, Planning
    <2>2. CASE device # "keyboard"
        <3>1. EndpointInv' /\ CommandRingInv' /\ EntriesInv' /\ transfer' = transfer
            BY <1>1, <2>2, AllStay DEF transportVars
        <3> QED BY <1>2, <3>1 DEF AwaitInv
    <2> QED BY <2>1, <2>2
<1>5. Plan' = Plan
    BY <1>1, PlanSame
<1>6. PlanInv'
    BY <1>1, <1>2, <1>5 DEF PlanInv, Early, Starting, Planning, Up, Asleep
<1>7. AwaitInv'
    BY <1>1, <1>4 DEF AwaitInv, Early, Starting, Asleep
<1>8. SuspendInv'
    BY <1>1, <1>2 DEF SuspendInv, s3Vars, Early, Starting, Planning, Up, Asleep
<1> QED BY <1>4, <1>6, <1>7, <1>8 DEF LifeInv

-----------------------------------------------------------------------------
(* After boot.                                                             *)

\* What is left once the rings are dealt with, for a step that neither moves
\* the plan nor touches a suspend.
LEMMA PromptKeeps ==
    ASSUME LifeInv, EndpointInv', CommandRingInv', EntriesInv',
           UNCHANGED <<step, device, prepared, port, s3Vars>>,
           \/ stage' = stage /\ cursor'["control"] = cursor["control"] /\ (transfer = NotPending => transfer' = NotPending)
           \/ stage \in {"prompt", "command"} /\ stage' \in {"prompt", "command"},
           device = "storage" => transfer'.owner # "in", run' = run
    PROVE  LifeInv'
<1>1. PlanInv /\ AwaitInv /\ SuspendInv
    BY DEF LifeInv
<1>2. PlanInv'
    BY <1>1, PlanKept DEF Up
<1>3. Plan' = Plan /\ (Published' <=> Published)
    BY PlanSame, PublishedSame
<1>4. AwaitInv'
    BY <1>1, <1>3 DEF AwaitInv, Early, Starting, Asleep
<1>5. SuspendInv'
    BY <1>1, <1>3 DEF SuspendInv, s3Vars, Early, Starting, Planning, Up, Asleep
<1> QED BY <1>2, <1>4, <1>5 DEF LifeInv

LEMMA PollsKeep == ASSUME LifeInv, Polls PROVE LifeInv'
<1>1. EndpointInv /\ CommandRingInv /\ EntriesInv /\ PlanInv /\ AwaitInv /\ SuspendInv
    BY DEF LifeInv
<1>2. CASE DispatchEvent
    <2>1. Dispatch /\ UNCHANGED <<stage, step, device, prepared, port, s3Vars, run>>
        BY <1>2 DEF DispatchEvent, bootVars, registerVars
    <2>2. UNCHANGED <<ring, cursor, hw>>
        BY <2>1 DEF Dispatch
    <2>3. /\ EndpointInv' /\ transfer'.owner = transfer.owner
          /\ transfer = NotPending => transfer' = NotPending
        BY <1>1, <2>1, EventAccepted
    <2>4. CommandRingInv' /\ EntriesInv'
        BY <1>1, <2>1, <2>2, CommandsStay, EntriesStay
    <2>5. device = "storage" => transfer'.owner # "in"
        BY <1>1, <2>3 DEF AwaitInv
    <2> QED BY <2>1, <2>2, <2>3, <2>4, <2>5, PromptKeeps
<1>3. ASSUME NEW connected \in BOOLEAN, PollHidReport(connected) PROVE LifeInv'
    <2>1. /\ stage = "prompt" /\ device = "keyboard" /\ transfer.code # "none" /\ step > Len(Plan)
          /\ \/ SubmitTransfer("in", 1, "report")
             \/ /\ transfer' = NotPending
                /\ UNCHANGED <<ring, cursor, hw, eventRing, hwEvent, dequeue, submitted>>
          /\ UNCHANGED <<stage, step, device, prepared, port, s3Vars, run>>
        BY <1>3 DEF PollHidReport, bootVars, registerVars, Published
    <2>2. Done(transfer) /\ stage \in Up
        BY <2>1 DEF Done, Up
    <2>3. EndpointInv' /\ CommandRingInv' /\ EntriesInv'
        <3>1. CASE SubmitTransfer("in", 1, "report")
            BY <2>1, <2>2, <3>1, ReportAwaited
        <3>2. CASE transfer' = NotPending /\ UNCHANGED <<ring, cursor, hw, eventRing, hwEvent, dequeue, submitted>>
            BY <1>1, <2>1, <2>2, <3>2, TransferForgotten, CommandsStay, EntriesStay
        <3> QED BY <2>1, <3>1, <3>2
    <2> QED BY <2>1, <2>3, PromptKeeps
<1>4. CASE RecoverEndpoint
    <2>1. /\ stage = "prompt" /\ stage' = "command" /\ device = "storage" /\ SubmitCommand("reset_in")
          /\ step > Len(Plan)
          /\ UNCHANGED <<transfer, step, device, prepared, port, s3Vars, run>>
        BY <1>4 DEF RecoverEndpoint, At, registerVars, Published
    <2>2. Planned /\ step \in Nat
        BY <1>1, PlanEntries DEF PlanInv
    <2>3. step > 9
        BY <2>1, <2>2 DEF Planned
    <2>4. Base \subseteq prepared /\ "slot_context" \in prepared /\ "endpoint_contexts" \in prepared
        BY <1>1, <2>1, <2>2, <2>3 DEF PlanInv, Up, Published
    <2>5. Follows("reset_in") \subseteq prepared
        BY <2>4, Followed
    <2>6. EndpointInv' /\ CommandRingInv' /\ EntriesInv'
        BY <1>1, <2>1, <2>5, CommandEnqueued
    <2>7. transfer'.owner # "in"
        BY <1>1, <2>1 DEF AwaitInv
    <2> QED BY <2>1, <2>6, <2>7, PromptKeeps
<1>5. CASE EndpointRecovered \/ EndpointTimesOut
    <2>1. /\ stage = "command" /\ stage' = "prompt"
          /\ UNCHANGED <<ring, cursor, hw, eventRing, hwEvent, dequeue, transfer, submitted>>
          /\ UNCHANGED <<step, device, prepared, port, s3Vars, run>>
        BY <1>5 DEF EndpointRecovered, EndpointTimesOut, At, registerVars, transportVars
    <2>2. EndpointInv' /\ CommandRingInv' /\ EntriesInv'
        BY <2>1, AllStay
    <2>3. device = "storage" => transfer'.owner # "in"
        BY <1>1, <2>1 DEF AwaitInv
    <2> QED BY <2>1, <2>2, <2>3, PromptKeeps
<1> QED BY <1>2, <1>3, <1>4, <1>5 DEF Polls

-----------------------------------------------------------------------------
(* Suspend and resume.                                                     *)

\* A step of a suspend: nothing is awaited while one is under way.
LEMMA SuspendStep ==
    ASSUME LifeInv, EndpointInv', CommandRingInv', EntriesInv', stage \in Asleep \cup {"prompt"},
           stage' \in Asleep \cup {"prompt"}, UNCHANGED <<transfer, step, device, prepared, port>>,
           stage \in Asleep \/ stage' \notin Asleep \/ ~Published \/ transfer = NotPending, SuspendInv'
    PROVE  LifeInv'
<1>1. PlanInv /\ AwaitInv
    BY DEF LifeInv
<1>2. PlanInv'
    BY <1>1, PlanKept DEF Up
<1>3. AwaitInv'
    BY <1>1, PublishedSame DEF AwaitInv, Early, Starting, Asleep
<1> QED BY <1>2, <1>3 DEF LifeInv

\* What resume_from_s3 does to the rings, and the state it ends in.
LEMMA ResumedKeeps ==
    ASSUME LifeInv, NEW token, NEW healthy, NEW starts, Resumed(token, healthy, starts),
           UNCHANGED <<ring, cursor, eventRing, hwEvent, dequeue, transfer, submitted, device, prepared>>
    PROVE  EndpointInv' /\ CommandRingInv' /\ EntriesInv' /\ s3_state' # "Quiesced"
<1>1. EndpointInv /\ CommandRingInv /\ EntriesInv
    BY DEF LifeInv
<1>2. EntriesInv'
    BY <1>1, EntriesStay
<1>3. \/ hw' = [hw EXCEPT !["command"].index = 0, !["command"].cycle = TRUE]
      \/ hw' = hw
    BY DEF Resumed
<1>4. s3_state' # "Quiesced"
    BY DEF Resumed, QuarantineS3
<1>5. CASE hw' = [hw EXCEPT !["command"].index = 0, !["command"].cycle = TRUE]
    BY <1>1, <1>2, <1>4, <1>5, CommandsRestart
<1>6. CASE hw' = hw
    BY <1>1, <1>2, <1>4, <1>6, EndpointsStay, CommandsStay
<1> QED BY <1>3, <1>5, <1>6

LEMMA SuspendsKeep == ASSUME LifeInv, Suspends PROVE LifeInv'
<1>1. EndpointInv /\ CommandRingInv /\ EntriesInv /\ PlanInv /\ AwaitInv /\ SuspendInv
    BY DEF LifeInv
<1>2. ASSUME NEW reads \in BOOLEAN, SuspendRefused(reads) PROVE LifeInv'
    <2>1. /\ stage = "prompt" /\ stage' = stage
          /\ UNCHANGED <<transportVars, step, device, prepared, port, run, s3_state, s3_generation, PENDING_S3_TOKEN>>
        BY <1>2 DEF SuspendRefused, bootVars, registerVars
    <2>2. EndpointInv' /\ CommandRingInv' /\ EntriesInv' /\ transfer' = transfer
        BY <2>1, AllStay DEF transportVars
    <2>3. SuspendInv' /\ stage \notin Asleep
        BY <1>1, <2>1, PublishedSame DEF SuspendInv, Asleep
    <2> QED BY <2>1, <2>2, <2>3, SuspendStep
<1>3. ASSUME NEW halts \in BOOLEAN, Quiesce(halts) PROVE LifeInv'
    <2>1. /\ stage = "prompt" /\ ~Busy /\ Published
          /\ halts => /\ stage' = "acpi" /\ run' = FALSE /\ s3_generation' = s3_generation + 1
                      /\ PENDING_S3_TOKEN' = s3_generation + 1
          /\ ~halts => /\ stage' = stage /\ s3_state' = "Quarantined" /\ s3_generation' = s3_generation
                       /\ PENDING_S3_TOKEN' = PENDING_S3_TOKEN
          /\ UNCHANGED <<transportVars, step, device, prepared, port>>
        BY <1>3 DEF Quiesce, QuarantineS3
    <2>2. EndpointInv' /\ CommandRingInv' /\ EntriesInv' /\ transfer' = transfer /\ transfer = NotPending
        BY <2>1, AllStay DEF transportVars, Busy
    <2>3. s3_generation \in Nat /\ PENDING_S3_TOKEN = NoToken /\ stage \notin Asleep
        BY <1>1, <2>1 DEF SuspendInv, Asleep
    <2>4. CASE halts
        <3>1. s3_generation' \in Nat /\ PENDING_S3_TOKEN' # NoToken
            BY <2>1, <2>3, <2>4 DEF NoToken
        <3>2. ~run'
            BY <2>1, <2>4, Zenon
        <3>3. stage' \in Asleep /\ stage' \in Up /\ stage \in Asleep \cup {"prompt"}
            BY <2>1, <2>4 DEF Asleep, Up
        <3>4. SuspendInv'
            BY <2>1, <3>1, <3>2, <3>3, PublishedSame DEF SuspendInv
        <3> QED BY <2>1, <2>2, <3>3, <3>4, SuspendStep
    <2>5. CASE ~halts
        <3>1. SuspendInv'
            BY <2>1, <2>3, <2>5 DEF SuspendInv, Asleep, Up
        <3> QED BY <2>1, <2>2, <2>5, <3>1, SuspendStep
    <2> QED BY <2>4, <2>5
<1>4. CASE SuspendFails \/ EnterS3 \/ \E retained \in BOOLEAN : Wakes(retained)
    <2>1. /\ stage \in Asleep /\ stage' \in Asleep /\ (run' => run)
          /\ UNCHANGED <<transportVars, step, device, prepared, port, s3_state, s3_generation, PENDING_S3_TOKEN>>
        <3>1. CASE SuspendFails \/ EnterS3
            BY <3>1 DEF SuspendFails, EnterS3, At, Asleep, registerVars, s3Vars
        <3>2. ASSUME NEW retained \in BOOLEAN, Wakes(retained)
              PROVE  /\ stage \in Asleep /\ stage' \in Asleep /\ (run' => run)
                     /\ UNCHANGED <<transportVars, step, device, prepared, port, s3_state, s3_generation, PENDING_S3_TOKEN>>
            <4>1. run' => run
                BY <3>2, Zenon DEF Wakes
            <4> QED BY <3>2, <4>1 DEF Wakes, At, Asleep, s3Vars
        <3> QED BY <1>4, <3>1, <3>2
    <2>2. EndpointInv' /\ CommandRingInv' /\ EntriesInv' /\ transfer' = transfer
        BY <2>1, AllStay DEF transportVars
    <2>3. SuspendInv'
        BY <1>1, <2>1, PublishedSame DEF SuspendInv, Up
    <2> QED BY <2>1, <2>2, <2>3, SuspendStep
<1>5. ASSUME NEW healthy \in BOOLEAN, NEW starts \in BOOLEAN,
             AbortSuspend(healthy, starts) \/ ResumePlatform(healthy, starts)
      PROVE  LifeInv'
    <2>1. /\ stage \in {"abort", "woken"} /\ stage' = "prompt" /\ PENDING_S3_TOKEN' = NoToken
          /\ UNCHANGED <<ring, cursor, eventRing, hwEvent, dequeue, transfer, submitted,
                         step, device, prepared, port, s3_generation>>
        BY <1>5 DEF AbortSuspend, ResumePlatform, At
    <2>2. stage \in Asleep /\ stage' \notin Asleep /\ stage' \in Up
        BY <2>1 DEF Asleep, Up
    <2>3. (\E token : Resumed(token, healthy, starts)) \/ (~Published /\ NotResumed)
        <3>1. CASE AbortSuspend(healthy, starts)
            BY <3>1 DEF AbortSuspend
        <3>2. CASE ResumePlatform(healthy, starts)
            <4>1. PENDING_S3_TOKEN # NoToken \/ ~Published
                BY <1>1, <2>2 DEF SuspendInv
            <4> QED BY <3>2, <4>1 DEF ResumePlatform
        <3> QED BY <1>5, <3>1, <3>2
    <2>4. EndpointInv' /\ CommandRingInv' /\ EntriesInv' /\ s3_state' # "Quiesced"
        <3>1. CASE \E token : Resumed(token, healthy, starts)
            BY <2>1, <3>1, ResumedKeeps
        <3>2. CASE ~Published /\ NotResumed
            <4>1. EndpointInv' /\ CommandRingInv' /\ EntriesInv'
                BY <2>1, <3>2, AllStay DEF NotResumed
            <4> QED BY <1>1, <3>2, <4>1 DEF SuspendInv, NotResumed
        <3> QED BY <2>3, <3>1, <3>2
    <2>5. SuspendInv'
        BY <1>1, <2>1, <2>2, <2>4 DEF SuspendInv
    <2> QED BY <2>1, <2>2, <2>4, <2>5, SuspendStep
<1>6. CASE SuspendWithout
    <2>1. /\ stage = "prompt" /\ stage' = "acpi" /\ ~Published
          /\ UNCHANGED <<transportVars, step, device, prepared, port, s3_state, s3_generation, PENDING_S3_TOKEN>>
        BY <1>6 DEF SuspendWithout, At
    <2>2. EndpointInv' /\ CommandRingInv' /\ EntriesInv' /\ transfer' = transfer
        BY <2>1, AllStay DEF transportVars
    <2>3. SuspendInv' /\ stage' \in Asleep
        BY <1>1, <2>1, PublishedSame DEF SuspendInv, Asleep, Up
    <2> QED BY <2>1, <2>2, <2>3, SuspendStep
<1> QED BY <1>2, <1>3, <1>4, <1>5, <1>6 DEF Suspends

LEMMA ControlsKeep == ASSUME LifeInv, Controls PROVE LifeInv'
<1>1. EndpointInv /\ CommandRingInv /\ EntriesInv /\ AwaitInv
    BY DEF LifeInv
<1>2. /\ \E code \in {"success", "error"} : ExecuteCommand(code) \/ \E r \in {"control", "in"} : Execute(r, code)
      /\ UNCHANGED <<stage, step, device, prepared, port, s3Vars, run>>
    BY DEF Controls, bootVars, registerVars
<1>3. UNCHANGED <<ring, cursor, transfer>>
    BY <1>2 DEF ExecuteCommand, Execute
<1>4. EntriesInv'
    BY <1>1, <1>2, <1>3, EntriesStay
<1>5. device = "storage" => transfer.owner # "in"
    BY <1>1 DEF AwaitInv
<1>6. EndpointInv' /\ CommandRingInv'
    <2>1. CASE \E code \in {"success", "error"} : ExecuteCommand(code)
        BY <1>1, <1>2, <1>5, <2>1, CommandRuns
    <2>2. ASSUME NEW r \in {"control", "in"}, NEW code \in {"success", "error"}, Execute(r, code)
          PROVE  EndpointInv' /\ CommandRingInv'
        <3>1. r \in Endpoints /\ r # "command"
            BY <2>2, RingNames
        <3>2. EndpointInv'
            BY <1>1, <2>2, <3>1, EndpointExecuted
        <3>3. hw'["command"] = hw["command"]
            BY <1>1, <2>2, <3>1, RingNames DEF Execute, EndpointInv, RingTypes
        <3> QED BY <1>1, <1>2, <1>3, <3>2, <3>3, CommandsStay
    <2> QED BY <1>2, <2>1, <2>2
<1> QED BY <1>2, <1>3, <1>4, <1>5, <1>6, PromptKeeps

-----------------------------------------------------------------------------
(* The theorems.                                                           *)

LEMMA LifeStutters == ASSUME LifeInv, UNCHANGED lifecycleVars PROVE LifeInv'
<1>1. PlanInv /\ AwaitInv /\ SuspendInv
    BY DEF LifeInv
<1>2. UNCHANGED <<transportVars, stage, step, device, prepared, port, s3Vars, run>>
    BY DEF lifecycleVars, bootVars, registerVars
<1>3. EndpointInv' /\ CommandRingInv' /\ EntriesInv' /\ cursor' = cursor /\ transfer' = transfer
    BY <1>2, AllStay DEF transportVars
<1>4. device = "storage" => transfer'.owner # "in"
    BY <1>1, <1>3 DEF AwaitInv
<1> QED BY <1>2, <1>3, <1>4, PromptKeeps

LEMMA LifeStep == ASSUME LifeInv, LifecycleNext PROVE LifeInv'
<1>1. CASE Boots
    <2>1. CASE \E found \in BOOLEAN : FindController(found)
        BY <2>1, StartupKeeps
    <2>2. CASE \E valid \in BOOLEAN : ParseCapabilities(valid) \/ DiscoverSupportedProtocols(valid)
        BY <2>2, StartupKeeps
    <2>3. CASE \E ready, halts, resets \in BOOLEAN : ResetController(ready, halts, resets)
        BY <2>3, StartupKeeps
    <2>4. CASE \E fits \in BOOLEAN : InitializeRuntimeStructures(fits)
        BY <2>4, StartupKeeps
    <2>5. CASE ProgramRegisters
        BY <2>5, StartupKeeps
    <2>6. CASE \E armed \in BOOLEAN : ArmInterrupts(armed)
        BY <2>6, StartupKeeps
    <2>7. CASE \E starts \in BOOLEAN : Start(starts)
        BY <2>7, StartupKeeps
    <2>8. CASE Submit
        BY <2>8, SubmitKeeps
    <2>9. CASE ClearPort
        BY <2>9, PortKeeps
    <2>10. CASE StageTimesOut
        BY <2>10, StageTimesOutKeeps
    <2>11. CASE Publish
        BY <2>11, PublishKeeps
    <2>14. CASE BootsOn
        BY <2>14, BootsOnKeeps
    <2>12. CASE \E enables \in BOOLEAN : ResetPort(enables)
        BY <2>12, PortKeeps
    <2>13. CASE \E valid \in BOOLEAN : StageDone(valid)
        BY <2>13, StageDoneKeeps
    <2> QED BY <1>1, <2>1, <2>2, <2>3, <2>4, <2>5, <2>6, <2>7, <2>8, <2>9, <2>10, <2>11, <2>12, <2>13, <2>14 DEF Boots
<1>2. CASE Polls
    BY <1>2, PollsKeep
<1>3. CASE Suspends
    BY <1>3, SuspendsKeep
<1>4. CASE Controls
    BY <1>4, ControlsKeep
<1> QED BY <1>1, <1>2, <1>3, <1>4 DEF LifecycleNext

LEMMA LifeInvariant == LifecycleSpec => []LifeInv
<1>1. LifecycleInit => LifeInv
    BY LifeStarts
<1>2. LifeInv /\ [LifecycleNext]_lifecycleVars => LifeInv'
    BY LifeStep, LifeStutters
<1> QED BY <1>1, <1>2, PTL DEF LifecycleSpec

\* What the controller finds on an endpoint is the TD that is awaited there.
LEMMA EndpointOffers ==
    ASSUME EndpointInv, NEW r \in Endpoints, CanExecute(r)
    PROVE  \E i \in 0..Usable[r] - 1 : Offered(r) = ring[r][i] /\ Filled(r, i)
<1>1. RingTypes /\ RingShape(r) /\ r \in Rings /\ LaneInv(Endpoints, transfer)
    BY RingNames DEF EndpointInv
<1>2. ~Settled(r)
    BY <1>1, QuietOffersNothing
<1>3. Loaded(r, transfer)
    BY <1>1, <1>2 DEF LaneInv
<1>4. PICK i \in 0..Usable[r] - 1, y \in BOOLEAN : LoadedAt(r, transfer, i, y)
    BY <1>3 DEF Loaded
<1>5. i \in Nat
    <2>1. Usable[r] \in Nat
        BY <1>1, UsableType
    <2> QED BY ONLY <1>4, <2>1
<1>6. Stands(r, i, y) /\ ring[r][i].td = transfer.td
    BY <1>4 DEF LoadedAt
<1>7. Position(r).index = i
    BY <1>1, <1>4, <1>5, <1>6, StandsPosition
<1>8. transfer.td \in Nat /\ hw[r].ran < transfer.td /\ hw[r].ran \in Nat
    BY <1>1, <1>3, RingFields DEF LaneInv, PendingOK, PendingTypes, Loaded
<1> QED BY <1>4, <1>6, <1>7, <1>8 DEF Offered, Filled

LEMMA LifeFollows == ASSUME LifeInv PROVE FollowsPrepared
<1>1. EndpointInv /\ CommandRingInv /\ EntriesInv /\ RingTypes
    BY DEF LifeInv, EndpointInv
<1>2. ASSUME NEW r \in {"command", "control", "in"}, CanExecute(r) PROVE Follows(Offered(r).what) \subseteq prepared
    <2>1. \E i \in 0..Usable[r] - 1 : Offered(r) = ring[r][i] /\ Filled(r, i)
        <3>1. CASE r = "command"
            <4>1. CanExecute("command")
                BY <1>2, <3>1
            <4>2. \E i \in 0..Usable["command"] - 1 : Offered("command") = ring["command"][i] /\ Filled("command", i)
                BY <1>1, <4>1, CommandOffered
            <4> QED BY <3>1, <4>2
        <3>2. CASE r # "command"
            <4>1. r \in Endpoints
                BY <1>2, <3>2, RingNames
            <4> QED BY <1>1, <1>2, <4>1, EndpointOffers
        <3> QED BY <3>1, <3>2
    <2>2. PICK i \in 0..Usable[r] - 1 : Offered(r) = ring[r][i] /\ Filled(r, i)
        BY <2>1
    <2>3. EntryOK(r, i)
        BY <1>1, <1>2, <2>2 DEF EntriesInv
    <2> QED BY <2>2, <2>3 DEF EntryOK
<1> QED BY <1>2 DEF FollowsPrepared

LEMMA LifePort == ASSUME LifeInv PROVE PortStaysEnabled
<1>1. /\ device \in {"none", "keyboard", "storage"}
      /\ device # "none" /\ step > 2 => port.enabled
    BY DEF LifeInv, PlanInv
<1>2. device = "none" => Plan = <<Td("command", 1, "no_op")>>
    BY <1>1, PlanEntries DEF Planned, NoOp
<1> QED BY <1>1, <1>2, Zenon DEF PortStaysEnabled

LEMMA LifeSleeps == ASSUME LifeInv PROVE SuspendClean
<1>1. EndpointInv /\ AwaitInv /\ SuspendInv
    BY DEF LifeInv
<1>2. ASSUME stage = "asleep", Published PROVE ~run /\ \A r \in {"control", "in"} : ~CanExecute(r)
    <2>1. ~run /\ transfer = NotPending
        BY <1>1, <1>2 DEF AwaitInv, SuspendInv, Asleep
    <2>2. ASSUME NEW r \in {"control", "in"} PROVE ~CanExecute(r)
        <3>1. r \in Rings /\ r \in Endpoints
            BY <2>2, RingNames
        <3>2. Settled(r) /\ RingShape(r) /\ RingTypes
            BY <1>1, <2>1, <3>1, EndpointsReady DEF Done, EndpointInv
        <3> QED BY <3>1, <3>2, QuietOffersNothing
    <2> QED BY <2>1, <2>2
<1>3. NeverLeftQuiesced
    BY <1>1 DEF NeverLeftQuiesced, SuspendInv, Asleep
<1> QED BY <1>2, <1>3 DEF SuspendClean, SleepsIdle

\* Suspend and resume (shell.rs, xhci.rs): for rings of any size and any number
\* of suspends, with a published driver the machine sleeps only after its
\* controller was stopped and owes no completion, and the prompt comes back to
\* one that runs or is quarantined; without one no token is ever made.
THEOREM SuspendsClean == LifecycleSpec => []SuspendClean
<1>1. LifeInv => SuspendClean
    BY LifeSleeps
<1> QED BY <1>1, LifeInvariant, PTL

\* Enumeration and what follows it (xhci.rs): the controller only ever executes
\* TDs whose structures are in memory, also when a resume makes it run through
\* old commands again, and the port stays enabled once it was reset.
THEOREM EnumerationAlwaysSound == LifecycleSpec => []EnumerationSound
<1>1. LifeInv => EnumerationSound
    BY LifeFollows, LifePort DEF EnumerationSound
<1> QED BY <1>1, LifeInvariant, PTL
=============================================================================
