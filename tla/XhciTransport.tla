--------------------------- MODULE XhciTransport ---------------------------
(***************************************************************************)
(* The rings that the xHCI driver (kernel/src/xhci.rs) shares with its     *)
(* controller: one producer ring per endpoint and one for commands, whose  *)
(* entries belong to the controller while their cycle bit equals its own,  *)
(* and the event ring, which runs the other way.  At most one command and  *)
(* one transfer are pending (EventDispatchState); a completion is accepted *)
(* by the address of its TRB and the endpoint.  The controller runs on its *)
(* own: it executes what a ring offers, posts events while the event ring  *)
(* has room, and may answer late or never.                                 *)
(*                                                                         *)
(* A transfer descriptor (TD) is executed in one step; TRB addresses are   *)
(* ring and index.  td numbers the submissions, for the properties only.   *)
(***************************************************************************)
EXTENDS Naturals

CONSTANTS ControlTrbs, BulkTrbs, CommandTrbs,  \* usable TRBs of a ring, its link TRB not counted
          EventTrbs,                           \* entries of the event ring
          FirstControl                         \* where enumeration leaves the control ring's cursor

\* No TD of the driver fills a ring: they have at most 3 TRBs on the control
\* ring and 1 on the others, and a ring has 255 usable ones.
ASSUME TransportAssumption ==
    /\ ControlTrbs \in Nat \ 0..3 /\ BulkTrbs \in Nat \ 0..1 /\ CommandTrbs \in Nat \ 0..1
    /\ EventTrbs \in Nat \ {0, 1}
    /\ FirstControl \in 0..ControlTrbs - 1

Endpoints == {"control", "in", "out"}
Rings == Endpoints \cup {"command"}

Usable == [r \in Rings |-> CASE r = "control" -> ControlTrbs
                             [] r = "command" -> CommandTrbs
                             [] OTHER -> BulkTrbs]

VARIABLES ring,      \* ring[r][i]: the TRB in memory; index Usable[r] is the link TRB
          cursor,    \* where the driver enqueues next, and the cycle it writes there
          hw,        \* where the controller dequeues next, its cycle, the endpoint's state,
                     \* and the last TD it ran
          eventRing, \* the event TRBs in memory
          hwEvent,   \* where the controller posts next
          dequeue,   \* event_dequeue_index and event_cycle
          command,   \* events.command
          transfer,  \* events.transfer
          submitted  \* number of TDs and commands enqueued so far

transportVars == <<ring, cursor, hw, eventRing, hwEvent, dequeue, command, transfer, submitted>>

NoTrb == [cycle |-> FALSE, td |-> 0, length |-> 1, what |-> "none"]
NoEvent == [cycle |-> FALSE, ring |-> "none", index |-> 0, code |-> "none", td |-> 0]
NotPending == [owner |-> "none", index |-> 0, code |-> "none", td |-> 0, took |-> 0]

\* A link TRB is written with its cycle bit set when its ring is allocated;
\* enumeration has used the first entries of the control ring.
TransportInit ==
    /\ ring = [r \in Rings |-> [i \in 0..Usable[r] |->
           [NoTrb EXCEPT !.cycle = (i = Usable[r] \/ (r = "control" /\ i < FirstControl))]]]
    /\ cursor = [r \in Rings |-> [index |-> IF r = "control" THEN FirstControl ELSE 0, cycle |-> TRUE]]
    /\ hw = [r \in Rings |-> [index |-> IF r = "control" THEN FirstControl ELSE 0, cycle |-> TRUE,
                              state |-> "running", ran |-> 0]]
    /\ eventRing = [i \in 0..EventTrbs - 1 |-> NoEvent]
    /\ hwEvent = [index |-> 0, cycle |-> TRUE]
    /\ dequeue = [index |-> 0, cycle |-> TRUE]
    /\ command = NotPending
    /\ transfer = NotPending
    /\ submitted = 0

-----------------------------------------------------------------------------
(* The producer side.                                                      *)

\* RingCursor::reserve never splits a TD over the link.
CanReserve(r, length) == cursor[r].index + length <= Usable[r]

ReachesLink(r, length) == cursor[r].index + length = Usable[r]

\* The cursor after a reservation; the command ring advances the same way.
Reserved(r, length) ==
    IF ReachesLink(r, length) THEN [index |-> 0, cycle |-> ~cursor[r].cycle]
                              ELSE [cursor[r] EXCEPT !.index = @ + length]

\* The ring once a TD of that many TRBs has been written at the cursor, and
\* the link TRB handed over with it when the TD ends at the link.
WithTd(r, length, what) ==
    [i \in 0..Usable[r] |->
        CASE i \in cursor[r].index .. cursor[r].index + length - 1 ->
                 [cycle |-> cursor[r].cycle, td |-> submitted + 1, length |-> length, what |-> what]
          [] i = Usable[r] /\ ReachesLink(r, length) -> [NoTrb EXCEPT !.cycle = cursor[r].cycle]
          [] OTHER -> ring[r][i]]

\* A doorbell starts a stopped endpoint; a halted one ignores it.
Rung(r) == [hw EXCEPT ![r].state = IF @ = "stopped" THEN "running" ELSE @]

\* Fault: the completion of the last transfer is not cleared.
AwaitingStale(r, length) ==
    [transfer EXCEPT !.owner = r, !.index = cursor[r].index + length - 1, !.td = submitted + 1]

\* What events.command or events.transfer holds for the TD just written.
Awaiting(r, length) ==
    [NotPending EXCEPT !.owner = r, !.index = cursor[r].index + length - 1, !.td = submitted + 1]

Enqueue(r, length, what) ==
    /\ ring' = [ring EXCEPT ![r] = WithTd(r, length, what)]
    /\ cursor' = [cursor EXCEPT ![r] = Reserved(r, length)]
    /\ hw' = Rung(r)
    /\ submitted' = submitted + 1
    /\ UNCHANGED <<eventRing, hwEvent, dequeue>>

SubmitTransfer(r, length, what) ==
    /\ Enqueue(r, length, what)
    /\ transfer' = Awaiting(r, length)
    /\ UNCHANGED command

SubmitCommand(what) ==
    /\ Enqueue("command", 1, what)
    /\ command' = Awaiting("command", 1)

-----------------------------------------------------------------------------
(* The consumer of the event ring.                                         *)

HasEvent == eventRing[dequeue.index].cycle = dequeue.cycle

\* EventDispatchState::dispatch: an event completes what is pending on its
\* TRB and endpoint; any other event is counted and forgotten.
Accepted(pending, e) ==
    IF pending.owner = e.ring /\ pending.index = e.index
    THEN [pending EXCEPT !.code = e.code, !.took = e.td]
    ELSE pending

Dispatch ==
    LET e == eventRing[dequeue.index]
    IN  /\ HasEvent
        /\ command' = IF e.ring = "command" THEN Accepted(command, e) ELSE command
        /\ transfer' = IF e.ring \in Endpoints THEN Accepted(transfer, e) ELSE transfer
        /\ dequeue' = IF dequeue.index + 1 = EventTrbs THEN [index |-> 0, cycle |-> ~dequeue.cycle]
                                                       ELSE [dequeue EXCEPT !.index = @ + 1]
        /\ UNCHANGED <<ring, cursor, hw, eventRing, hwEvent, submitted>>

-----------------------------------------------------------------------------
(* The controller (external).                                              *)

\* Where the controller stands on a ring once it has followed a link TRB
\* that is its own.
Position(r) ==
    IF hw[r].index = Usable[r] /\ ring[r][Usable[r]].cycle = hw[r].cycle
    THEN [hw[r] EXCEPT !.index = 0, !.cycle = ~@]
    ELSE hw[r]

\* The TRB the controller would execute next.
Offered(r) == ring[r][Position(r).index]

CanExecute(r) ==
    /\ hw[r].state = "running"
    /\ Position(r).index # Usable[r]
    /\ Offered(r).cycle = Position(r).cycle

EventRoom == (hwEvent.index + 1) % EventTrbs # dequeue.index

\* The controller posts the completion of the TD it stands on.
Post(r, code) ==
    /\ EventRoom
    /\ eventRing' = [eventRing EXCEPT ![hwEvent.index] =
           [cycle |-> hwEvent.cycle, ring |-> r, index |-> Position(r).index + Offered(r).length - 1,
            code |-> code, td |-> Offered(r).td]]
    /\ hwEvent' = IF hwEvent.index + 1 = EventTrbs THEN [index |-> 0, cycle |-> ~hwEvent.cycle]
                                                   ELSE [hwEvent EXCEPT !.index = @ + 1]

\* A stalled endpoint halts and stays on its TD; otherwise the TD is done.
Retired(r, code) ==
    IF code = "stall" THEN [Position(r) EXCEPT !.state = "halted", !.ran = Offered(r).td]
                      ELSE [Position(r) EXCEPT !.index = @ + Offered(r).length, !.ran = Offered(r).td]

Execute(r, code) ==
    /\ CanExecute(r)
    /\ Post(r, code)
    /\ hw' = [hw EXCEPT ![r] = Retired(r, code)]
    /\ UNCHANGED <<ring, cursor, dequeue, command, transfer, submitted>>

\* A port status change, which completes nothing that is pending here.
PostPortChange ==
    /\ EventRoom
    /\ eventRing' = [eventRing EXCEPT ![hwEvent.index] =
           [NoEvent EXCEPT !.cycle = hwEvent.cycle, !.ring = "port"]]
    /\ hwEvent' = IF hwEvent.index + 1 = EventTrbs THEN [index |-> 0, cycle |-> ~hwEvent.cycle]
                                                   ELSE [hwEvent EXCEPT !.index = @ + 1]
    /\ UNCHANGED <<ring, cursor, hw, dequeue, command, transfer, submitted>>

\* Reset Endpoint and Set TR Dequeue Pointer, the commands that the driver
\* gives an endpoint it found halted.
ResetEndpoint(r) == [hw[r] EXCEPT !.state = "stopped"]

\* Fault: the pointer is that of the TRB the endpoint halted on.
SetDequeueHalted(r) == hw[r]

SetDequeue(r) == [hw[r] EXCEPT !.index = cursor[r].index, !.cycle = cursor[r].cycle]

ExecuteCommand(code) ==
    LET what == Offered("command").what
        r == IF what \in {"reset_in", "dequeue_in"} THEN "in" ELSE "out"
        done == CASE what \in {"reset_in", "reset_out"} -> ResetEndpoint(r)
                  [] what \in {"dequeue_in", "dequeue_out"} -> SetDequeue(r)
                  [] OTHER -> hw[r]
    IN  /\ CanExecute("command")
        /\ Post("command", code)
        /\ hw' = [hw EXCEPT !["command"] = Retired("command", code),
                            ![r] = IF code = "success" THEN done ELSE @]
        /\ UNCHANGED <<ring, cursor, dequeue, command, transfer, submitted>>
=============================================================================
