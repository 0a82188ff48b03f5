----------------------------- MODULE UsbStorage -----------------------------
(***************************************************************************)
(* USB mass storage (kernel/src/usb_storage.rs): the Bulk-Only command     *)
(* machine over the rings of XhciTransport, the probe that publishes LUN 0 *)
(* and the block reads that follow.  A command is a CBW on bulk OUT, data  *)
(* on bulk IN, and a CSW on bulk IN; an error on the way leads through the *)
(* reset recovery, whose failure makes the device unavailable for good.    *)
(*                                                                         *)
(* pc names the transfer or command the driver waits for, under the device *)
(* and the controller locks.  The device (external) answers each TD with   *)
(* what it likes; the data it sends are those of the command it holds.     *)
(* Lengths are full or short, a residue is 0 or 1 (nothing or something    *)
(* missing), a CSW tag is the device's or a foreign one.                   *)
(***************************************************************************)
EXTENDS XhciTransport, Sequences

CONSTANTS Blocks,        \* block addresses a reader may ask for
          MaxChunks,     \* bounce-buffer chunks of one read_blocks
          ReadyAttempts, \* MAX_READY_ATTEMPTS
          MaxSubmitted,  \* bound: no new read_blocks once so many TDs were enqueued
          MaxFaults      \* bound: faults of the device, port changes included

ASSUME StorageAssumption ==
    /\ Blocks \subseteq Nat
    /\ MaxChunks \in Nat \ {0}
    /\ ReadyAttempts \in Nat \ {0}
    /\ MaxSubmitted \in Nat /\ MaxFaults \in Nat

VARIABLES pc,        \* the stage the driver waits in
          scsi,      \* the SCSI command being executed and its tag
          next_tag, available, bounce,
          dma,       \* the DMA buffers: bulk OUT, bulk IN and CSW
          short,     \* did the data stage come up short
          device,    \* the command the device holds, if any
          task,      \* the driver function that runs the command
          request,   \* the read_blocks in progress: next block, chunks left, output so far
          result,    \* what the last read_blocks returned
          faults,    \* faults so far
          touched    \* the DMA buffers that the last driver step wrote or read

botVars == <<pc, scsi, next_tag, available, bounce, dma, short, device, task, request, result, faults, touched>>
usbVars == <<transportVars, botVars>>

Zeroed == <<"zero", 0>>
NoScsi == [name |-> "none", block |-> 0, tag |-> 0]
NoStatus == [tag |-> 0, residue |-> 0, status |-> "none"]
NoRequest == [first |-> 0, block |-> 0, chunks |-> 0, output |-> <<>>]
Probing == {"inquiry", "ready", "sense", "capacity", "probe", "probe_sense"}

UsbInit ==
    /\ TransportInit
    /\ pc = "idle"
    /\ scsi = NoScsi
    /\ next_tag = 1
    /\ available = TRUE
    /\ bounce = Zeroed
    /\ dma = [out |-> NoScsi, in |-> Zeroed, csw |-> NoStatus]
    /\ short = FALSE
    /\ device = NoScsi
    /\ task = [name |-> "inquiry", tries |-> 0]
    /\ request = NoRequest
    /\ result = "none"
    /\ faults = 0
    /\ touched = {}

-----------------------------------------------------------------------------
(* Publishing a stage.                                                     *)

\* Only TEST UNIT READY has no data stage.
HasData(s) == s.name # "ready"

PublishData ==
    /\ dma' = [dma EXCEPT !.in = Zeroed]
    /\ touched' = {"in"}
    /\ SubmitTransfer("in", 1, "in")
    /\ pc' = "data"

PublishCsw ==
    /\ dma' = [dma EXCEPT !.csw = NoStatus]
    /\ SubmitTransfer("in", 1, "csw")
    /\ pc' = "csw"

-----------------------------------------------------------------------------
(* What a finished command means to the function that issued it.           *)

Absent == [name |-> "absent", tries |-> 0]
Named(n) == [name |-> n, tries |-> 0]

\* Responses that InquiryData, SenseData or Capacity may fail to parse, or
\* sense data that is not worth a retry.
Parses(name) == IF name \in {"inquiry", "sense", "capacity"} THEN BOOLEAN ELSE {TRUE}

\* usb_storage::init: the next task after a command that returned outcome
\* "full", "short", "failed" or "error".  Only sense data may be short, by
\* bytes that are not looked at.
Probed(outcome, valid) ==
    CASE task.name = "inquiry" /\ outcome = "full" /\ valid -> Named("ready")
      [] task.name = "ready" /\ outcome = "full" -> Named("capacity")
      [] task.name = "ready" /\ outcome = "failed" -> [name |-> "sense", tries |-> task.tries + 1]
      [] task.name = "sense" /\ outcome \in {"full", "short"} /\ valid /\ task.tries < ReadyAttempts ->
             [task EXCEPT !.name = "ready"]
      [] task.name = "capacity" /\ outcome = "full" /\ valid -> Named("probe")
      [] task.name = "probe" /\ outcome = "full" -> Named("published")
      [] task.name = "probe" /\ outcome = "failed" -> Named("probe_sense")
      [] OTHER -> Absent

\* read_10 and the loop of read_blocks: a full chunk is copied out, a failed
\* command asks for sense data and reports the failure, the rest is an error.
ReadReturns(outcome) ==
    LET copied == [request EXCEPT !.output = Append(@, bounce'), !.block = @ + 1, !.chunks = @ - 1]
    IN  \/ /\ outcome = "full"
           /\ request' = copied
           /\ task' = Named(IF copied.chunks = 0 THEN "published" ELSE "read")
           /\ result' = IF copied.chunks = 0 THEN "ok" ELSE "none"
        \/ /\ outcome = "failed"
           /\ task' = Named("read_sense")
           /\ UNCHANGED <<request, result>>
        \/ /\ outcome \in {"short", "error"}
           /\ task' = Named("published")
           /\ result' = "error"
           /\ UNCHANGED request

TaskReturns(outcome) ==
    /\ pc' = "idle"
    /\ scsi' = NoScsi
    /\ \/ /\ task.name \in Probing
          /\ \E valid \in Parses(task.name) : task' = Probed(outcome, valid)
          /\ UNCHANGED <<request, result>>
       \/ /\ task.name = "read"
          /\ ReadReturns(outcome)
       \/ /\ task.name = "read_sense"
          /\ task' = Named("published")
          /\ result' = "error"
          /\ UNCHANGED request

-----------------------------------------------------------------------------
(* Reset recovery.                                                         *)

\* Fault: the failure of the recovery is only reported.
GiveUpAvailable ==
    /\ UNCHANGED available
    /\ TaskReturns("error")

\* A failed recovery ends the device; the command's error is reported.
GiveUp ==
    /\ available' = FALSE
    /\ TaskReturns("error")

\* Ending a recovery stage, with this left in events.transfer.
GiveUpWith(pending) ==
    /\ GiveUp
    /\ transfer' = pending
    /\ UNCHANGED <<ring, cursor, hw, eventRing, hwEvent, dequeue, command, submitted>>

\* control_transfer without a data stage: Setup and Status.
PublishControl(stage) ==
    IF CanReserve("control", 2)
    THEN /\ SubmitTransfer("control", 2, stage)
         /\ pc' = stage
         /\ UNCHANGED <<available, scsi, task, request, result>>
    ELSE GiveUpWith(NotPending)

\* synchronize_mass_storage_endpoint for the endpoints still to do: an
\* endpoint that is not halted needs nothing.
Synchronize(endpoints) ==
    LET halted == {r \in endpoints : hw[r].state = "halted"}
    IN  IF halted = {}
        THEN /\ TaskReturns("error")
             /\ command' = NotPending
             /\ transfer' = NotPending
             /\ UNCHANGED <<ring, cursor, hw, eventRing, hwEvent, dequeue, submitted, available>>
        ELSE LET stage == IF "in" \in halted THEN "reset_in" ELSE "reset_out"
             IN  /\ SubmitCommand(stage)
                 /\ transfer' = NotPending
                 /\ pc' = stage
                 /\ UNCHANGED <<available, scsi, task, request, result>>

\* reset_mass_storage_transport refuses while a transfer is pending.
Recover(pending) ==
    IF pending = NotPending THEN PublishControl("reset") ELSE GiveUpWith(pending)

-----------------------------------------------------------------------------
(* The driver.                                                             *)

Driving == pc # "idle"
CommandStages == {"reset_in", "dequeue_in", "reset_out", "dequeue_out"}
Commands == task.name \in Probing \cup {"read", "read_sense"}

\* read_blocks on a range that validate_read accepts.
ReadBlocks(block, chunks) ==
    /\ ~Driving /\ task.name = "published"
    /\ submitted <= MaxSubmitted
    /\ request' = [first |-> block, block |-> block, chunks |-> chunks, output |-> <<>>]
    /\ task' = Named("read")
    /\ result' = "none"
    /\ touched' = {}
    /\ UNCHANGED <<transportVars, pc, scsi, next_tag, available, bounce, dma, short, device>>

\* execute_with up to the CBW.  bulk_out fills the DMA buffer before
\* submit_bulk_transfer looks whether a transfer is pending.
ExecuteWith ==
    LET s == [name |-> task.name, block |-> request.block, tag |-> next_tag]
    IN  /\ ~Driving /\ Commands
        /\ available
        /\ next_tag' = next_tag + 1
        /\ dma' = [dma EXCEPT !.out = s]
        /\ touched' = {"out"}
        /\ IF transfer = NotPending
           THEN /\ SubmitTransfer("out", 1, "out")
                /\ pc' = "cbw"
                /\ scsi' = s
                /\ UNCHANGED <<available, task, request, result>>
           ELSE Recover(transfer)
        /\ short' = FALSE
        /\ UNCHANGED <<bounce, device>>

\* execute_with on an unavailable device.
ExecuteUnavailable ==
    /\ ~Driving /\ Commands
    /\ ~available
    /\ TaskReturns("error")
    /\ touched' = {}
    /\ UNCHANGED <<transportVars, next_tag, available, bounce, dma, short, device>>

\* One turn of a waiting loop, or of service_interrupt_once when nobody waits.
DispatchEvent ==
    /\ Dispatch
    /\ touched' = {}
    /\ UNCHANGED <<pc, scsi, next_tag, available, bounce, dma, short, device, task, request, result>>

Completed == transfer.code # "none"
Good == transfer.code \in {"success", "short"}

CbwDone ==
    /\ pc = "cbw" /\ Completed
    /\ IF transfer.code = "success"
       THEN /\ IF HasData(scsi) THEN PublishData
                                ELSE PublishCsw /\ touched' = {"csw"}
            /\ UNCHANGED <<available, scsi, task, request, result>>
       ELSE /\ Recover(NotPending)
            /\ touched' = {}
            /\ UNCHANGED dma
    /\ UNCHANGED <<next_tag, bounce, short, device>>

DataDone ==
    /\ pc = "data" /\ Completed
    /\ IF Good
       THEN /\ bounce' = dma.in
            /\ short' = (transfer.code = "short")
            /\ PublishCsw
            /\ touched' = {"in", "csw"}
            /\ UNCHANGED <<available, scsi, task, request, result>>
       ELSE /\ Recover(NotPending)
            /\ touched' = {}
            /\ UNCHANGED <<bounce, short, dma>>
    /\ UNCHANGED <<next_tag, device>>

\* CommandStatusWrapper::parse and the check of the residue.
CswValid ==
    /\ dma.csw.tag = scsi.tag
    /\ dma.csw.status # "none"
    /\ (dma.csw.residue = 1) <=> short

\* Fault: a short data stage counts as a full one.
OutcomeAnyLength == IF dma.csw.status = "failed" THEN "failed" ELSE "full"

\* What execute_with returns on a valid CSW.
Outcome ==
    CASE dma.csw.status = "failed" -> "failed"
      [] short -> "short"
      [] OTHER -> "full"

CswDone ==
    /\ pc = "csw" /\ Completed
    /\ touched' = IF Good THEN {"csw"} ELSE {}
    /\ UNCHANGED <<bounce, dma, short, device, next_tag>>
    /\ IF transfer.code = "success" /\ CswValid /\ dma.csw.status # "phase_error"
       THEN /\ TaskReturns(Outcome)
            /\ transfer' = NotPending
            /\ UNCHANGED <<ring, cursor, hw, eventRing, hwEvent, dequeue, command, submitted, available>>
       ELSE Recover(NotPending)

\* The three control transfers of the recovery, then the endpoints.
ControlDone ==
    /\ pc \in {"reset", "clear_in", "clear_out"} /\ Completed
    /\ \/ /\ Good /\ pc = "clear_out"
          /\ Synchronize({"in", "out"})
          /\ UNCHANGED available
       \/ /\ Good /\ pc \in {"reset", "clear_in"}
          /\ PublishControl(IF pc = "reset" THEN "clear_in" ELSE "clear_out")
       \/ /\ ~Good
          /\ GiveUpWith(NotPending)
    /\ touched' = {}
    /\ UNCHANGED <<next_tag, bounce, dma, short, device>>

\* The two commands of each halted endpoint.
CommandDone ==
    /\ pc \in CommandStages /\ command.code # "none"
    /\ \/ /\ command.code = "success" /\ pc \in {"reset_in", "reset_out"}
          /\ LET stage == IF pc = "reset_in" THEN "dequeue_in" ELSE "dequeue_out"
             IN  SubmitCommand(stage) /\ pc' = stage
          /\ UNCHANGED <<transfer, available, scsi, task, request, result>>
       \/ /\ command.code = "success" /\ pc \in {"dequeue_in", "dequeue_out"}
          /\ Synchronize(IF pc = "dequeue_in" THEN {"out"} ELSE {})
          /\ UNCHANGED available
       \/ /\ command.code # "success"
          /\ GiveUp
          /\ command' = NotPending
          /\ UNCHANGED <<ring, cursor, hw, eventRing, hwEvent, dequeue, transfer, submitted>>
    /\ touched' = {}
    /\ UNCHANGED <<next_tag, bounce, dma, short, device>>

\* Fault: submit_command waits for ever.
ExpiredTransfer == Driving /\ pc \notin CommandStages /\ ~HasEvent /\ transfer.code = "none"

\* The loop of submit_command or wait_for_transfer runs out of spins.
Expired ==
    /\ Driving /\ ~HasEvent
    /\ IF pc \in CommandStages THEN command.code = "none" ELSE transfer.code = "none"

\* What was pending stays pending: the controller may still work on it.
TimesOut ==
    /\ Expired
    /\ IF pc \in {"cbw", "data", "csw"} THEN Recover(transfer) ELSE GiveUpWith(transfer)
    /\ touched' = {}
    /\ UNCHANGED <<next_tag, bounce, dma, short, device>>

-----------------------------------------------------------------------------
(* The controller and the device (external).                               *)

deviceVars == <<pc, scsi, next_tag, available, bounce, dma, short, device, task, request, result, touched>>

\* A CBW reaches the device.
DeviceTakesCbw(code) ==
    /\ Execute("out", code)
    /\ device' = IF code = "success" THEN dma.out ELSE device
    /\ UNCHANGED <<pc, scsi, next_tag, available, bounce, dma, short, task, request, result, touched>>

\* The device answers a TD on bulk IN with the data of its command.
DeviceSendsData(code) ==
    /\ device # NoScsi /\ code \in {"success", "short"}
    /\ CanExecute("in") /\ Offered("in").what = "in"
    /\ Execute("in", code)
    /\ dma' = [dma EXCEPT !.in = <<device.name, device.block>>]
    /\ UNCHANGED <<pc, scsi, next_tag, available, bounce, short, device, task, request, result, touched>>

\* ... or with a status, into whatever buffer the TD names, and is done.
DeviceSendsStatus(status) ==
    /\ device # NoScsi
    /\ CanExecute("in")
    /\ IF Offered("in").what = "csw"
       THEN Execute("in", "success") /\ dma' = [dma EXCEPT !.csw = status]
       ELSE Execute("in", "short") /\ dma' = [dma EXCEPT !.in = <<"status", 0>>]
    /\ device' = NoScsi
    /\ UNCHANGED <<pc, scsi, next_tag, available, bounce, short, task, request, result, touched>>

\* ... or the transfer fails or stays empty.
DeviceFails(code) ==
    /\ Execute("in", code)
    /\ UNCHANGED deviceVars

\* The control requests of the recovery: the reset drops the device's command.
DeviceControl(code) ==
    /\ device' = IF CanExecute("control") /\ Offered("control").what = "reset" /\ code = "success"
                 THEN NoScsi ELSE device
    /\ Execute("control", code)
    /\ UNCHANGED <<pc, scsi, next_tag, available, bounce, dma, short, task, request, result, touched>>

\* The device as the protocol wants it.
Answers ==
    /\ \/ DeviceTakesCbw("success")
       \/ DeviceSendsData("success")
       \/ \E status \in {"passed", "failed"} :
              DeviceSendsStatus([tag |-> device.tag, residue |-> 0, status |-> status])
       \/ DeviceControl("success")
       \/ ExecuteCommand("success") /\ UNCHANGED deviceVars
    /\ UNCHANGED faults

\* The device and the bus at their worst.
Misbehaves ==
    /\ faults < MaxFaults
    /\ faults' = faults + 1
    /\ \/ \E code \in {"short", "stall", "error"} : DeviceTakesCbw(code)
       \/ DeviceSendsData("short")
       \/ \E tag \in {device.tag, 0}, residue \in {0, 1}, status \in {"passed", "failed", "phase_error"} :
              DeviceSendsStatus([tag |-> tag, residue |-> residue, status |-> status])
       \/ \E code \in {"short", "stall", "error"} : DeviceFails(code)
       \/ DeviceControl("stall")
       \/ ExecuteCommand("error") /\ UNCHANGED deviceVars
       \/ PostPortChange /\ UNCHANGED deviceVars

Controller == Answers \/ Misbehaves

Driver ==
    /\ \/ \E block \in Blocks, chunks \in 1..MaxChunks : ReadBlocks(block, chunks)
       \/ ExecuteWith \/ ExecuteUnavailable
       \/ DispatchEvent
       \/ CbwDone \/ DataDone \/ CswDone
       \/ ControlDone \/ CommandDone
       \/ TimesOut
    /\ UNCHANGED faults

UsbNext == Driver \/ Controller

\* Every wait of the driver is a bounded loop that dispatches events.
UsbSpec == UsbInit /\ [][UsbNext]_usbVars /\ WF_usbVars(Commands /\ Driver)

-----------------------------------------------------------------------------
(* Properties.                                                             *)

\* The controller may still execute, or be executing, this TD of an endpoint.
MayExecute(r, i) ==
    /\ hw[r].state # "halted"
    /\ ring[r][i].td # 0
    /\ IF i >= Position(r).index THEN ring[r][i].cycle = Position(r).cycle
                                 ELSE ring[r][i].cycle # Position(r).cycle

\* The buffers of those TDs.
Owned ==
    {what \in {"out", "in", "csw"} :
        \E r \in {"in", "out"}, i \in 0..BulkTrbs - 1 : MayExecute(r, i) /\ ring[r][i].what = what}

\* A timeout does not hand DMA memory back: the driver neither fills, clears
\* nor copies a buffer while a TD that names it is the controller's.
NoDmaReuse == [][touched' # touched \/ submitted' # submitted => touched' \cap Owned = {}]_usbVars

\* The completion a waiter takes is that of the TD it enqueued, whatever late
\* events arrive on ring slots that were used before.
CompletionIsOwn ==
    \A pending \in {command, transfer} : pending.code # "none" => pending.took = pending.td

\* The controller never runs a TD a second time, not even after an endpoint
\* halted on it and was restarted, or after the ring wrapped.
NothingRunsTwice ==
    \A r \in Rings : CanExecute(r) => Offered(r).td > hw[r].ran

\* A read that succeeds returns the blocks that were asked for, in order,
\* never what an earlier command left in the DMA or bounce buffer.
ReadReturnsBlocks ==
    result = "ok" => /\ Len(request.output) = request.block - request.first
                     /\ \A i \in 1..Len(request.output) :
                            request.output[i] = <<"read", request.first + i - 1>>

\* The probe and every read end, with a published device, without one, or
\* with a result, however the device and the controller behave.
DriverReturns == (task.name \notin {"published", "absent"}) ~> (task.name \in {"published", "absent"})
=============================================================================
