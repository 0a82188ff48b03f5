--------------------------- MODULE UsbStorageProofs ---------------------------
(***************************************************************************)
(* USB mass storage for rings of any size, any number of reads and faults, *)
(* and whatever the device answers: completions go to their own waiter,    *)
(* nothing runs twice, DMA memory is not touched while the controller may  *)
(* use it, and a read that succeeds returns the blocks asked for.          *)
(***************************************************************************)
EXTENDS UsbStorage, XhciTransportProofs, SequenceTheorems

Stages == {"idle", "cbw", "data", "csw", "reset", "clear_in", "clear_out"} \cup CommandStages
Reads == {<<"read", b>> : b \in Nat}

\* If the controller takes a TD of a ring, it is one of this kind.
Offers(r, what) == CanExecute(r) => Offered(r).what = what

\* The data of a command.
DataOf(s) == <<s.name, s.block>>

\* What holds in each stage while the device is available.
AtIdle ==
    /\ transfer = NotPending /\ command = NotPending /\ device = NoScsi
    /\ Ready("in") /\ Ready("out") /\ Ready("control")

AtCbw ==
    /\ command = NotPending /\ transfer.owner = "out"
    /\ Ready("in") /\ Ready("control")
    /\ dma.out = scsi /\ device \in {NoScsi, scsi}

AtData ==
    /\ command = NotPending /\ transfer.owner = "in"
    /\ Ready("out") /\ Ready("control")
    /\ device \in {NoScsi, scsi}
    /\ Offers("in", "in")
    /\ "success" \in TransferCodes => dma.in = DataOf(scsi)

AtCsw ==
    /\ command = NotPending /\ transfer.owner = "in"
    /\ Ready("out") /\ Ready("control")
    /\ device \in {NoScsi, scsi}
    /\ Offers("in", "csw")
    /\ "success" \in TransferCodes => device = NoScsi
    /\ HasData(scsi) /\ ~short => bounce = DataOf(scsi)

AtControl ==
    /\ command = NotPending /\ transfer.owner = "control"
    /\ Halts("in") /\ Halts("out")

\* The reset is over when it was answered with success.
AtReset ==
    /\ AtControl
    /\ Offers("control", "reset")
    /\ "success" \in TransferCodes \/ "short" \in TransferCodes => device = NoScsi

AtClear == AtControl /\ device = NoScsi

AtCommand(what) ==
    /\ transfer = NotPending /\ command.owner = "command"
    /\ Ready("control") /\ device = NoScsi
    /\ Offers("command", what)

AtResetIn ==
    /\ AtCommand("reset_in")
    /\ hw["in"].state \in {"halted", "stopped"} /\ Halts("out")
    /\ "success" \in CommandCodes => hw["in"].state = "stopped"

AtDequeueIn ==
    /\ AtCommand("dequeue_in")
    /\ hw["in"].state = "stopped" /\ Halts("out")
    /\ "success" \in CommandCodes => Ready("in")

AtResetOut ==
    /\ AtCommand("reset_out")
    /\ Ready("in") /\ hw["out"].state \in {"halted", "stopped"}
    /\ "success" \in CommandCodes => hw["out"].state = "stopped"

AtDequeueOut ==
    /\ AtCommand("dequeue_out")
    /\ Ready("in") /\ hw["out"].state = "stopped"
    /\ "success" \in CommandCodes => Ready("out")

StageInv == available =>
    /\ pc = "idle" => AtIdle
    /\ pc = "cbw" => AtCbw
    /\ pc = "data" => AtData
    /\ pc = "csw" => AtCsw
    /\ pc = "reset" => AtReset
    /\ pc \in {"clear_in", "clear_out"} => AtClear
    /\ pc = "reset_in" => AtResetIn
    /\ pc = "dequeue_in" => AtDequeueIn
    /\ pc = "reset_out" => AtResetOut
    /\ pc = "dequeue_out" => AtDequeueOut

BotTypes ==
    /\ pc \in Stages
    /\ available \in BOOLEAN
    /\ dma = [out |-> dma.out, in |-> dma.in, csw |-> dma.csw]
    /\ request \in [first : Nat, block : Nat, chunks : Int, output : Seq(Reads)]

\* The blocks copied out so far, and the command that fetches the next.
RequestInv ==
    /\ Len(request.output) = request.block - request.first
    /\ \A i \in 1..Len(request.output) : request.output[i] = <<"read", request.first + i - 1>>
    /\ pc \in {"cbw", "data", "csw"} => scsi.name = task.name /\ scsi.block = request.block

\* Only an available device is driven, and a command is never pending
\* together with a transfer.
DrivenInv ==
    /\ ~available => pc = "idle"
    /\ command # NotPending => transfer = NotPending

UsbInv == TransportInv /\ BotTypes /\ StageInv /\ RequestInv /\ DrivenInv

-----------------------------------------------------------------------------
LEMMA StageNames ==
    /\ "in" \in Endpoints /\ "out" \in Endpoints /\ "control" \in Endpoints /\ "command" \notin Endpoints
    /\ "in" \in Rings /\ "out" \in Rings /\ "control" \in Rings /\ "command" \in Rings
    /\ \A r \in Endpoints : r \in {"in", "out", "control"}
    /\ "idle" \notin CommandStages
    /\ NotPending.owner = "none" /\ NotPending.code = "none"
BY DEF Endpoints, Rings, CommandStages, NotPending

\* Initially.
LEMMA UsbStarts == ASSUME UsbInit PROVE UsbInv
<1>1. TransportInv /\ \A r \in Rings : Ready(r)
    BY TransportStarts DEF UsbInit
<1>2. transfer = NotPending /\ command = NotPending
    BY DEF UsbInit, TransportInit
<1>3. BotTypes
    <2>1. <<>> \in Seq(Reads)
        BY EmptySeq
    <2> QED BY <2>1 DEF UsbInit, BotTypes, Stages, NoRequest
<1>4. StageInv
    BY <1>1, <1>2, StageNames DEF StageInv, AtIdle, UsbInit
<1>5. RequestInv
    BY DEF RequestInv, UsbInit, NoRequest
<1>6. DrivenInv
    BY <1>2 DEF DrivenInv, UsbInit
<1> QED BY <1>1, <1>3, <1>4, <1>5, <1>6 DEF UsbInv

-----------------------------------------------------------------------------
(* Frames.                                                                 *)

LEMMA RingSame ==
    ASSUME NEW r, ring'[r] = ring[r], cursor'[r] = cursor[r], hw'[r] = hw[r]
    PROVE  /\ Ready(r)' <=> Ready(r)
           /\ Halts(r)' <=> Halts(r)
           /\ \A what : Offers(r, what)' <=> Offers(r, what)
<1>1. Offered(r)' = Offered(r) /\ (CanExecute(r)' <=> CanExecute(r))
    BY OfferUntouched
<1> QED BY <1>1, RingUntouched DEF Offers

\* A ring with nothing to execute offers what you like.
LEMMA OffersNothing ==
    ASSUME TransportInv
    PROVE  /\ \A r \in Rings : Ready(r) => Settled(r) /\ Halts(r)
           /\ \A r \in Rings : Halts(r) => Settled(r)
           /\ \A r \in Rings : \A what : Settled(r) => Offers(r, what)
BY OnlyAwaited DEF Offers, Settled, Ready, Halts

OffersNothingNow == TransportInv => \A r \in Rings : \A what : Settled(r) => Offers(r, what)

LEMMA OffersNothingNext == OffersNothingNow /\ OffersNothingNow'
<1>1. OffersNothingNow
    BY OffersNothing DEF OffersNothingNow
<1> QED BY <1>1, PTL

\* The ring a transfer is pending on names the stage.
LEMMA StageByOwner ==
    ASSUME UsbInv, available, transfer # NotPending
    PROVE  /\ transfer.owner = "out" => pc = "cbw"
           /\ transfer.owner = "in" => pc \in {"data", "csw"}
           /\ transfer.owner = "control" => pc \in {"reset", "clear_in", "clear_out"}
           /\ command = NotPending
<1>1. pc \in {"idle", "cbw", "data", "csw", "reset", "clear_in", "clear_out", "reset_in", "dequeue_in", "reset_out", "dequeue_out"}
    BY DEF UsbInv, BotTypes, Stages, CommandStages
<1>2. command = NotPending
    BY DEF UsbInv, DrivenInv
<1>3. /\ pc # "idle"
      /\ pc = "cbw" => transfer.owner = "out"
      /\ pc = "data" => transfer.owner = "in"
      /\ pc = "csw" => transfer.owner = "in"
      /\ pc = "reset" => transfer.owner = "control"
      /\ pc \in {"clear_in", "clear_out"} => transfer.owner = "control"
      /\ pc # "reset_in" /\ pc # "dequeue_in" /\ pc # "reset_out" /\ pc # "dequeue_out"
    BY DEF UsbInv, StageInv, AtIdle, AtCbw, AtData, AtCsw, AtReset, AtClear, AtControl,
           AtResetIn, AtDequeueIn, AtResetOut, AtDequeueOut, AtCommand
<1> QED BY ONLY <1>1, <1>2, <1>3

\* What a step of the controller or a dispatch leaves alone.
LEMMA ControllerFrame ==
    ASSUME UsbInv, UNCHANGED <<pc, scsi, available, task, request>>,
           dma' = [out |-> dma'.out, in |-> dma'.in, csw |-> dma'.csw],
           command' # NotPending => transfer' = NotPending
    PROVE  BotTypes' /\ RequestInv' /\ DrivenInv'
<1>1. BotTypes'
    BY DEF UsbInv, BotTypes
<1>2. RequestInv'
    BY DEF UsbInv, RequestInv
<1> QED BY <1>1, <1>2 DEF UsbInv, DrivenInv

\* Only one stage matters.
LEMMA StageSuffices ==
    /\ pc' = "idle" /\ (available' => AtIdle') => StageInv'
    /\ pc' = "cbw" /\ (available' => AtCbw') => StageInv'
    /\ pc' = "data" /\ (available' => AtData') => StageInv'
    /\ pc' = "csw" /\ (available' => AtCsw') => StageInv'
    /\ pc' = "reset" /\ (available' => AtReset') => StageInv'
    /\ pc' \in {"clear_in", "clear_out"} /\ (available' => AtClear') => StageInv'
    /\ pc' = "reset_in" /\ (available' => AtResetIn') => StageInv'
    /\ pc' = "dequeue_in" /\ (available' => AtDequeueIn') => StageInv'
    /\ pc' = "reset_out" /\ (available' => AtResetOut') => StageInv'
    /\ pc' = "dequeue_out" /\ (available' => AtDequeueOut') => StageInv'
    /\ ~available' => StageInv'
BY DEF StageInv

-----------------------------------------------------------------------------
(* The controller and the device.                                          *)

LEMMA CbwTaken ==
    ASSUME UsbInv, NEW code, code # "none", DeviceTakesCbw(code)
    PROVE  UsbInv'
<1>1. /\ Execute("out", code) /\ device' = IF code = "success" THEN dma.out ELSE device
      /\ UNCHANGED <<pc, scsi, next_tag, available, bounce, dma, short, task, request, result, touched>>
    BY DEF DeviceTakesCbw
<1>2. TransportInv /\ "out" \in Endpoints
    BY StageNames DEF UsbInv
<1>3. /\ TransportInv'
      /\ transfer.owner = "out" /\ transfer # NotPending
      /\ UNCHANGED <<ring, cursor, transfer, command, submitted>>
      /\ \A s \in Rings \ {"out"} : ring'[s] = ring[s] /\ cursor'[s] = cursor[s] /\ hw'[s] = hw[s]
    BY <1>1, <1>2, TransferExecuted
<1>4. BotTypes' /\ RequestInv' /\ DrivenInv'
    <2>1. dma' = [out |-> dma'.out, in |-> dma'.in, csw |-> dma'.csw]
        BY <1>1 DEF UsbInv, BotTypes
    <2> QED BY <1>1, <1>3, <2>1, ControllerFrame DEF UsbInv, DrivenInv
<1>5. StageInv'
    <2>1. CASE ~available
        BY <1>1, <2>1, StageSuffices
    <2>2. CASE available
        <3>1. pc = "cbw" /\ pc' = "cbw"
            BY <1>1, <1>3, <2>2, StageByOwner
        <3>2. AtCbw
            BY <2>2, <3>1 DEF UsbInv, StageInv
        <3>3. Ready("in")' /\ Ready("control")'
            BY <1>3, <3>2, RingSame, StageNames DEF AtCbw
        <3>4. AtCbw'
            BY <1>1, <1>3, <3>2, <3>3 DEF AtCbw
        <3> QED BY <3>1, <3>4, StageSuffices
    <2> QED BY <2>1, <2>2
<1> QED BY <1>3, <1>4, <1>5 DEF UsbInv

\* A TD on bulk IN is executed in the data or in the status stage.
LEMMA InExecuted ==
    ASSUME UsbInv, NEW code, code # "none", Execute("in", code),
           UNCHANGED <<pc, scsi, available, bounce, short, task, request>>,
           dma' = [out |-> dma'.out, in |-> dma'.in, csw |-> dma'.csw],
           device' \in {device, NoScsi},
           pc = "data" /\ available /\ code = "success" => dma'.in = DataOf(scsi),
           pc = "csw" /\ available /\ code = "success" => device' = NoScsi
    PROVE  UsbInv'
<1>1. TransportInv /\ "in" \in Endpoints /\ "in" \in Rings
    BY StageNames DEF UsbInv
<1>2. /\ TransportInv'
      /\ transfer.owner = "in" /\ transfer # NotPending
      /\ UNCHANGED <<ring, cursor, transfer, command, submitted>>
      /\ TransferCodes' = {"none", code} /\ Settled("in")'
      /\ \A s \in Rings \ {"in"} : ring'[s] = ring[s] /\ cursor'[s] = cursor[s] /\ hw'[s] = hw[s]
    BY <1>1, TransferExecuted
<1>3. BotTypes' /\ RequestInv' /\ DrivenInv'
    BY <1>2, ControllerFrame DEF UsbInv, DrivenInv
<1>4. Offers("in", "in")' /\ Offers("in", "csw")'
    BY <1>1, <1>2, OffersNothingNext DEF OffersNothingNow
<1>5. "success" \in TransferCodes' => code = "success"
    BY <1>2
<1>6. (Ready("out")' <=> Ready("out")) /\ (Ready("control")' <=> Ready("control"))
    BY <1>2, RingSame, StageNames
<1>7. StageInv'
    <2>1. CASE ~available
        BY <2>1, StageSuffices
    <2>2. CASE available /\ pc = "data"
        <3>1. AtData
            BY <2>2 DEF UsbInv, StageInv
        <3>2. AtData'
            BY <1>2, <1>4, <1>5, <1>6, <2>2, <3>1 DEF AtData, DataOf
        <3> QED BY <2>2, <3>2, StageSuffices
    <2>3. CASE available /\ pc = "csw"
        <3>1. AtCsw
            BY <2>3 DEF UsbInv, StageInv
        <3>2. AtCsw'
            BY <1>2, <1>4, <1>5, <1>6, <2>3, <3>1 DEF AtCsw, DataOf, HasData
        <3> QED BY <2>3, <3>2, StageSuffices
    <2> QED BY <1>2, <2>1, <2>2, <2>3, StageByOwner
<1> QED BY <1>2, <1>3, <1>7 DEF UsbInv

\* Nothing that the stages speak of changes, except that completions move
\* from the event ring to their waiter.
LEMMA StagesKept ==
    ASSUME StageInv, UNCHANGED <<ring, cursor, hw, pc, scsi, available, bounce, dma, short, device>>,
           TransferCodes' \subseteq TransferCodes, CommandCodes' \subseteq CommandCodes,
           transfer'.owner = transfer.owner, transfer = NotPending => transfer' = NotPending,
           command'.owner = command.owner, command = NotPending => command' = NotPending
    PROVE  StageInv'
<1>1. \A r : (Ready(r)' <=> Ready(r)) /\ (Halts(r)' <=> Halts(r)) /\ \A what : Offers(r, what)' <=> Offers(r, what)
    BY RingSame
<1>2. AtIdle => AtIdle'
    BY <1>1 DEF AtIdle
<1>3. AtCbw => AtCbw'
    BY <1>1 DEF AtCbw
<1>4. AtData => AtData'
    BY <1>1 DEF AtData, DataOf
<1>5. AtCsw => AtCsw'
    BY <1>1 DEF AtCsw, DataOf, HasData
<1>6. AtControl => AtControl'
    BY <1>1 DEF AtControl
<1>7. (AtReset => AtReset') /\ (AtClear => AtClear')
    BY <1>1, <1>6 DEF AtReset, AtClear
<1>8. \A what : AtCommand(what) => AtCommand(what)'
    BY <1>1 DEF AtCommand
<1>9. (AtResetIn => AtResetIn') /\ (AtResetOut => AtResetOut')
    BY <1>1, <1>8 DEF AtResetIn, AtResetOut
<1>10. (AtDequeueIn => AtDequeueIn') /\ (AtDequeueOut => AtDequeueOut')
    BY <1>1, <1>8 DEF AtDequeueIn, AtDequeueOut
<1> QED BY <1>2, <1>3, <1>4, <1>5, <1>7, <1>9, <1>10 DEF StageInv

LEMMA DataSent ==
    ASSUME UsbInv, NEW code, DeviceSendsData(code)
    PROVE  UsbInv'
<1>1. /\ device # NoScsi /\ code \in {"success", "short"}
      /\ CanExecute("in") /\ Offered("in").what = "in" /\ Execute("in", code)
      /\ dma' = [dma EXCEPT !.in = <<device.name, device.block>>]
      /\ UNCHANGED <<pc, scsi, next_tag, available, bounce, short, device, task, request, result, touched>>
    BY DEF DeviceSendsData
<1>2. dma' = [out |-> dma'.out, in |-> dma'.in, csw |-> dma'.csw] /\ dma'.in = <<device.name, device.block>>
    <2>1. dma = [out |-> dma.out, in |-> dma.in, csw |-> dma.csw]
        BY DEF UsbInv, BotTypes
    <2> QED BY <1>1, <2>1
<1>3. ~(pc = "csw" /\ available)
    BY <1>1 DEF UsbInv, StageInv, AtCsw, Offers
<1>4. pc = "data" /\ available => device = scsi
    BY <1>1 DEF UsbInv, StageInv, AtData
<1> QED BY <1>1, <1>2, <1>3, <1>4, InExecuted DEF DataOf

LEMMA StatusSent ==
    ASSUME UsbInv, NEW status, DeviceSendsStatus(status)
    PROVE  UsbInv'
<1>1. /\ CanExecute("in") /\ device' = NoScsi
      /\ UNCHANGED <<pc, scsi, next_tag, available, bounce, short, task, request, result, touched>>
    BY DEF DeviceSendsStatus
<1>2. dma = [out |-> dma.out, in |-> dma.in, csw |-> dma.csw]
    BY DEF UsbInv, BotTypes
<1>3. CASE Offered("in").what = "csw"
    <2>1. Execute("in", "success") /\ dma' = [dma EXCEPT !.csw = status]
        BY <1>3 DEF DeviceSendsStatus
    <2>2. dma' = [out |-> dma'.out, in |-> dma'.in, csw |-> dma'.csw]
        BY <1>2, <2>1
    <2>3. ~(pc = "data" /\ available)
        BY <1>1, <1>3 DEF UsbInv, StageInv, AtData, Offers
    <2> QED BY <1>1, <2>1, <2>2, <2>3, InExecuted
<1>4. CASE Offered("in").what # "csw"
    <2>1. Execute("in", "short") /\ dma' = [dma EXCEPT !.in = <<"status", 0>>]
        BY <1>4 DEF DeviceSendsStatus
    <2>2. dma' = [out |-> dma'.out, in |-> dma'.in, csw |-> dma'.csw]
        BY <1>2, <2>1
    <2> QED BY <1>1, <2>1, <2>2, InExecuted
<1> QED BY <1>3, <1>4

LEMMA InFailed ==
    ASSUME UsbInv, NEW code, code \in {"short", "stall", "error"}, DeviceFails(code)
    PROVE  UsbInv'
<1>1. Execute("in", code) /\ UNCHANGED deviceVars
    BY DEF DeviceFails
<1>2. dma' = [out |-> dma'.out, in |-> dma'.in, csw |-> dma'.csw]
    BY <1>1 DEF UsbInv, BotTypes, deviceVars
<1> QED BY <1>1, <1>2, InExecuted DEF deviceVars

LEMMA ControlAnswered ==
    ASSUME UsbInv, NEW code, code \in {"success", "stall"}, DeviceControl(code)
    PROVE  UsbInv'
<1>1. /\ device' = IF CanExecute("control") /\ Offered("control").what = "reset" /\ code = "success"
                   THEN NoScsi ELSE device
      /\ Execute("control", code)
      /\ UNCHANGED <<pc, scsi, next_tag, available, bounce, dma, short, task, request, result, touched>>
    BY DEF DeviceControl
<1>2. TransportInv /\ "control" \in Endpoints /\ "control" \in Rings
    BY StageNames DEF UsbInv
<1>3. /\ TransportInv'
      /\ transfer.owner = "control" /\ transfer # NotPending
      /\ UNCHANGED <<ring, cursor, transfer, command, submitted>>
      /\ TransferCodes' = {"none", code} /\ Settled("control")'
      /\ \A s \in Rings \ {"control"} : ring'[s] = ring[s] /\ cursor'[s] = cursor[s] /\ hw'[s] = hw[s]
    BY <1>1, <1>2, TransferExecuted
<1>4. BotTypes' /\ RequestInv' /\ DrivenInv'
    <2>1. dma' = [out |-> dma'.out, in |-> dma'.in, csw |-> dma'.csw]
        BY <1>1 DEF UsbInv, BotTypes
    <2> QED BY <1>1, <1>3, <2>1, ControllerFrame DEF UsbInv, DrivenInv
<1>5. Offers("control", "reset")'
    BY <1>2, <1>3, OffersNothingNext DEF OffersNothingNow
<1>6. (Halts("in")' <=> Halts("in")) /\ (Halts("out")' <=> Halts("out"))
    BY <1>3, RingSame, StageNames
<1>7. "success" \in TransferCodes' \/ "short" \in TransferCodes' => code = "success"
    BY <1>3
<1>8. CanExecute("control")
    BY <1>1 DEF Execute
<1>9. StageInv'
    <2>1. CASE ~available
        BY <1>1, <2>1, StageSuffices
    <2>2. CASE available /\ pc = "reset"
        <3>1. AtReset
            BY <2>2 DEF UsbInv, StageInv
        <3>2. code = "success" => device' = NoScsi
            BY <1>1, <1>8, <3>1 DEF AtReset, Offers
        <3>3. AtReset'
            BY <1>1, <1>3, <1>5, <1>6, <1>7, <3>1, <3>2 DEF AtReset, AtControl
        <3> QED BY <1>1, <2>2, <3>3, StageSuffices
    <2>3. CASE available /\ pc \in {"clear_in", "clear_out"}
        <3>1. AtClear
            BY <2>3 DEF UsbInv, StageInv
        <3>2. AtClear'
            BY <1>1, <1>3, <1>6, <3>1 DEF AtClear, AtControl
        <3> QED BY <1>1, <2>3, <3>2, StageSuffices
    <2> QED BY <1>3, <2>1, <2>2, <2>3, StageByOwner
<1> QED BY <1>3, <1>4, <1>9 DEF UsbInv

LEMMA PortChanged ==
    ASSUME UsbInv, PostPortChange, UNCHANGED deviceVars
    PROVE  UsbInv'
<1>1. /\ TransportInv' /\ UNCHANGED <<ring, cursor, hw, transfer, command, submitted>>
      /\ TransferCodes' = TransferCodes /\ CommandCodes' = CommandCodes
    BY PortChangePosted DEF UsbInv
<1>2. BotTypes' /\ RequestInv' /\ DrivenInv'
    <2>1. dma' = [out |-> dma'.out, in |-> dma'.in, csw |-> dma'.csw]
        BY DEF UsbInv, BotTypes, deviceVars
    <2> QED BY <1>1, <2>1, ControllerFrame DEF UsbInv, DrivenInv, deviceVars
<1>3. StageInv'
    BY <1>1, StagesKept DEF UsbInv, deviceVars
<1> QED BY <1>1, <1>2, <1>3 DEF UsbInv

\* One turn of a waiting loop.
LEMMA EventTurn ==
    ASSUME UsbInv, DispatchEvent
    PROVE  UsbInv'
<1>1. /\ TransportInv' /\ UNCHANGED <<ring, cursor, hw, submitted>>
      /\ TransferCodes' \subseteq TransferCodes /\ CommandCodes' \subseteq CommandCodes
      /\ transfer'.owner = transfer.owner /\ (transfer' = NotPending <=> transfer = NotPending)
      /\ command'.owner = command.owner /\ (command' = NotPending <=> command = NotPending)
    BY EventDispatched DEF UsbInv, DispatchEvent
<1>2. UNCHANGED <<pc, scsi, next_tag, available, bounce, dma, short, device, task, request, result>>
    BY DEF DispatchEvent
<1>3. BotTypes' /\ RequestInv' /\ DrivenInv'
    <2>1. dma' = [out |-> dma'.out, in |-> dma'.in, csw |-> dma'.csw]
        BY <1>2 DEF UsbInv, BotTypes
    <2> QED BY <1>1, <1>2, <2>1, ControllerFrame DEF UsbInv, DrivenInv
<1>4. StageInv'
    BY <1>1, <1>2, StagesKept DEF UsbInv
<1> QED BY <1>1, <1>3, <1>4 DEF UsbInv

LEMMA EndpointCommanded ==
    ASSUME TransportInv, NEW r \in Rings, cursor' = cursor
    PROVE  /\ hw'[r] = ResetEndpoint(r) => hw'[r].state = "stopped"
           /\ hw'[r] = SetDequeue(r) => hw'[r].state = hw[r].state /\ Quiet(r)'
<1>1. PICK h, k : h = hw[r] /\ k = cursor[r]
    OBVIOUS
<1>2. /\ h = [index |-> h.index, cycle |-> h.cycle, state |-> h.state, ran |-> h.ran]
      /\ k.index < Usable[r]
    BY <1>1, RingFields DEF TransportInv, RingShape
<1>3. hw'[r] = ResetEndpoint(r) => hw'[r].state = "stopped"
    BY <1>1, <1>2 DEF ResetEndpoint
<1>4. ASSUME hw'[r] = SetDequeue(r) PROVE hw'[r].state = hw[r].state /\ Quiet(r)'
    <2>1. PICK g : g = [h EXCEPT !.index = k.index, !.cycle = k.cycle]
        OBVIOUS
    <2>2. g.index = k.index /\ g.cycle = k.cycle /\ g.state = h.state
        BY ONLY <1>2, <2>1
    <2>3. hw'[r] = g
        BY <1>1, <1>4, <2>1 DEF SetDequeue
    <2> QED BY <1>1, <1>2, <2>2, <2>3 DEF Quiet, Stands
<1> QED BY <1>3, <1>4

LEMMA StageByCommand ==
    ASSUME UsbInv, available, command # NotPending
    PROVE  pc \in CommandStages
<1>1. pc \in {"idle", "cbw", "data", "csw", "reset", "clear_in", "clear_out"} \/ pc \in CommandStages
    BY DEF UsbInv, BotTypes, Stages
<1>2. pc # "idle" /\ pc # "cbw" /\ pc # "data" /\ pc # "csw" /\ pc # "reset" /\ pc \notin {"clear_in", "clear_out"}
    BY DEF UsbInv, StageInv, AtIdle, AtCbw, AtData, AtCsw, AtReset, AtClear, AtControl
<1> QED BY <1>1, <1>2

LEMMA CommandAnswered ==
    ASSUME UsbInv, NEW code, code \in {"success", "error"}, ExecuteCommand(code), UNCHANGED deviceVars
    PROVE  UsbInv'
<1>1. UNCHANGED <<pc, scsi, next_tag, available, bounce, dma, short, device, task, request, result, touched>>
    BY DEF deviceVars
<1>2. CanExecute("command") /\ TransportInv
    BY DEF ExecuteCommand, UsbInv
<1>3. command # NotPending /\ transfer = NotPending
    BY <1>2, OnlyAwaited DEF UsbInv, DrivenInv
<1>4. PICK what : what = Offered("command").what
    OBVIOUS
<1>5. /\ TransportInv'
      /\ UNCHANGED <<ring, cursor, transfer, command, submitted>>
      /\ CommandCodes' = {"none", code}
      /\ Settled("command")'
      /\ hw'["control"] = hw["control"]
      /\ what \in {"reset_out", "dequeue_out"} => hw'["in"] = hw["in"]
      /\ what \in {"reset_in", "dequeue_in"} => hw'["out"] = hw["out"]
      /\ code # "success" => hw'["in"] = hw["in"] /\ hw'["out"] = hw["out"]
      /\ code = "success" =>
             /\ what = "reset_in" => hw'["in"] = ResetEndpoint("in")
             /\ what = "reset_out" => hw'["out"] = ResetEndpoint("out")
             /\ what = "dequeue_in" => hw'["in"] = SetDequeue("in")
             /\ what = "dequeue_out" => hw'["out"] = SetDequeue("out")
    BY <1>2, <1>3, <1>4, CommandExecuted
<1>6. BotTypes' /\ RequestInv' /\ DrivenInv'
    <2>1. dma' = [out |-> dma'.out, in |-> dma'.in, csw |-> dma'.csw]
        BY <1>1 DEF UsbInv, BotTypes
    <2> QED BY <1>1, <1>3, <1>5, <2>1, ControllerFrame
<1>7. \A w : Offers("command", w)'
    BY <1>5, OffersNothingNext, StageNames DEF OffersNothingNow
<1>8. Ready("control")' <=> Ready("control")
    BY <1>5, RingSame
<1>9. /\ Offers("command", "reset_in")' /\ Offers("command", "dequeue_in")'
       /\ Offers("command", "reset_out")' /\ Offers("command", "dequeue_out")'
    BY <1>7
<1>10. \A r \in Rings : hw'[r] = hw[r] => (Ready(r)' <=> Ready(r)) /\ (Halts(r)' <=> Halts(r))
    BY <1>5, RingSame
<1>11. "success" \in CommandCodes' => code = "success"
    BY <1>5
<1>12. /\ hw'["in"] = ResetEndpoint("in") => hw'["in"].state = "stopped"
       /\ hw'["in"] = SetDequeue("in") => hw'["in"].state = hw["in"].state /\ Quiet("in")'
       /\ hw'["out"] = ResetEndpoint("out") => hw'["out"].state = "stopped"
       /\ hw'["out"] = SetDequeue("out") => hw'["out"].state = hw["out"].state /\ Quiet("out")'
    BY <1>2, <1>5, EndpointCommanded, StageNames
<1>13. StageInv'
    <2>1. CASE ~available
        BY <1>1, <2>1, StageSuffices
    <2>2. CASE available /\ pc = "reset_in"
        <3>1. AtResetIn
            BY <2>2 DEF UsbInv, StageInv
        <3>2. what = "reset_in"
            BY <1>2, <1>4, <3>1 DEF AtResetIn, AtCommand, Offers
        <3>3. hw'["in"].state \in {"halted", "stopped"} /\ (code = "success" => hw'["in"].state = "stopped")
            BY <1>5, <1>12, <3>1, <3>2 DEF AtResetIn
        <3>4. AtCommand("reset_in")'
            BY <1>1, <1>3, <1>5, <1>8, <1>9, <3>1 DEF AtResetIn, AtCommand
        <3>5. Halts("out")'
            BY <1>5, <1>10, <3>1, <3>2, StageNames DEF AtResetIn
        <3>6. AtResetIn'
            BY <1>11, <3>3, <3>4, <3>5 DEF AtResetIn
        <3> QED BY <1>1, <2>2, <3>6, StageSuffices
    <2>3. CASE available /\ pc = "dequeue_in"
        <3>1. AtDequeueIn
            BY <2>3 DEF UsbInv, StageInv
        <3>2. what = "dequeue_in"
            BY <1>2, <1>4, <3>1 DEF AtDequeueIn, AtCommand, Offers
        <3>3. hw'["in"].state = "stopped" /\ (code = "success" => Ready("in")')
            BY <1>5, <1>12, <3>1, <3>2 DEF AtDequeueIn, Ready
        <3>4. AtCommand("dequeue_in")'
            BY <1>1, <1>3, <1>5, <1>8, <1>9, <3>1 DEF AtDequeueIn, AtCommand
        <3>5. Halts("out")'
            BY <1>5, <1>10, <3>1, <3>2, StageNames DEF AtDequeueIn
        <3>6. AtDequeueIn'
            BY <1>11, <3>3, <3>4, <3>5 DEF AtDequeueIn
        <3> QED BY <1>1, <2>3, <3>6, StageSuffices
    <2>4. CASE available /\ pc = "reset_out"
        <3>1. AtResetOut
            BY <2>4 DEF UsbInv, StageInv
        <3>2. what = "reset_out"
            BY <1>2, <1>4, <3>1 DEF AtResetOut, AtCommand, Offers
        <3>3. hw'["out"].state \in {"halted", "stopped"} /\ (code = "success" => hw'["out"].state = "stopped")
            BY <1>5, <1>12, <3>1, <3>2 DEF AtResetOut
        <3>4. AtCommand("reset_out")'
            BY <1>1, <1>3, <1>5, <1>8, <1>9, <3>1 DEF AtResetOut, AtCommand
        <3>5. Ready("in")'
            BY <1>5, <1>10, <3>1, <3>2, StageNames DEF AtResetOut
        <3>6. AtResetOut'
            BY <1>11, <3>3, <3>4, <3>5 DEF AtResetOut
        <3> QED BY <1>1, <2>4, <3>6, StageSuffices
    <2>5. CASE available /\ pc = "dequeue_out"
        <3>1. AtDequeueOut
            BY <2>5 DEF UsbInv, StageInv
        <3>2. what = "dequeue_out"
            BY <1>2, <1>4, <3>1 DEF AtDequeueOut, AtCommand, Offers
        <3>3. hw'["out"].state = "stopped" /\ (code = "success" => Ready("out")')
            BY <1>5, <1>12, <3>1, <3>2 DEF AtDequeueOut, Ready
        <3>4. AtCommand("dequeue_out")'
            BY <1>1, <1>3, <1>5, <1>8, <1>9, <3>1 DEF AtDequeueOut, AtCommand
        <3>5. Ready("in")'
            BY <1>5, <1>10, <3>1, <3>2, StageNames DEF AtDequeueOut
        <3>6. AtDequeueOut'
            BY <1>11, <3>3, <3>4, <3>5 DEF AtDequeueOut
        <3> QED BY <1>1, <2>5, <3>6, StageSuffices
    <2>6. available => pc \in {"reset_in", "dequeue_in", "reset_out", "dequeue_out"}
        BY <1>3, StageByCommand DEF CommandStages
    <2> QED BY <2>1, <2>2, <2>3, <2>4, <2>5, <2>6
<1> QED BY <1>5, <1>6, <1>13 DEF UsbInv

-----------------------------------------------------------------------------
(* The driver.                                                             *)

\* A finished command: only a full chunk is copied out.
LEMMA CommandReturns ==
    ASSUME UsbInv, NEW outcome, TaskReturns(outcome),
           task.name = "read" /\ outcome = "full" => bounce' = <<"read", request.block>>
    PROVE  /\ pc' = "idle"
           /\ request' \in [first : Nat, block : Nat, chunks : Int, output : Seq(Reads)]
           /\ RequestInv'
<1>1. pc' = "idle"
    BY DEF TaskReturns
<1>2. request \in [first : Nat, block : Nat, chunks : Int, output : Seq(Reads)]
    BY DEF UsbInv, BotTypes
<1>3. CASE request' = request
    <2>1. RequestInv'
        BY <1>1, <1>3 DEF UsbInv, RequestInv
    <2> QED BY <1>1, <1>2, <1>3, <2>1
<1>4. CASE task.name = "read" /\ outcome = "full"
            /\ request' = [request EXCEPT !.output = Append(@, bounce'), !.block = @ + 1, !.chunks = @ - 1]
    <2>1. PICK q, b : q = request /\ b = <<"read", request.block>>
        OBVIOUS
    <2>2. /\ q = [first |-> q.first, block |-> q.block, chunks |-> q.chunks, output |-> q.output]
          /\ q.first \in Nat /\ q.block \in Nat /\ q.chunks \in Int /\ q.output \in Seq(Reads)
        BY <1>2, <2>1
    <2>3. request' = [q EXCEPT !.output = Append(@, b), !.block = @ + 1, !.chunks = @ - 1]
        BY <1>4, <2>1
    <2>4. PICK o, m, n : o = Append(q.output, b) /\ m = q.block + 1 /\ n = q.chunks - 1
        OBVIOUS
    <2>5. [q EXCEPT !.output = Append(@, b), !.block = @ + 1, !.chunks = @ - 1]
              = [q EXCEPT !.output = o, !.block = m, !.chunks = n]
        BY ONLY <2>2, <2>4
    <2>6. PICK g : g = [q EXCEPT !.output = o, !.block = m, !.chunks = n]
        OBVIOUS
    <2>7. g = [first |-> g.first, block |-> g.block, chunks |-> g.chunks, output |-> g.output]
        BY ONLY <2>2, <2>6
    <2>8. g.first = q.first /\ g.block = m /\ g.chunks = n /\ g.output = o
        BY ONLY <2>2, <2>6
    <2>9. request' = g
        BY ONLY <2>3, <2>5, <2>6
    <2>10. b \in Reads
        BY <2>1, <2>2 DEF Reads
    <2>11. /\ o \in Seq(Reads) /\ Len(o) = Len(q.output) + 1
           /\ o[Len(q.output) + 1] = b /\ \A i \in 1..Len(q.output) : o[i] = q.output[i]
        BY <2>2, <2>4, <2>10, AppendProperties
    <2>12. Len(q.output) \in Nat /\ Len(q.output) = q.block - q.first
           /\ \A i \in 1..Len(q.output) : q.output[i] = <<"read", q.first + i - 1>>
        BY <2>1, <2>2, LenProperties DEF UsbInv, RequestInv
    <2>13. Len(o) = m - q.first
        BY ONLY <2>2, <2>4, <2>11, <2>12
    <2>14. \A i \in 1..Len(o) : o[i] = <<"read", q.first + i - 1>>
        <3>1. SUFFICES ASSUME NEW i \in 1..Len(o) PROVE o[i] = <<"read", q.first + i - 1>>
            OBVIOUS
        <3>2. i \in 1..Len(q.output) \/ i = Len(q.output) + 1
            BY ONLY <2>11, <2>12, i \in 1..Len(o)
        <3>3. CASE i \in 1..Len(q.output)
            BY <2>11, <2>12, <3>3
        <3>4. CASE i = Len(q.output) + 1
            <4>1. q.first + i - 1 = q.block
                BY ONLY <2>2, <2>12, <3>4
            <4> QED BY <2>1, <2>11, <3>4, <4>1
        <3> QED BY <3>2, <3>3, <3>4
    <2>15. request' \in [first : Nat, block : Nat, chunks : Int, output : Seq(Reads)]
        <3>1. m \in Nat /\ n \in Int
            BY ONLY <2>2, <2>4
        <3> QED BY <2>2, <2>7, <2>8, <2>9, <2>11, <3>1
    <2>16. RequestInv'
        BY <1>1, <2>8, <2>9, <2>13, <2>14 DEF RequestInv
    <2> QED BY <1>1, <2>15, <2>16
<1> QED BY <1>3, <1>4 DEF TaskReturns, ReadReturns

\* A recovery stage that ends the device, or any stage whose transfer stays.
LEMMA GivesUp ==
    ASSUME UsbInv, GiveUp, UNCHANGED <<ring, cursor, hw, eventRing, hwEvent, dequeue, submitted, dma>>,
           transfer' = transfer \/ (Done(transfer) /\ transfer' = NotPending),
           command' = command \/ (command.code # "none" /\ command' = NotPending)
    PROVE  UsbInv'
<1>1. TransportInv'
    BY PendingCleared DEF UsbInv
<1>2. available' = FALSE /\ TaskReturns("error")
    BY DEF GiveUp
<1>3. /\ pc' = "idle" /\ RequestInv'
      /\ request' \in [first : Nat, block : Nat, chunks : Int, output : Seq(Reads)]
    BY <1>2, CommandReturns
<1>4. BotTypes'
    BY <1>2, <1>3 DEF UsbInv, BotTypes, Stages
<1>5. DrivenInv'
    BY <1>3 DEF UsbInv, DrivenInv
<1>6. StageInv'
    BY <1>2, StageSuffices
<1> QED BY <1>1, <1>3, <1>4, <1>5, <1>6 DEF UsbInv

LEMMA ControlRoom == 2 < Usable["control"] /\ 2 \in Nat \ {0}
<1>1. Usable["control"] = ControlTrbs
    BY Zenon DEF Usable, Rings, Endpoints
<1> QED BY <1>1, TransportAssumption

\* A control transfer of the recovery, or the end of it.
LEMMA ControlPublished ==
    ASSUME UsbInv, available, NEW stage, stage \in {"reset", "clear_in", "clear_out"},
           stage # "reset" => device = NoScsi,
           Done(transfer), command = NotPending, Ready("control"), Halts("in"), Halts("out"),
           PublishControl(stage), UNCHANGED <<dma, device>>
    PROVE  UsbInv'
<1>1. CASE CanReserve("control", 2)
    <2>1. /\ SubmitTransfer("control", 2, stage) /\ pc' = stage
          /\ UNCHANGED <<available, scsi, task, request, result>>
        BY <1>1 DEF PublishControl
    <2>2. /\ TransportInv'
          /\ transfer'.owner = "control"
          /\ TransferCodes' = {"none"} /\ command' = command
          /\ Offered("control")'.what = stage
          /\ \A s \in Rings \ {"control"} : ring'[s] = ring[s] /\ cursor'[s] = cursor[s] /\ hw'[s] = hw[s]
        BY <1>1, <2>1, TransferSubmitted, ControlRoom, StageNames, ZenonT(60) DEF UsbInv
    <2>3. Halts("in")' /\ Halts("out")'
        BY <2>2, RingSame, StageNames
    <2>4. AtControl'
        BY <2>2, <2>3 DEF AtControl
    <2>5. stage = "reset" => AtReset'
        BY <2>2, <2>4 DEF AtReset, Offers
    <2>6. stage # "reset" => AtClear'
        BY <2>4 DEF AtClear
    <2>7. StageInv'
        BY <2>1, <2>5, <2>6, StageSuffices
    <2>8. BotTypes' /\ RequestInv'
        BY <2>1 DEF UsbInv, BotTypes, RequestInv, Stages
    <2>9. DrivenInv'
        BY <2>1, <2>2 DEF DrivenInv
    <2> QED BY <2>2, <2>7, <2>8, <2>9 DEF UsbInv
<1>2. CASE ~CanReserve("control", 2)
    BY <1>2, GivesUp DEF PublishControl, GiveUpWith
<1> QED BY <1>1, <1>2

\* A stage that failed: the recovery begins.
LEMMA Recovers ==
    ASSUME UsbInv, available, transfer.code # "none", command = NotPending,
           Ready("control"), Halts("in"), Halts("out"), Recover(NotPending), UNCHANGED <<dma, device>>
    PROVE  UsbInv'
BY ControlPublished, PendingOver DEF Recover, UsbInv

\* The endpoints that are still to be looked at may be halted.
LEMMA Synchronized ==
    ASSUME UsbInv, available, device = NoScsi, Done(transfer), Done(command), Ready("control"),
           NEW endpoints, endpoints \in SUBSET {"in", "out"}, "in" \in endpoints => "out" \in endpoints,
           \A r \in {"in", "out"} : IF r \in endpoints THEN Halts(r) ELSE Ready(r),
           Synchronize(endpoints), UNCHANGED <<dma, device, available>>
    PROVE  UsbInv'
<1>1. PICK halted : halted = {r \in endpoints : hw[r].state = "halted"}
    OBVIOUS
<1>2. \A r \in {"in", "out"} : r \notin halted => Ready(r)
    BY <1>1 DEF Halts
<1>3. Halts("out") /\ ("in" \in halted => hw["in"].state = "halted") /\ ("out" \in halted => hw["out"].state = "halted")
    BY <1>1 DEF Halts
<1>4. CASE halted = {}
    <2>1. /\ TaskReturns("error") /\ command' = NotPending /\ transfer' = NotPending
          /\ UNCHANGED <<ring, cursor, hw, eventRing, hwEvent, dequeue, submitted>>
        BY <1>1, <1>4 DEF Synchronize
    <2>2. TransportInv'
        BY <2>1, PendingCleared DEF UsbInv, Done
    <2>3. /\ pc' = "idle" /\ RequestInv'
          /\ request' \in [first : Nat, block : Nat, chunks : Int, output : Seq(Reads)]
        BY <2>1, CommandReturns
    <2>4. BotTypes'
        BY <2>3 DEF UsbInv, BotTypes, Stages
    <2>5. Ready("in")' /\ Ready("out")' /\ Ready("control")'
        BY <1>2, <1>4, <2>1, RingSame
    <2>6. AtIdle'
        BY <2>1, <2>5 DEF AtIdle
    <2>7. StageInv' /\ DrivenInv'
        BY <2>1, <2>3, <2>6, StageSuffices DEF DrivenInv
    <2> QED BY <2>2, <2>3, <2>4, <2>7 DEF UsbInv
<1>5. CASE halted # {}
    <2>1. PICK stage : stage = IF "in" \in halted THEN "reset_in" ELSE "reset_out"
        OBVIOUS
    <2>2. /\ SubmitCommand(stage) /\ transfer' = NotPending /\ pc' = stage
          /\ UNCHANGED <<available, scsi, task, request, result>>
        BY <1>1, <1>5, <2>1 DEF Synchronize
    <2>3. /\ TransportInv'
          /\ command'.owner = "command"
          /\ CommandCodes' = {"none"}
          /\ Offered("command")'.what = stage
          /\ \A s \in Endpoints : ring'[s] = ring[s] /\ cursor'[s] = cursor[s] /\ hw'[s] = hw[s]
        BY <2>2, CommandSubmitted DEF UsbInv
    <2>4. /\ Ready("control")' /\ (Ready("in") => Ready("in")') /\ Halts("out")'
          /\ hw'["in"] = hw["in"] /\ hw'["out"] = hw["out"]
        BY <1>3, <2>3, RingSame, StageNames
    <2>5. BotTypes' /\ RequestInv' /\ DrivenInv'
        <3>1. pc' \in Stages /\ pc' \notin {"cbw", "data", "csw"}
            BY <2>1, <2>2 DEF Stages, CommandStages
        <3>2. BotTypes'
            BY <2>2, <3>1 DEF UsbInv, BotTypes
        <3>3. RequestInv'
            BY <2>2, <3>1 DEF UsbInv, RequestInv
        <3>4. DrivenInv'
            BY <2>2 DEF DrivenInv
        <3> QED BY <3>2, <3>3, <3>4
    <2>6. CASE "in" \in halted
        <3>1. AtCommand("reset_in")'
            BY <2>1, <2>2, <2>3, <2>4, <2>6 DEF AtCommand, Offers
        <3>2. AtResetIn'
            BY <1>3, <2>3, <2>4, <2>6, <3>1 DEF AtResetIn
        <3> QED BY <2>1, <2>2, <2>3, <2>5, <2>6, <3>2, StageSuffices DEF UsbInv
    <2>7. CASE "in" \notin halted
        <3>1. AtCommand("reset_out")'
            BY <2>1, <2>2, <2>3, <2>4, <2>7 DEF AtCommand, Offers
        <3>2. "out" \in halted /\ Ready("in")
            BY <1>1, <1>2, <1>5, <2>7
        <3>3. AtResetOut'
            BY <1>3, <2>3, <2>4, <3>1, <3>2 DEF AtResetOut
        <3> QED BY <2>1, <2>2, <2>3, <2>5, <2>7, <3>3, StageSuffices DEF UsbInv
    <2> QED BY <2>6, <2>7
<1> QED BY <1>4, <1>5

\* read_blocks begins with nothing copied.
LEMMA ReadBegins ==
    ASSUME UsbInv, NEW block \in Blocks, NEW chunks \in 1..MaxChunks, ReadBlocks(block, chunks)
    PROVE  UsbInv'
<1>1. /\ pc = "idle" /\ request' = [first |-> block, block |-> block, chunks |-> chunks, output |-> <<>>]
      /\ UNCHANGED <<ring, cursor, hw, eventRing, hwEvent, dequeue, command, transfer, submitted>>
      /\ UNCHANGED <<pc, scsi, available, dma, device>>
    BY DEF ReadBlocks, Driving, transportVars
<1>2. TransportInv'
    BY <1>1, PendingCleared DEF UsbInv
<1>3. BotTypes'
    <2>1. block \in Nat /\ chunks \in Int /\ <<>> \in Seq(Reads)
        BY StorageAssumption, EmptySeq
    <2>2. request' \in [first : Nat, block : Nat, chunks : Int, output : Seq(Reads)]
        BY <1>1, <2>1
    <2> QED BY <1>1, <2>2 DEF UsbInv, BotTypes
<1>4. RequestInv'
    <2>1. block - block = 0
        BY StorageAssumption
    <2> QED BY <1>1, <2>1 DEF RequestInv
<1>5. available => AtIdle'
    <2>1. available => AtIdle
        BY <1>1 DEF UsbInv, StageInv
    <2>2. /\ Ready("in")' <=> Ready("in")
          /\ Ready("out")' <=> Ready("out")
          /\ Ready("control")' <=> Ready("control")
        BY <1>1, RingSame
    <2> QED BY <1>1, <2>1, <2>2 DEF AtIdle
<1>6. StageInv'
    BY <1>1, <1>5, StageSuffices
<1>7. DrivenInv'
    BY <1>1 DEF UsbInv, DrivenInv
<1> QED BY <1>2, <1>3, <1>4, <1>6, <1>7 DEF UsbInv

\* A transfer of the bulk endpoints once the last one is over.
LEMMA BulkSubmitted ==
    ASSUME UsbInv, Done(transfer), command = NotPending, NEW r \in {"in", "out"}, Ready(r), NEW what,
           SubmitTransfer(r, 1, what)
    PROVE  /\ TransportInv'
           /\ transfer'.owner = r /\ TransferCodes' = {"none"} /\ command' = NotPending
           /\ Offers(r, what)'
           /\ r # "in" => (Ready("in")' <=> Ready("in"))
           /\ r # "out" => (Ready("out")' <=> Ready("out"))
           /\ Ready("control")' <=> Ready("control")
<1>1. r \in Endpoints /\ r \in Rings /\ RingTypes /\ RingShape(r)
    BY StageNames DEF UsbInv, TransportInv
<1>2. 1 < Usable[r] /\ CanReserve(r, 1) /\ 1 \in Nat \ {0}
    BY <1>1, RoomForOne
<1>3. /\ TransportInv'
      /\ transfer'.owner = r /\ TransferCodes' = {"none"} /\ command' = command
      /\ Offered(r)'.what = what
      /\ \A s \in Rings \ {r} : ring'[s] = ring[s] /\ cursor'[s] = cursor[s] /\ hw'[s] = hw[s]
    BY <1>1, <1>2, TransferSubmitted DEF UsbInv
<1>4. r # "in" => (Ready("in")' <=> Ready("in"))
    BY <1>3, RingSame, StageNames
<1>5. r # "out" => (Ready("out")' <=> Ready("out"))
    BY <1>3, RingSame, StageNames
<1>6. Ready("control")' <=> Ready("control")
    BY <1>3, RingSame, StageNames
<1>7. Offers(r, what)'
    BY <1>3 DEF Offers
<1> QED BY <1>3, <1>4, <1>5, <1>6, <1>7

\* A command begins with the CBW on an idle transport.
LEMMA CommandBegins == ASSUME UsbInv, ExecuteWith PROVE UsbInv'
<1>1. PICK s : s = [name |-> task.name, block |-> request.block, tag |-> next_tag]
    OBVIOUS
<1>2. /\ pc = "idle" /\ available
      /\ dma' = [dma EXCEPT !.out = s] /\ UNCHANGED device
      /\ IF transfer = NotPending
         THEN /\ SubmitTransfer("out", 1, "out") /\ pc' = "cbw" /\ scsi' = s
              /\ UNCHANGED <<available, task, request, result>>
         ELSE Recover(transfer)
    BY <1>1 DEF ExecuteWith, Driving
<1>3. AtIdle
    BY <1>2 DEF UsbInv, StageInv
<1>4. /\ SubmitTransfer("out", 1, "out") /\ pc' = "cbw" /\ scsi' = s
      /\ UNCHANGED <<available, task, request, result>>
    BY <1>2, <1>3 DEF AtIdle
<1>5. Done(transfer) /\ command = NotPending /\ Ready("out") /\ Ready("in") /\ Ready("control") /\ device = NoScsi
    BY <1>3 DEF AtIdle, Done
<1>6. /\ TransportInv'
      /\ transfer'.owner = "out" /\ command' = NotPending
      /\ Ready("in")' /\ Ready("control")'
    BY <1>4, <1>5, BulkSubmitted
<1>7. dma'.out = s /\ dma' = [out |-> dma'.out, in |-> dma'.in, csw |-> dma'.csw]
    <2>1. dma = [out |-> dma.out, in |-> dma.in, csw |-> dma.csw]
        BY DEF UsbInv, BotTypes
    <2> QED BY ONLY <1>2, <2>1
<1>8. AtCbw'
    BY <1>2, <1>4, <1>5, <1>6, <1>7 DEF AtCbw
<1>9. StageInv' /\ DrivenInv'
    BY <1>2, <1>4, <1>6, <1>8, StageSuffices DEF DrivenInv
<1>10. BotTypes'
    BY <1>2, <1>4, <1>7 DEF UsbInv, BotTypes, Stages
<1>11. RequestInv'
    BY <1>1, <1>4 DEF UsbInv, RequestInv
<1> QED BY <1>6, <1>9, <1>10, <1>11 DEF UsbInv

LEMMA CommandRefused == ASSUME UsbInv, ExecuteUnavailable PROVE UsbInv'
<1>1. /\ ~available /\ TaskReturns("error") /\ UNCHANGED <<available, dma>>
      /\ UNCHANGED <<ring, cursor, hw, eventRing, hwEvent, dequeue, command, transfer, submitted>>
    BY DEF ExecuteUnavailable, transportVars
<1>2. TransportInv'
    BY <1>1, PendingCleared DEF UsbInv
<1>3. /\ pc' = "idle" /\ RequestInv'
      /\ request' \in [first : Nat, block : Nat, chunks : Int, output : Seq(Reads)]
    BY <1>1, CommandReturns
<1>4. BotTypes'
    BY <1>1, <1>3 DEF UsbInv, BotTypes, Stages
<1>5. DrivenInv' /\ StageInv'
    BY <1>1, <1>3, StageSuffices DEF UsbInv, DrivenInv
<1> QED BY <1>2, <1>3, <1>4, <1>5 DEF UsbInv

\* The data or the status stage is published on bulk IN.
LEMMA StatusPublished ==
    ASSUME UsbInv, available, Done(transfer), command = NotPending,
           Ready("in"), Ready("out"), Ready("control"), device \in {NoScsi, scsi},
           pc \in {"cbw", "data"}, PublishCsw, UNCHANGED <<available, scsi, task, request, device>>,
           HasData(scsi) /\ ~short' => bounce' = DataOf(scsi)
    PROVE  UsbInv'
<1>1. dma' = [dma EXCEPT !.csw = NoStatus] /\ SubmitTransfer("in", 1, "csw") /\ pc' = "csw"
    BY DEF PublishCsw
<1>2. /\ TransportInv'
      /\ transfer'.owner = "in" /\ TransferCodes' = {"none"} /\ command' = NotPending
      /\ Offers("in", "csw")' /\ Ready("out")' /\ Ready("control")'
    BY <1>1, BulkSubmitted
<1>3. dma' = [out |-> dma'.out, in |-> dma'.in, csw |-> dma'.csw]
    <2>1. dma = [out |-> dma.out, in |-> dma.in, csw |-> dma.csw]
        BY DEF UsbInv, BotTypes
    <2> QED BY ONLY <1>1, <2>1
<1>4. AtCsw'
    BY <1>2 DEF AtCsw, HasData, DataOf
<1>5. StageInv' /\ DrivenInv'
    BY <1>1, <1>2, <1>4, StageSuffices DEF DrivenInv
<1>6. BotTypes'
    BY <1>1, <1>3 DEF UsbInv, BotTypes, Stages
<1>7. RequestInv'
    BY DEF UsbInv, RequestInv
<1> QED BY <1>2, <1>5, <1>6, <1>7 DEF UsbInv

LEMMA CbwOver == ASSUME UsbInv, CbwDone PROVE UsbInv'
<1>1. pc = "cbw" /\ transfer.code # "none" /\ UNCHANGED <<bounce, short, device>>
    BY DEF CbwDone, Completed
<1>2. available
    BY <1>1 DEF UsbInv, DrivenInv
<1>3. AtCbw
    BY <1>1, <1>2 DEF UsbInv, StageInv
<1>4. /\ Done(transfer) /\ Halts("out") /\ (transfer.code # "stall" => Ready("out"))
      /\ command = NotPending /\ Ready("in") /\ Ready("control") /\ device \in {NoScsi, scsi}
    BY <1>1, <1>3, PendingOver DEF UsbInv, AtCbw
<1>5. CASE transfer.code = "success" /\ HasData(scsi)
    <2>1. /\ dma' = [dma EXCEPT !.in = Zeroed] /\ SubmitTransfer("in", 1, "in") /\ pc' = "data"
          /\ UNCHANGED <<available, scsi, task, request, result>>
        BY <1>5 DEF CbwDone, PublishData
    <2>2. /\ TransportInv'
          /\ transfer'.owner = "in" /\ TransferCodes' = {"none"} /\ command' = NotPending
          /\ Offers("in", "in")' /\ Ready("out")' /\ Ready("control")'
        BY <1>4, <1>5, <2>1, BulkSubmitted
    <2>3. dma' = [out |-> dma'.out, in |-> dma'.in, csw |-> dma'.csw]
        <3>1. dma = [out |-> dma.out, in |-> dma.in, csw |-> dma.csw]
            BY DEF UsbInv, BotTypes
        <3> QED BY ONLY <2>1, <3>1
    <2>4. AtData'
        BY <1>1, <1>4, <2>1, <2>2 DEF AtData
    <2>5. StageInv' /\ DrivenInv'
        BY <1>2, <2>1, <2>2, <2>4, StageSuffices DEF DrivenInv
    <2>6. BotTypes'
        BY <2>1, <2>3 DEF UsbInv, BotTypes, Stages
    <2>7. RequestInv'
        BY <1>1, <2>1 DEF UsbInv, RequestInv
    <2> QED BY <2>2, <2>5, <2>6, <2>7 DEF UsbInv
<1>6. CASE transfer.code = "success" /\ ~HasData(scsi)
    <2>1. PublishCsw /\ UNCHANGED <<available, scsi, task, request, result>>
        BY <1>6 DEF CbwDone
    <2> QED BY <1>1, <1>2, <1>4, <1>6, <2>1, StatusPublished
<1>7. CASE transfer.code # "success"
    <2>1. Recover(NotPending) /\ UNCHANGED dma
        BY <1>7 DEF CbwDone
    <2>2. Halts("in")
        BY <1>4 DEF Halts
    <2> QED BY <1>1, <1>2, <1>4, <2>1, <2>2, Recovers
<1> QED BY <1>5, <1>6, <1>7

LEMMA DataOver == ASSUME UsbInv, DataDone PROVE UsbInv'
<1>1. pc = "data" /\ transfer.code # "none" /\ UNCHANGED device
    BY DEF DataDone, Completed
<1>2. available
    BY <1>1 DEF UsbInv, DrivenInv
<1>3. AtData
    BY <1>1, <1>2 DEF UsbInv, StageInv
<1>4. /\ Done(transfer) /\ Halts("in") /\ (transfer.code # "stall" => Ready("in"))
      /\ command = NotPending /\ Ready("out") /\ Ready("control") /\ device \in {NoScsi, scsi}
    BY <1>1, <1>3, PendingOver DEF UsbInv, AtData
<1>5. CASE Good
    <2>1. /\ bounce' = dma.in /\ short' = (transfer.code = "short") /\ PublishCsw
          /\ UNCHANGED <<available, scsi, task, request, result>>
        BY <1>5 DEF DataDone
    <2>2. ~short' => transfer.code = "success"
        BY <1>5, <2>1 DEF Good
    <2>3. transfer.code = "success" => dma.in = DataOf(scsi)
        BY <1>3 DEF AtData, TransferCodes
    <2>4. Ready("in")
        BY <1>4, <1>5 DEF Good
    <2> QED BY <1>1, <1>2, <1>4, <2>1, <2>2, <2>3, <2>4, StatusPublished
<1>6. CASE ~Good
    <2>1. Recover(NotPending) /\ UNCHANGED dma
        BY <1>6 DEF DataDone
    <2>2. Halts("out")
        BY <1>4 DEF Halts
    <2> QED BY <1>1, <1>2, <1>4, <2>1, <2>2, Recovers
<1> QED BY <1>5, <1>6

\* A command that is over leaves an idle transport and nothing with the
\* device; only the data of this very command reach the output.
LEMMA StatusOver == ASSUME UsbInv, CswDone PROVE UsbInv'
<1>1. pc = "csw" /\ transfer.code # "none" /\ UNCHANGED <<bounce, dma, short, device>>
    BY DEF CswDone, Completed
<1>2. available
    BY <1>1 DEF UsbInv, DrivenInv
<1>3. AtCsw
    BY <1>1, <1>2 DEF UsbInv, StageInv
<1>4. /\ Done(transfer) /\ Halts("in") /\ (transfer.code # "stall" => Ready("in"))
      /\ command = NotPending /\ Ready("out") /\ Ready("control") /\ device \in {NoScsi, scsi}
    BY <1>1, <1>3, PendingOver DEF UsbInv, AtCsw
<1>5. CASE transfer.code = "success" /\ CswValid /\ dma.csw.status # "phase_error"
    <2>1. /\ TaskReturns(Outcome) /\ transfer' = NotPending
          /\ UNCHANGED <<ring, cursor, hw, eventRing, hwEvent, dequeue, command, submitted, available>>
        BY <1>5 DEF CswDone
    <2>2. Outcome = "full" => ~short
        BY Zenon DEF Outcome
    <2>3. task.name = "read" => HasData(scsi) /\ DataOf(scsi) = <<"read", request.block>>
        BY <1>1 DEF UsbInv, RequestInv, HasData, DataOf
    <2>4. task.name = "read" /\ Outcome = "full" => bounce' = <<"read", request.block>>
        BY <1>1, <1>3, <2>2, <2>3 DEF AtCsw
    <2>5. /\ pc' = "idle" /\ RequestInv'
          /\ request' \in [first : Nat, block : Nat, chunks : Int, output : Seq(Reads)]
        BY <2>1, <2>4, CommandReturns
    <2>6. TransportInv'
        BY <1>4, <2>1, PendingCleared DEF UsbInv
    <2>7. Ready("in")' /\ Ready("out")' /\ Ready("control")'
        BY <1>4, <1>5, <2>1, RingSame
    <2>8. device = NoScsi
        BY <1>3, <1>5 DEF AtCsw, TransferCodes
    <2>9. AtIdle'
        BY <1>1, <1>4, <2>1, <2>7, <2>8 DEF AtIdle
    <2>10. StageInv' /\ DrivenInv'
        BY <1>2, <2>1, <2>5, <2>9, StageSuffices DEF DrivenInv
    <2>11. BotTypes'
        BY <1>1, <2>1, <2>5 DEF UsbInv, BotTypes, Stages
    <2> QED BY <2>5, <2>6, <2>10, <2>11 DEF UsbInv
<1>6. CASE ~(transfer.code = "success" /\ CswValid /\ dma.csw.status # "phase_error")
    <2>1. Recover(NotPending)
        BY <1>6 DEF CswDone
    <2>2. Halts("out")
        BY <1>4 DEF Halts
    <2> QED BY <1>1, <1>2, <1>4, <2>1, <2>2, Recovers
<1> QED BY <1>5, <1>6

LEMMA ControlOver == ASSUME UsbInv, ControlDone PROVE UsbInv'
<1>1. /\ pc \in {"reset", "clear_in", "clear_out"} /\ transfer.code # "none"
      /\ UNCHANGED <<dma, device>>
    BY DEF ControlDone, Completed
<1>2. available
    BY <1>1 DEF UsbInv, DrivenInv
<1>3. /\ pc = "reset" => AtReset
      /\ pc # "reset" => AtClear
    BY <1>1, <1>2 DEF UsbInv, StageInv
<1>4. AtControl
    BY <1>3 DEF AtReset, AtClear
<1>5. /\ Done(transfer) /\ (transfer.code # "stall" => Ready("control"))
      /\ command = NotPending /\ Done(command) /\ Halts("in") /\ Halts("out")
    BY <1>1, <1>4, PendingOver DEF UsbInv, AtControl, Done
<1>6. Good => device = NoScsi /\ Ready("control")
    BY <1>3, <1>5 DEF AtReset, AtClear, Good, TransferCodes
<1>7. CASE Good /\ pc = "clear_out"
    <2>1. Synchronize({"in", "out"}) /\ UNCHANGED available
        BY <1>7 DEF ControlDone
    <2> QED BY <1>1, <1>2, <1>5, <1>6, <1>7, <2>1, Synchronized
<1>8. CASE Good /\ pc \in {"reset", "clear_in"}
    <2>1. PICK stage : stage = IF pc = "reset" THEN "clear_in" ELSE "clear_out"
        OBVIOUS
    <2>2. PublishControl(stage)
        BY <1>8, <2>1 DEF ControlDone
    <2> QED BY <1>1, <1>2, <1>5, <1>6, <1>8, <2>1, <2>2, ControlPublished
<1>9. CASE ~Good
    <2>1. GiveUpWith(NotPending)
        BY <1>9 DEF ControlDone
    <2> QED BY <1>1, <1>5, <2>1, GivesUp DEF GiveUpWith
<1> QED BY <1>1, <1>7, <1>8, <1>9

\* An endpoint that was reset gets its dequeue pointer.
LEMMA CommandOver == ASSUME UsbInv, CommandDone PROVE UsbInv'
<1>1. pc \in CommandStages /\ command.code # "none" /\ UNCHANGED <<dma, device>>
    BY DEF CommandDone
<1>2. pc # "idle" /\ available
    BY <1>1, StageNames DEF UsbInv, DrivenInv
<1>3. /\ pc = "reset_in" => AtResetIn
      /\ pc = "dequeue_in" => AtDequeueIn
      /\ pc = "reset_out" => AtResetOut
      /\ pc = "dequeue_out" => AtDequeueOut
    BY <1>2 DEF UsbInv, StageInv
<1>4. transfer = NotPending /\ Ready("control") /\ device = NoScsi
    BY <1>1, <1>3 DEF CommandStages, AtResetIn, AtResetOut, AtDequeueIn, AtDequeueOut, AtCommand
<1>5. Done(transfer) /\ Done(command) /\ TransportInv
    BY <1>1, <1>4, PendingOver DEF UsbInv, Done
<1>6. command.code = "success" => "success" \in CommandCodes
    BY DEF CommandCodes
<1>7. ASSUME command.code = "success", pc \in {"reset_in", "reset_out"} PROVE UsbInv'
    <2>1. PICK stage : stage = IF pc = "reset_in" THEN "dequeue_in" ELSE "dequeue_out"
        OBVIOUS
    <2>2. /\ SubmitCommand(stage) /\ pc' = stage
          /\ UNCHANGED <<transfer, available, scsi, task, request, result>>
        BY <1>7, <2>1 DEF CommandDone
    <2>3. /\ TransportInv'
          /\ command'.owner = "command"
          /\ CommandCodes' = {"none"}
          /\ Offered("command")'.what = stage
          /\ \A s \in Endpoints : ring'[s] = ring[s] /\ cursor'[s] = cursor[s] /\ hw'[s] = hw[s]
        BY <1>5, <2>2, CommandSubmitted
    <2>4. /\ Ready("control")' /\ (Ready("in") => Ready("in")') /\ (Halts("out") => Halts("out")')
          /\ hw'["in"] = hw["in"] /\ hw'["out"] = hw["out"]
        BY <1>4, <2>3, RingSame, StageNames
    <2>5. AtCommand(stage)'
        BY <1>1, <1>4, <2>2, <2>3, <2>4 DEF AtCommand, Offers
    <2>6. BotTypes' /\ RequestInv' /\ DrivenInv'
        <3>1. pc' \in Stages /\ pc' \notin {"cbw", "data", "csw"}
            BY <2>1, <2>2 DEF Stages, CommandStages
        <3>2. BotTypes'
            BY <1>1, <2>2, <3>1 DEF UsbInv, BotTypes
        <3>3. RequestInv'
            BY <2>2, <3>1 DEF UsbInv, RequestInv
        <3>4. DrivenInv'
            BY <1>2, <1>4, <2>2 DEF DrivenInv
        <3> QED BY <3>2, <3>3, <3>4
    <2>7. CASE pc = "reset_in"
        <3>1. AtResetIn /\ stage = "dequeue_in"
            BY <1>3, <2>1, <2>7
        <3>2. hw'["in"].state = "stopped" /\ Halts("out")'
            BY <1>6, <1>7, <2>4, <3>1 DEF AtResetIn
        <3>3. AtDequeueIn'
            BY <2>3, <2>5, <3>1, <3>2 DEF AtDequeueIn
        <3>4. StageInv'
            BY <2>2, <3>1, <3>3, StageSuffices
        <3> QED BY <2>3, <2>6, <3>4 DEF UsbInv
    <2>8. CASE pc = "reset_out"
        <3>1. AtResetOut /\ stage = "dequeue_out"
            BY <1>3, <2>1, <2>8
        <3>2. hw'["out"].state = "stopped" /\ Ready("in")'
            BY <1>6, <1>7, <2>4, <3>1 DEF AtResetOut
        <3>3. AtDequeueOut'
            BY <2>3, <2>5, <3>1, <3>2 DEF AtDequeueOut
        <3>4. StageInv'
            BY <2>2, <3>1, <3>3, StageSuffices
        <3> QED BY <2>3, <2>6, <3>4 DEF UsbInv
    <2> QED BY <1>7, <2>7, <2>8
<1>8. ASSUME command.code = "success", pc \in {"dequeue_in", "dequeue_out"} PROVE UsbInv'
    <2>1. PICK endpoints : endpoints = IF pc = "dequeue_in" THEN {"out"} ELSE {}
        OBVIOUS
    <2>2. Synchronize(endpoints) /\ UNCHANGED available
        BY <1>8, <2>1 DEF CommandDone
    <2>3. CASE pc = "dequeue_in"
        <3>1. Ready("in") /\ Halts("out") /\ endpoints = {"out"}
            BY <1>3, <1>6, <1>8, <2>1, <2>3 DEF AtDequeueIn
        <3> QED BY <1>1, <1>2, <1>4, <1>5, <2>2, <3>1, Synchronized
    <2>4. CASE pc = "dequeue_out"
        <3>1. Ready("in") /\ Ready("out") /\ endpoints = {}
            BY <1>3, <1>6, <1>8, <2>1, <2>4 DEF AtDequeueOut
        <3> QED BY <1>1, <1>2, <1>4, <1>5, <2>2, <3>1, Synchronized
    <2> QED BY <1>8, <2>3, <2>4
<1>9. ASSUME command.code # "success" PROVE UsbInv'
    <2>1. /\ GiveUp /\ command' = NotPending
          /\ UNCHANGED <<ring, cursor, hw, eventRing, hwEvent, dequeue, transfer, submitted>>
        BY <1>9 DEF CommandDone
    <2> QED BY <1>1, <2>1, GivesUp
<1> QED BY <1>1, <1>7, <1>8, <1>9 DEF CommandStages

\* A stage that times out leaves its transfer or command pending, and ends
\* the device.
LEMMA StageTimesOut == ASSUME UsbInv, TimesOut PROVE UsbInv'
<1>1. pc # "idle" /\ UNCHANGED dma
    BY DEF TimesOut, Expired, Driving
<1>2. available
    BY <1>1 DEF UsbInv, DrivenInv
<1>3. pc \in {"cbw", "data", "csw"} => transfer # NotPending
    BY <1>2, StageNames DEF UsbInv, StageInv, AtCbw, AtData, AtCsw
<1>4. GiveUpWith(transfer)
    BY <1>3 DEF TimesOut, Recover
<1> QED BY <1>1, <1>4, GivesUp DEF GiveUpWith

-----------------------------------------------------------------------------
(* The specification.                                                      *)

LEMMA DriverStep == ASSUME UsbInv, Driver PROVE UsbInv'
<1>1. ASSUME NEW block \in Blocks, NEW chunks \in 1..MaxChunks, ReadBlocks(block, chunks) PROVE UsbInv'
    BY <1>1, ReadBegins
<1>2. CASE ExecuteWith
    BY <1>2, CommandBegins
<1>3. CASE ExecuteUnavailable
    BY <1>3, CommandRefused
<1>4. CASE DispatchEvent
    BY <1>4, EventTurn
<1>5. CASE CbwDone
    BY <1>5, CbwOver
<1>6. CASE DataDone
    BY <1>6, DataOver
<1>7. CASE CswDone
    BY <1>7, StatusOver
<1>8. CASE ControlDone
    BY <1>8, ControlOver
<1>9. CASE CommandDone
    BY <1>9, CommandOver
<1>10. CASE TimesOut
    BY <1>10, StageTimesOut
<1> QED BY <1>1, <1>2, <1>3, <1>4, <1>5, <1>6, <1>7, <1>8, <1>9, <1>10 DEF Driver

LEMMA ControllerStep == ASSUME UsbInv, Controller PROVE UsbInv'
<1>1. ASSUME NEW code, code \in {"success", "short", "stall", "error"}, DeviceTakesCbw(code) PROVE UsbInv'
    BY <1>1, CbwTaken
<1>2. ASSUME NEW code, DeviceSendsData(code) PROVE UsbInv'
    BY <1>2, DataSent
<1>3. ASSUME NEW status, DeviceSendsStatus(status) PROVE UsbInv'
    BY <1>3, StatusSent
<1>4. ASSUME NEW code, code \in {"short", "stall", "error"}, DeviceFails(code) PROVE UsbInv'
    BY <1>4, InFailed
<1>5. ASSUME NEW code, code \in {"success", "stall"}, DeviceControl(code) PROVE UsbInv'
    BY <1>5, ControlAnswered
<1>6. ASSUME NEW code, code \in {"success", "error"}, ExecuteCommand(code), UNCHANGED deviceVars PROVE UsbInv'
    BY <1>6, CommandAnswered
<1>7. ASSUME PostPortChange, UNCHANGED deviceVars PROVE UsbInv'
    BY <1>7, PortChanged
<1>8. CASE Answers
    BY <1>1, <1>2, <1>3, <1>5, <1>6, <1>8 DEF Answers
<1>9. CASE Misbehaves
    BY <1>1, <1>2, <1>3, <1>4, <1>5, <1>6, <1>7, <1>9 DEF Misbehaves
<1> QED BY <1>8, <1>9 DEF Controller

LEMMA UsbStep == ASSUME UsbInv, [UsbNext]_usbVars PROVE UsbInv'
<1>1. CASE UsbNext
    BY <1>1, DriverStep, ControllerStep DEF UsbNext
<1>2. CASE UNCHANGED usbVars
    <2>1. /\ UNCHANGED <<ring, cursor, hw, eventRing, hwEvent, dequeue, command, transfer, submitted>>
          /\ UNCHANGED <<pc, scsi, available, bounce, dma, short, device, task, request>>
        BY <1>2 DEF usbVars, transportVars, botVars
    <2>2. TransportInv'
        BY <2>1, PendingCleared DEF UsbInv
    <2>3. TransferCodes' = TransferCodes /\ CommandCodes' = CommandCodes
        BY <2>1 DEF TransferCodes, CommandCodes, UnreadOf, Unread
    <2>4. StageInv'
        BY <2>1, <2>3, StagesKept DEF UsbInv
    <2>5. BotTypes' /\ RequestInv' /\ DrivenInv'
        BY <2>1 DEF UsbInv, BotTypes, RequestInv, DrivenInv
    <2> QED BY <2>2, <2>4, <2>5 DEF UsbInv
<1> QED BY <1>1, <1>2

\* Behind a controller that has caught up with both bulk endpoints, no TD
\* can be taken again, whatever is left in the rings.
LEMMA NothingOwned == ASSUME UsbInv, Ready("in"), Ready("out") PROVE Owned = {}
<1>1. ASSUME NEW r \in {"in", "out"}, NEW i \in 0..BulkTrbs - 1, Ready(r), MayExecute(r, i) PROVE FALSE
    <2>1. r \in Rings /\ RingTypes /\ RingShape(r)
        BY StageNames DEF UsbInv, TransportInv
    <2>2. PICK c, y : c = cursor[r].index /\ y = cursor[r].cycle
        OBVIOUS
    <2>3. c \in Nat /\ y \in BOOLEAN /\ Stands(r, c, y)
        BY <1>1, <2>1, <2>2, RingFields DEF Ready, Quiet
    <2>4. Position(r).index = c /\ Position(r).cycle = y
        BY <2>1, <2>3, StandsPosition
    <2>5. Usable[r] = BulkTrbs
        <3>1. "in" # "control" /\ "in" # "command" /\ "out" # "control" /\ "out" # "command"
            OBVIOUS
        <3>2. Usable["in"] = BulkTrbs /\ Usable["out"] = BulkTrbs
            BY <3>1, Zenon DEF Usable, Rings, Endpoints
        <3> QED BY <3>2
    <2>6. /\ i < c => ring[r][i].cycle = y
          /\ i >= c => ring[r][i].cycle = Flip(y)
        BY <2>1, <2>2, <2>5 DEF RingShape
    <2>7. i < c => ~(i >= c)
        BY <2>3
    <2>8. i >= c \/ i < c
        BY <2>3
    <2>9. CASE i >= c
        <3>1. ring[r][i].cycle = y
            BY <1>1, <2>4, <2>9 DEF MayExecute
        <3> QED BY <2>3, <2>6, <2>9, <3>1, FlipFacts
    <2>10. CASE i < c
        BY <1>1, <2>4, <2>6, <2>7, <2>10 DEF MayExecute
    <2> QED BY <2>8, <2>9, <2>10
<1> QED BY <1>1 DEF Owned

\* A driver step that touches DMA memory comes when nothing is owned.
LEMMA TouchesOwn ==
    ASSUME UsbInv, UsbNext
    PROVE  touched' \cap Owned = {} \/ (touched' = touched /\ submitted' = submitted)
<1>1. ASSUME Ready("in"), Ready("out") PROVE touched' \cap Owned = {}
    BY <1>1, NothingOwned
<1>2. touched' = {} => touched' \cap Owned = {}
    OBVIOUS
<1>3. CASE ExecuteWith
    <2>1. AtIdle
        BY <1>3 DEF ExecuteWith, Driving, UsbInv, StageInv
    <2> QED BY <1>1, <2>1 DEF AtIdle
<1>4. pc # "idle" => available
    BY DEF UsbInv, DrivenInv
<1>5. CASE CbwDone
    <2>1. AtCbw /\ transfer.code # "none"
        BY <1>4, <1>5 DEF CbwDone, Completed, UsbInv, StageInv
    <2>2. CASE transfer.code = "success"
        BY <1>1, <2>1, <2>2, PendingOver DEF AtCbw, UsbInv
    <2> QED BY <1>2, <1>5, <2>2 DEF CbwDone
<1>6. CASE DataDone
    <2>1. AtData /\ transfer.code # "none"
        BY <1>4, <1>6 DEF DataDone, Completed, UsbInv, StageInv
    <2>2. CASE Good
        BY <1>1, <2>1, <2>2, PendingOver DEF AtData, UsbInv, Good
    <2> QED BY <1>2, <1>6, <2>2 DEF DataDone
<1>7. CASE CswDone
    <2>1. AtCsw /\ transfer.code # "none"
        BY <1>4, <1>7 DEF CswDone, Completed, UsbInv, StageInv
    <2>2. CASE Good
        BY <1>1, <2>1, <2>2, PendingOver DEF AtCsw, UsbInv, Good
    <2> QED BY <1>2, <1>7, <2>2 DEF CswDone
<1>8. CASE \E block \in Blocks, chunks \in 1..MaxChunks : ReadBlocks(block, chunks)
    BY <1>2, <1>8 DEF ReadBlocks
<1>9. CASE ExecuteUnavailable
    BY <1>2, <1>9 DEF ExecuteUnavailable
<1>10. CASE DispatchEvent
    BY <1>2, <1>10 DEF DispatchEvent
<1>11. CASE ControlDone
    BY <1>2, <1>11 DEF ControlDone
<1>12. CASE CommandDone
    BY <1>2, <1>12 DEF CommandDone
<1>13. CASE TimesOut
    BY <1>2, <1>13 DEF TimesOut
<1>14. CASE Controller
    <2>1. \A r, code : Execute(r, code) => submitted' = submitted
        BY DEF Execute
    <2>2. \A code : ExecuteCommand(code) => submitted' = submitted
        BY DEF ExecuteCommand
    <2>3. CASE Answers
        BY <2>1, <2>2, <2>3 DEF Answers, DeviceTakesCbw, DeviceSendsData, DeviceSendsStatus, DeviceControl, deviceVars
    <2>4. CASE Misbehaves
        BY <2>1, <2>2, <2>4 DEF Misbehaves, DeviceTakesCbw, DeviceSendsData, DeviceSendsStatus, DeviceFails,
                                DeviceControl, PostPortChange, deviceVars
    <2> QED BY <1>14, <2>3, <2>4 DEF Controller
<1> QED BY <1>3, <1>5, <1>6, <1>7, <1>8, <1>9, <1>10, <1>11, <1>12, <1>13, <1>14 DEF UsbNext, Driver

\* The stage invariant: what is pending, which endpoints the controller has
\* caught up with, and whose data the buffers hold, in every stage of a
\* command and of the reset recovery (usb_storage.rs, execute_with).
THEOREM UsbInvariant == UsbSpec => []UsbInv
<1>1. UsbInit => UsbInv
    BY UsbStarts
<1>2. UsbInv /\ [UsbNext]_usbVars => UsbInv'
    BY UsbStep
<1> QED BY <1>1, <1>2, PTL DEF UsbSpec

\* events.command and events.transfer take the completion of their own TD,
\* never a late one from a ring slot used before (xhci.rs, dispatch).
THEOREM CompletionsAreOwn == UsbSpec => []CompletionIsOwn
<1>1. UsbInv => CompletionIsOwn
    BY OwnCompletions DEF UsbInv, CompletionIsOwn
<1> QED BY <1>1, UsbInvariant, PTL

\* The cycle bits, Reset Endpoint and Set TR Dequeue Pointer never make the
\* controller run a TD twice (xhci.rs, synchronize_mass_storage_endpoint).
THEOREM TdsRunOnce == UsbSpec => []NothingRunsTwice
<1>1. UsbInv => NothingRunsTwice
    BY NothingTwice DEF UsbInv, NothingRunsTwice
<1> QED BY <1>1, UsbInvariant, PTL

\* read_blocks that succeeds returns the blocks asked for, in order, whatever
\* the device sent, failed or withheld (usb_storage.rs, read_blocks).
THEOREM ReadsReturnTheirBlocks == UsbSpec => []ReadReturnsBlocks
<1>1. UsbInv => ReadReturnsBlocks
    BY DEF UsbInv, RequestInv, ReadReturnsBlocks
<1> QED BY <1>1, UsbInvariant, PTL

\* The driver never fills, clears or copies a DMA buffer that a TD the
\* controller may still execute names, a transfer that timed out included.
THEOREM DmaIsNotReused == UsbSpec => NoDmaReuse
<1>1. UsbInv /\ [UsbNext]_usbVars
          => [touched' # touched \/ submitted' # submitted => touched' \cap Owned = {}]_usbVars
    BY TouchesOwn
<1> QED BY <1>1, UsbInvariant, PTL DEF UsbSpec, NoDmaReuse
=============================================================================
