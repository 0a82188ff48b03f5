--------------------------- MODULE XhciLifecycle ---------------------------
(***************************************************************************)
(* The life of the xHCI controller (kernel/src/xhci.rs) over the rings of  *)
(* XhciTransport: init resets and programs it, addresses and configures    *)
(* the device on the first connected port and publishes the driver; the    *)
(* shell then polls a keyboard, or recovers a storage endpoint; and the    *)
(* suspend command (shell.rs, acpi.rs, main.rs) stops the controller,      *)
(* sleeps, and resumes it or puts it in quarantine.  When init fails the   *)
(* kernel boots on without a published driver, and suspends without one.   *)
(*                                                                         *)
(* All of this runs on the boot CPU, one step after the other; the         *)
(* controller and the firmware run beside it.  prepared holds the DMA      *)
(* structures that memory contains; registers says whether the ring and    *)
(* context base registers hold the driver's addresses.  What the device    *)
(* answers is valid or not.                                                *)
(***************************************************************************)
EXTENDS XhciTransport, Sequences

CONSTANTS Devices,      \* what may sit on the first connected port
          MaxSuspends,  \* bound on the suspend commands
          MaxCommands   \* bound on the commands and reports after boot

\* The control transfers of the enumeration fit into the control ring, which
\* has 255 usable TRBs.
ASSUME LifecycleAssumption ==
    /\ Devices \subseteq {"none", "keyboard", "storage"}
    /\ MaxSuspends \in Nat /\ MaxCommands \in Nat
    /\ FirstControl + 13 <= ControlTrbs

VARIABLES stage,      \* where the boot CPU is
          step,       \* which entry of Plan it is at
          device, prepared,
          run, ie, inte, registers,  \* USBCMD.RS, IMAN.IE, USBCMD.INTE and the base registers
          port,       \* PORTSC: enabled, and whether a change bit is set
          mode,       \* info.interrupt_mode
          s3_state, s3_generation, s3_snapshot, PENDING_S3_TOKEN, RESUME_PENDING,
          suspends, commands

bootVars == <<stage, step, device, prepared, port>>
registerVars == <<run, ie, inte, registers, mode>>
s3Vars == <<s3_state, s3_generation, s3_snapshot, PENDING_S3_TOKEN, RESUME_PENDING, suspends>>
lifecycleVars == <<transportVars, bootVars, registerVars, s3Vars, commands>>

NoToken == 0
NoSnapshot == "none"

LifecycleInit ==
    /\ TransportInit
    /\ stage = "boot" /\ step = 1
    /\ device \in Devices
    /\ prepared = {}
    /\ port = [enabled |-> FALSE, changed |-> TRUE]
    /\ run \in BOOLEAN /\ ie = FALSE /\ inte = FALSE /\ registers = "foreign"
    /\ mode = "polling"
    /\ s3_state = "Absent" /\ s3_generation = 0 /\ s3_snapshot = NoSnapshot
    /\ PENDING_S3_TOKEN = NoToken /\ RESUME_PENDING = FALSE
    /\ suspends = 0 /\ commands = 0

At(from, to) == stage = from /\ stage' = to

-----------------------------------------------------------------------------
(* init, up to the running controller.                                     *)

\* There may be no controller, or none with a usable BAR.
FindController(found) ==
    /\ At("boot", IF found THEN "capabilities" ELSE "failed")
    /\ UNCHANGED <<transportVars, step, device, prepared, port, registerVars, s3Vars, commands>>

\* parse_capabilities: register offsets, ports and slots must be plausible.
ParseCapabilities(valid) ==
    /\ At("capabilities", IF valid THEN "protocols" ELSE "failed")
    /\ UNCHANGED <<transportVars, step, device, prepared, port, registerVars, s3Vars, commands>>

\* The walk over the extended capabilities must end and find USB ports.
DiscoverSupportedProtocols(valid) ==
    /\ At("protocols", IF valid THEN "reset" ELSE "failed")
    /\ UNCHANGED <<transportVars, step, device, prepared, port, registerVars, s3Vars, commands>>

\* reset_controller waits until the controller is ready, stops it and resets
\* it; each wait may time out, and then the controller stays as it is.
ResetController(ready, halts, resets) ==
    /\ At("reset", IF ready /\ halts /\ resets THEN "allocate" ELSE "failed")
    /\ run' = (run /\ ~ready)
    /\ IF ready /\ halts /\ resets THEN ie' = FALSE /\ inte' = FALSE /\ registers' = "reset"
                                    ELSE UNCHANGED <<ie, inte, registers>>
    /\ UNCHANGED <<transportVars, step, device, prepared, port, mode, s3Vars, commands>>

\* initialize_runtime_structures and allocate_scratchpads.
InitializeRuntimeStructures(fits) ==
    /\ At("allocate", IF fits THEN "program" ELSE "failed")
    /\ prepared' = IF fits THEN {"dcbaa", "scratchpads", "command_ring", "event_ring"} ELSE prepared
    /\ UNCHANGED <<transportVars, step, device, port, registerVars, s3Vars, commands>>

ProgramRegisters ==
    /\ At("program", "arm")
    /\ registers' = "ours"
    /\ UNCHANGED <<transportVars, step, device, prepared, port, run, ie, inte, mode, s3Vars, commands>>

\* arm_interrupts_for_device, and the interrupter of the controller.
ArmInterrupts(armed) ==
    /\ At("arm", "start")
    /\ mode' = IF armed THEN "msi" ELSE "polling"
    /\ ie' = armed
    /\ UNCHANGED <<transportVars, step, device, prepared, port, run, inte, registers, s3Vars, commands>>

Start(starts) ==
    /\ At("start", IF starts THEN "plan" ELSE "failed")
    /\ run' = TRUE
    /\ inte' = (mode # "polling")
    /\ s3_state' = IF starts THEN "Active" ELSE s3_state
    /\ UNCHANGED <<transportVars, step, device, prepared, port, ie, registers, mode,
                   s3_generation, s3_snapshot, PENDING_S3_TOKEN, RESUME_PENDING, suspends, commands>>

-----------------------------------------------------------------------------
(* The no-op probe, address_first_connected_device and                     *)
(* enumerate_first_device: what they submit, in order.                     *)

Td(r, length, what) == [ring |-> r, length |-> length, what |-> what]

\* address_first_connected_device.
Addressing ==
    <<Td("port", 0, "reset_port"), Td("command", 1, "enable_slot"), Td("command", 1, "address_device")>>

\* get_descriptor and the requests without data.
Enumerating ==
    <<Td("control", 3, "device_descriptor"), Td("control", 3, "configuration_header"),
      Td("control", 3, "configuration"), Td("control", 2, "set_configuration")>> \o
    (IF device = "keyboard" THEN <<Td("control", 2, "set_protocol")>> ELSE <<>>) \o
    <<Td("command", 1, "configure_endpoints")>>

Plan ==
    <<Td("command", 1, "no_op")>> \o (IF device = "none" THEN <<>> ELSE Addressing \o Enumerating)

\* allocate_device.
AllocatesDevice(what) == IF what = "enable_slot" THEN {"slot_context"} ELSE {}

\* configure_hid_endpoint, up to its command.
ConfiguresHid(what) ==
    IF device = "keyboard" /\ what = "set_protocol" THEN {"endpoint_contexts"} ELSE {}

\* configure_mass_storage_endpoints, up to its command.
ConfiguresMassStorage(what) ==
    IF device = "storage" /\ what = "set_configuration" THEN {"endpoint_contexts"} ELSE {}

\* Fault: allocate_device runs after the Address Device command.
PreparesLate(what) == IF what = "configuration" THEN {"slot_context", "endpoint_contexts"} ELSE {}

\* What the driver allocates and fills once an entry of the plan is done.
Prepares(what) == AllocatesDevice(what) \cup ConfiguresHid(what) \cup ConfiguresMassStorage(what)

\* Answers that parse_device_descriptor and configuration_total_length,
\* parse_hid_keyboard_configuration or parse_mass_storage_configuration may
\* refuse.
MalformedDescriptor(what) == what \in {"device_descriptor", "configuration_header"}
UnsuitableKeyboard(what) == device = "keyboard" /\ what = "configuration"
UnsuitableStorage(what) == device = "storage" /\ what = "configuration"

MayBeRefused(what) ==
    \/ MalformedDescriptor(what) \/ UnsuitableKeyboard(what) \/ UnsuitableStorage(what)
    \/ Prepares(what) # {}    \* the allocation fails

\* What the controller follows when it executes a TD (external).
Follows(what) ==
    {"command_ring", "event_ring", "dcbaa", "scratchpads"} \cup
    CASE what \in {"no_op", "enable_slot"} -> {}
      [] what \in {"configure_endpoints", "report", "reset_in"} -> {"slot_context", "endpoint_contexts"}
      [] OTHER -> {"slot_context"}

\* A write to PORTSC: the enabled bit and the change bits are cleared by ones.
PortWrite(value) ==
    [enabled |-> port.enabled /\ ~value.enabled, changed |-> port.changed /\ ~value.changed]

\* The last write of reset_port.
ClearChanges == PortWrite([enabled |-> FALSE, changed |-> port.changed])

Submit ==
    /\ step <= Len(Plan)
    /\ LET td == Plan[step]
       IN  /\ td.ring # "port"
           /\ At("plan", "wait")
           /\ IF td.ring = "command" THEN SubmitCommand(td.what) /\ UNCHANGED transfer
                                     ELSE SubmitTransfer(td.ring, td.length, td.what)
    /\ UNCHANGED <<step, device, prepared, port, registerVars, s3Vars, commands>>

\* reset_port: the controller resets and enables the port, and the driver
\* clears the change bits without touching the enabled bit.
ResetPort(enables) ==
    /\ step <= Len(Plan) /\ Plan[step].what = "reset_port"
    /\ At("plan", IF enables THEN "clear_port" ELSE "failed")
    /\ port' = IF enables THEN [enabled |-> TRUE, changed |-> TRUE] ELSE port
    /\ UNCHANGED <<transportVars, step, device, prepared, registerVars, s3Vars, commands>>

ClearPort ==
    /\ At("clear_port", "plan")
    /\ step' = step + 1
    /\ port' = ClearChanges
    /\ UNCHANGED <<transportVars, device, prepared, registerVars, s3Vars, commands>>

Pending(r) == IF r = "command" THEN command ELSE transfer

\* The completion is taken; a failure, an answer that does not parse or a
\* failed allocation ends init.
StageDone(valid) ==
    LET td == Plan[step]
    IN  /\ stage = "wait"
        /\ Pending(td.ring).code # "none"
        /\ valid \/ MayBeRefused(td.what)
        /\ IF td.ring = "command" THEN command' = NotPending /\ UNCHANGED transfer
                                  ELSE transfer' = NotPending /\ UNCHANGED command
        /\ IF valid /\ Pending(td.ring).code = "success"
           THEN /\ stage' = "plan"
                /\ step' = step + 1
                /\ prepared' = prepared \cup Prepares(td.what)
           ELSE stage' = "failed" /\ UNCHANGED <<step, prepared>>
        /\ UNCHANGED <<ring, cursor, hw, eventRing, hwEvent, dequeue, submitted,
                       device, port, registerVars, s3Vars, commands>>

StageTimesOut ==
    /\ At("wait", "failed")
    /\ ~HasEvent /\ Pending(Plan[step].ring).code = "none"
    /\ UNCHANGED <<transportVars, step, device, prepared, port, registerVars, s3Vars, commands>>

\* The kernel prints the error of init and boots on.
BootsOn ==
    /\ At("failed", "prompt")
    /\ UNCHANGED <<transportVars, step, device, prepared, port, registerVars, s3Vars, commands>>

\* XHCI_CONTROLLER is set: init has gone through its plan, after which nothing
\* of it can fail.
Published == step > Len(Plan)

\* The driver is published; a keyboard's first report is awaited.
Publish ==
    /\ Published
    /\ At("plan", "prompt")
    /\ IF device = "keyboard" THEN SubmitTransfer("in", 1, "report") ELSE UNCHANGED transportVars
    /\ UNCHANGED <<step, device, prepared, port, registerVars, s3Vars, commands>>

Boots ==
    \/ \E found \in BOOLEAN : FindController(found)
    \/ \E valid \in BOOLEAN : ParseCapabilities(valid) \/ DiscoverSupportedProtocols(valid)
    \/ \E ready, halts, resets \in BOOLEAN : ResetController(ready, halts, resets)
    \/ \E fits \in BOOLEAN : InitializeRuntimeStructures(fits)
    \/ ProgramRegisters
    \/ \E armed \in BOOLEAN : ArmInterrupts(armed)
    \/ \E starts \in BOOLEAN : Start(starts)
    \/ Submit \/ ClearPort \/ StageTimesOut \/ Publish \/ BootsOn
    \/ \E enables \in BOOLEAN : ResetPort(enables)
    \/ \E valid \in BOOLEAN : StageDone(valid)

-----------------------------------------------------------------------------
(* After boot.                                                             *)

DispatchEvent ==
    /\ stage \in {"wait", "command"} \/ (stage = "prompt" /\ Published)
    /\ Dispatch
    /\ UNCHANGED <<bootVars, registerVars, s3Vars, commands>>

\* poll_hid_report: a report is taken and the endpoint armed again, unless
\* the transfer failed or the device is gone.
PollHidReport(connected) ==
    /\ stage = "prompt" /\ Published /\ device = "keyboard"
    /\ transfer.code # "none"
    /\ commands < MaxCommands
    /\ commands' = commands + 1
    /\ IF transfer.code = "success" /\ connected
       THEN SubmitTransfer("in", 1, "report")
       ELSE /\ transfer' = NotPending
            /\ UNCHANGED <<ring, cursor, hw, eventRing, hwEvent, dequeue, command, submitted>>
    /\ UNCHANGED <<bootVars, registerVars, s3Vars>>

\* The recovery of a storage endpoint submits commands (UsbStorage).
RecoverEndpoint ==
    /\ At("prompt", "command")
    /\ Published /\ device = "storage" /\ command = NotPending
    /\ commands < MaxCommands
    /\ commands' = commands + 1
    /\ SubmitCommand("reset_in")
    /\ UNCHANGED <<transfer, step, device, prepared, port, registerVars, s3Vars>>

EndpointRecovered ==
    /\ At("command", "prompt")
    /\ command.code # "none"
    /\ command' = NotPending
    /\ UNCHANGED <<ring, cursor, hw, eventRing, hwEvent, dequeue, transfer, submitted,
                   step, device, prepared, port, registerVars, s3Vars, commands>>

\* submit_command gives up; the command stays pending.
EndpointTimesOut ==
    /\ At("command", "prompt")
    /\ ~HasEvent /\ command.code = "none"
    /\ UNCHANGED <<transportVars, step, device, prepared, port, registerVars, s3Vars, commands>>

-----------------------------------------------------------------------------
(* Suspend and resume.                                                     *)

QuarantineS3 ==
    /\ run' = FALSE /\ ie' = FALSE /\ inte' = FALSE
    /\ s3_state' = "Quarantined"
    /\ s3_snapshot' = NoSnapshot

\* The gate of quiesce_for_s3: an armed keyboard endpoint keeps it shut.
Busy == command # NotPending \/ transfer # NotPending

\* prepare_for_s3 without a published driver: no controller is stopped, no
\* token is made, and cmd_suspend goes on.
SuspendWithout ==
    /\ At("prompt", "acpi") /\ suspends < MaxSuspends
    /\ ~Published
    /\ suspends' = suspends + 1
    /\ UNCHANGED <<transportVars, step, device, prepared, port, registerVars, s3_state, s3_generation, s3_snapshot,
                   PENDING_S3_TOKEN, RESUME_PENDING, commands>>

\* cmd_suspend and prepare_for_s3; a refusal touches nothing.  reads says
\* whether the base registers read back as the addresses of the rings.
SuspendRefused(reads) ==
    /\ stage = "prompt" /\ suspends < MaxSuspends
    /\ Published
    /\ s3_state \in {"Quarantined", "Quiesced"} \/ Busy \/ ~run \/ ~reads
    /\ suspends' = suspends + 1
    /\ UNCHANGED <<transportVars, bootVars, registerVars, s3_state, s3_generation, s3_snapshot,
                   PENDING_S3_TOKEN, RESUME_PENDING, commands>>

Quiesce(halts) ==
    /\ stage = "prompt" /\ suspends < MaxSuspends
    /\ Published
    /\ s3_state \notin {"Quarantined", "Quiesced"} /\ ~Busy /\ run
    /\ suspends' = suspends + 1
    /\ IF halts
       THEN /\ stage' = "acpi"
            /\ run' = FALSE /\ ie' = FALSE /\ inte' = FALSE
            /\ s3_generation' = s3_generation + 1
            /\ s3_snapshot' = mode
            /\ s3_state' = "Quiesced"
            /\ PENDING_S3_TOKEN' = s3_generation + 1
       ELSE QuarantineS3 /\ UNCHANGED <<stage, s3_generation, PENDING_S3_TOKEN>>
    /\ UNCHANGED <<transportVars, step, device, prepared, port, registers, mode, RESUME_PENDING, commands>>

\* suspend_s3: one of its checks fails, or the machine sleeps.
SuspendFails ==
    /\ At("acpi", "abort")
    /\ UNCHANGED <<transportVars, step, device, prepared, port, registerVars, s3Vars, commands>>

EnterS3 ==
    /\ At("acpi", "asleep")
    /\ RESUME_PENDING' = TRUE
    /\ UNCHANGED <<transportVars, step, device, prepared, port, registerVars, s3_state, s3_generation,
                   s3_snapshot, PENDING_S3_TOKEN, suspends, commands>>

\* The firmware (external) wakes the machine, with the controller's registers
\* or without.
Wakes(retained) ==
    /\ At("asleep", "woken")
    /\ registers' = IF retained THEN registers ELSE "reset"
    /\ run' = (run /\ retained)
    /\ UNCHANGED <<transportVars, step, device, prepared, port, ie, inte, mode, s3Vars, commands>>

\* MSI and MSI-X are not programmed again.
ResumedMode == "polling"

\* resume_from_s3: the base registers are written again, which moves the
\* controller to the start of the command ring; interrupts stay masked.
\* healthy and starts are what the controller's status says.
Resumed(token, healthy, starts) ==
    IF s3_snapshot # NoSnapshot /\ s3_state = "Quiesced" /\ token = s3_generation
          /\ healthy /\ registers = "ours" /\ starts
    THEN /\ run' = TRUE /\ ie' = FALSE /\ inte' = FALSE
         /\ hw' = [hw EXCEPT !["command"].index = 0, !["command"].cycle = TRUE]
         /\ s3_state' = IF s3_snapshot = "polling" THEN "Active" ELSE "PollingFallback"
         /\ s3_snapshot' = NoSnapshot
         /\ mode' = ResumedMode
    ELSE QuarantineS3 /\ UNCHANGED <<hw, mode>>

\* Fault: a suspend that failed only says so.
AbortForgets(healthy, starts) ==
    /\ At("abort", "prompt")
    /\ UNCHANGED <<transportVars, step, device, prepared, port, registerVars, s3Vars, commands>>

NotResumed == UNCHANGED <<hw, run, ie, inte, mode, s3_state, s3_snapshot>>

\* cmd_suspend gives its own token back, if prepare_for_s3 made one.
AbortSuspend(healthy, starts) ==
    /\ At("abort", "prompt")
    /\ PENDING_S3_TOKEN' = NoToken
    /\ IF Published THEN Resumed(s3_generation, healthy, starts) ELSE NotResumed
    /\ UNCHANGED <<ring, cursor, eventRing, hwEvent, dequeue, command, transfer, submitted,
                   step, device, prepared, port, registers, s3_generation, RESUME_PENDING, suspends, commands>>

\* resume_platform and resume_pending_s3.
ResumePlatform(healthy, starts) ==
    /\ At("woken", "prompt")
    /\ RESUME_PENDING
    /\ RESUME_PENDING' = FALSE
    /\ PENDING_S3_TOKEN' = NoToken
    /\ IF PENDING_S3_TOKEN # NoToken
       THEN Resumed(PENDING_S3_TOKEN, healthy, starts)
       ELSE NotResumed
    /\ UNCHANGED <<ring, cursor, eventRing, hwEvent, dequeue, command, transfer, submitted,
                   step, device, prepared, port, registers, s3_generation, suspends, commands>>

Polls ==
    \/ DispatchEvent
    \/ \E connected \in BOOLEAN : PollHidReport(connected)
    \/ RecoverEndpoint \/ EndpointRecovered \/ EndpointTimesOut

Suspends ==
    \/ SuspendWithout \/ SuspendFails \/ EnterS3
    \/ \E reads \in BOOLEAN : SuspendRefused(reads)
    \/ \E halts \in BOOLEAN : Quiesce(halts)
    \/ \E retained \in BOOLEAN : Wakes(retained)
    \/ \E healthy, starts \in BOOLEAN :
           AbortSuspend(healthy, starts) \/ ResumePlatform(healthy, starts)

\* The controller (external) executes what its rings offer while it runs.
Controls ==
    /\ run /\ registers = "ours"
    /\ \E code \in {"success", "error"} :
           \/ ExecuteCommand(code)
           \/ \E r \in {"control", "in"} : Execute(r, code)
    /\ UNCHANGED <<bootVars, registerVars, s3Vars, commands>>

LifecycleNext == Boots \/ Polls \/ Suspends \/ Controls

LifecycleSpec == LifecycleInit /\ [][LifecycleNext]_lifecycleVars

-----------------------------------------------------------------------------
(* Properties.                                                             *)

\* The controller never follows a pointer to a structure that the driver has
\* not prepared yet, whichever TD of the plan it executes.
FollowsPrepared ==
    run /\ registers = "ours" =>
        \A r \in {"command", "control", "in"} : CanExecute(r) => Follows(Offered(r).what) \subseteq prepared

\* The port that reset_port enabled stays enabled while its device is
\* addressed: clearing the change bits must not clear the enabled bit.
PortStaysEnabled == Plan # <<Td("command", 1, "no_op")>> /\ step > 2 => port.enabled

\* Enumeration talks to a device that can answer, through structures that are
\* there.
EnumerationSound == FollowsPrepared /\ PortStaysEnabled

\* With a published driver the machine sleeps only after its controller was
\* stopped and owes no completion: nothing can be written to memory behind the
\* kernel's back.
SleepsIdle ==
    stage = "asleep" /\ Published => ~run /\ \A r \in {"control", "in"} : ~CanExecute(r)

\* The prompt never comes back to a controller that is merely quiesced: after
\* every suspend, failed or slept through, it runs or is in quarantine, and no
\* token is left over.
NeverLeftQuiesced == stage = "prompt" => s3_state # "Quiesced" /\ PENDING_S3_TOKEN = NoToken

\* The handshake of a published driver is whole: memory is quiet while the
\* machine sleeps, and nothing of a suspend is left when the prompt is back,
\* with a driver or without.
SuspendClean == SleepsIdle /\ NeverLeftQuiesced

\* PCI_INTERRUPTS.md: before suspend_s3, prepare_for_s3 stops USBCMD and waits
\* for Halted.  The machine never sleeps while a controller that init has
\* programmed still runs.
SleepsStopped == stage = "asleep" => ~(run /\ registers = "ours")

\* PCI_INTERRUPTS.md: rings that could not be validated are never labelled
\* as polling.  With no command pending, controller and driver stand at the
\* same place of the command ring.
ResumedRingsAgree ==
    stage = "prompt" /\ run /\ command = NotPending =>
        Position("command").index = cursor["command"].index
=============================================================================
