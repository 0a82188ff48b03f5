------------------------------ MODULE SmpBringup ------------------------------
(***************************************************************************)
(* Bring-up of the application processors (kernel/src/smp.rs): the boot    *)
(* plan, the start of one AP after another through a shared trampoline     *)
(* mailbox, the interrupt probes, and the configuration of the run queues  *)
(* from the number of processors that answered (main.rs phases 1 and 2).   *)
(*                                                                         *)
(* The processors of the plan are the BSP and APs 1..ApCount, in plan      *)
(* order; the index of an AP is also its Local APIC ID.  An AP that is     *)
(* told to start may do so at any later time, or never.                    *)
(***************************************************************************)
EXTENDS Integers, FiniteSets

CONSTANTS
    ApCount,      \* enabled APs of the boot plan
    WideIds,      \* APs whose APIC ID does not fit in xAPIC's eight bits
    ProbeRounds,  \* rounds of stress_application_processors (8 in main.rs)
    LateStart     \* may an AP still start after its start timed out?

ASSUME ApCountAssumption == ApCount \in Nat \ {0}
ASSUME WideIdsAssumption == WideIds \subseteq 1..ApCount
ASSUME ProbeRoundsAssumption == ProbeRounds \in Nat \ {0}
ASSUME LateStartAssumption == LateStart \in BOOLEAN

BootAPs == 1..ApCount
None == 0
AckNone == 0
AckOnline == 1
AckFailed == 2

VARIABLES
    lifecycle,   \* CpuBootPlan: lifecycle of each AP
    ap_slot,     \* the CPU slot the BSP set aside for each AP, None before
    mailbox,     \* the ApContext in the trampoline page
    ap,          \* each AP: [at, ctx], ctx what it read of the mailbox
    start_ack,   \* AP_START_ACK
    cpu_index,   \* CPU_INDEX_BY_APIC_ID, None for UNREGISTERED_CPU
    probe_ack,   \* AP_INTERRUPT_ACK
    probeIpi,    \* probe sent and not yet taken
    bsp,         \* [at, ap, slot, round, failed]: the BSP's boot program
    configured   \* configured run queues

apVars == <<ap, start_ack, cpu_index>>
probeVars == <<probe_ack, probeIpi>>
bringupVars == <<lifecycle, ap_slot, mailbox, apVars, probeVars, bsp, configured>>

NoContext == [stack |-> None, apic_id |-> None, cpu_slot |-> None, ready |-> None]

BringupInit ==
    /\ lifecycle = [a \in BootAPs |-> "Discovered"]
    /\ ap_slot = [a \in BootAPs |-> None]
    /\ mailbox = NoContext
    /\ ap = [a \in BootAPs |-> [at |-> "off", ctx |-> NoContext]]
    /\ start_ack = [a \in BootAPs |-> AckNone]
    /\ cpu_index = [a \in BootAPs |-> None]
    /\ probe_ack = [a \in BootAPs |-> FALSE]
    /\ probeIpi = [a \in BootAPs |-> FALSE]
    /\ bsp = [at |-> "start", ap |-> 1, slot |-> 1, round |-> 0, failed |-> FALSE]
    /\ configured = 1

Mark(a, state) == lifecycle' = [lifecycle EXCEPT ![a] = state]

-----------------------------------------------------------------------------
\* start_application_processors, one AP after another.  After the last one
\* the probes begin.
NextStart == IF bsp.ap = ApCount
             THEN [bsp EXCEPT !.at = "probe", !.ap = 1]
             ELSE [bsp EXCEPT !.at = "start", !.ap = @ + 1]

\* The slot counter advances for every AP that is attempted; an APIC ID that
\* xAPIC cannot address fails at once.
StartWide ==
    /\ bsp.at = "start"
    /\ bsp.ap \in WideIds
    /\ ap_slot' = [ap_slot EXCEPT ![bsp.ap] = bsp.slot]
    /\ Mark(bsp.ap, "Failed")
    /\ bsp' = [NextStart EXCEPT !.slot = bsp.slot + 1]
    /\ UNCHANGED <<mailbox, apVars, probeVars, configured>>

\* Fault: the slot counter does not advance.
WriteMailboxSameSlot ==
    /\ bsp.at = "start"
    /\ bsp.ap \notin WideIds
    /\ ap_slot' = [ap_slot EXCEPT ![bsp.ap] = bsp.slot]
    /\ Mark(bsp.ap, "Starting")
    /\ start_ack' = [start_ack EXCEPT ![bsp.ap] = AckNone]
    /\ mailbox' = [stack |-> bsp.ap, apic_id |-> bsp.ap, cpu_slot |-> bsp.slot, ready |-> bsp.ap]
    /\ bsp' = [bsp EXCEPT !.at = "sipi"]
    /\ UNCHANGED <<ap, cpu_index, probeVars, configured>>

\* mark_starting, and the shared mailbox is filled for this AP.
WriteMailbox ==
    /\ bsp.at = "start"
    /\ bsp.ap \notin WideIds
    /\ lifecycle[bsp.ap] = "Discovered"
    /\ ap_slot' = [ap_slot EXCEPT ![bsp.ap] = bsp.slot]
    /\ Mark(bsp.ap, "Starting")
    /\ start_ack' = [start_ack EXCEPT ![bsp.ap] = AckNone]
    /\ mailbox' = [stack |-> bsp.ap, apic_id |-> bsp.ap, cpu_slot |-> bsp.slot, ready |-> bsp.ap]
    /\ bsp' = [bsp EXCEPT !.at = "sipi", !.slot = @ + 1]
    /\ UNCHANGED <<ap, cpu_index, probeVars, configured>>

\* send_init_sipi: the AP enters the trampoline.  When the last of its IPIs
\* cannot be sent the AP is marked failed, although an earlier startup IPI
\* may have reached it.
SendInitSipi(sent, received) ==
    /\ bsp.at = "sipi"
    /\ ap' = IF received THEN [ap EXCEPT ![bsp.ap].at = "trampoline"] ELSE ap
    /\ IF sent THEN /\ bsp' = [bsp EXCEPT !.at = "await"]
                    /\ UNCHANGED lifecycle
               ELSE /\ bsp' = NextStart
                    /\ Mark(bsp.ap, "Failed")
    /\ UNCHANGED <<ap_slot, mailbox, start_ack, cpu_index, probeVars, configured>>

\* The bounded wait for the acknowledgement.
AwaitAck ==
    /\ bsp.at = "await"
    /\ start_ack[bsp.ap] # AckNone
    /\ Mark(bsp.ap, IF start_ack[bsp.ap] = AckOnline THEN "Online" ELSE "Failed")
    /\ bsp' = NextStart
    /\ UNCHANGED <<ap_slot, mailbox, apVars, probeVars, configured>>

\* Fault: the BSP waits as long as it takes.
StartNeverTimesOut == FALSE /\ UNCHANGED bringupVars

\* AP_START_TIMEOUT_SPINS without an acknowledgement.
StartTimesOut ==
    /\ bsp.at = "await"
    /\ Mark(bsp.ap, "Failed")
    /\ bsp' = NextStart
    /\ UNCHANGED <<ap_slot, mailbox, apVars, probeVars, configured>>

-----------------------------------------------------------------------------
\* The AP side.  An AP whose start failed is taken to be dead unless it may
\* be late.
Runs(a, where) ==
    /\ ap[a].at = where
    /\ LateStart \/ lifecycle[a] # "Failed"

\* The trampoline loads the stack pointer first and the arguments of ap_entry
\* after it.
LoadStack(a) ==
    /\ Runs(a, "trampoline")
    /\ ap' = [ap EXCEPT ![a].ctx.stack = mailbox.stack, ![a].at = "arguments"]
    /\ UNCHANGED <<lifecycle, ap_slot, mailbox, start_ack, cpu_index, probeVars, bsp, configured>>

LoadArguments(a) ==
    /\ Runs(a, "arguments")
    /\ ap' = [ap EXCEPT ![a] = [at |-> "init", ctx |-> [mailbox EXCEPT !.stack = ap[a].ctx.stack]]]
    /\ UNCHANGED <<lifecycle, ap_slot, mailbox, start_ack, cpu_index, probeVars, bsp, configured>>

\* Fault: the AP acknowledges without having registered its slot.
InitFirstAcknowledges(a) ==
    /\ Runs(a, "init")
    /\ start_ack' = [start_ack EXCEPT ![ap[a].ctx.ready] = AckOnline]
    /\ ap' = [ap EXCEPT ![a].at = "acknowledge"]
    /\ UNCHANGED <<lifecycle, ap_slot, mailbox, cpu_index, probeVars, bsp, configured>>

\* ap_entry: GDT, syscall MSRs, scheduler slot and Local APIC of the CPU are
\* set up, then the APIC ID is registered for the slot.
InitSucceeds(a) ==
    /\ Runs(a, "init")
    /\ cpu_index' = [cpu_index EXCEPT ![ap[a].ctx.apic_id] = ap[a].ctx.cpu_slot]
    /\ ap' = [ap EXCEPT ![a].at = "acknowledge"]
    /\ UNCHANGED <<lifecycle, ap_slot, mailbox, start_ack, probeVars, bsp, configured>>

Acknowledge(a) ==
    /\ Runs(a, "acknowledge")
    /\ start_ack' = [start_ack EXCEPT ![ap[a].ctx.ready] = AckOnline]
    /\ ap' = [ap EXCEPT ![a].at = "loop"]
    /\ UNCHANGED <<lifecycle, ap_slot, mailbox, cpu_index, probeVars, bsp, configured>>

\* One of the initialisers fails; the AP loops without having registered.
InitFails(a) ==
    /\ Runs(a, "init")
    /\ start_ack' = [start_ack EXCEPT ![ap[a].ctx.ready] = AckFailed]
    /\ ap' = [ap EXCEPT ![a].at = "parked"]
    /\ UNCHANGED <<lifecycle, ap_slot, mailbox, cpu_index, probeVars, bsp, configured>>

\* acknowledge_interrupt_probe, on the AP that takes the interrupt.
TakeProbe(a) ==
    /\ ap[a].at = "loop"
    /\ probeIpi[a]
    /\ probeIpi' = [probeIpi EXCEPT ![a] = FALSE]
    /\ probe_ack' = [probe_ack EXCEPT ![a] = TRUE]
    /\ UNCHANGED <<lifecycle, ap_slot, mailbox, apVars, bsp, configured>>

-----------------------------------------------------------------------------
\* After the last AP of a pass: the pass of bring-up is followed by the
\* configuration, a stress round by the next one unless it had a failure.
NextProbe(failed) ==
    IF bsp.ap < ApCount
    THEN [bsp EXCEPT !.at = "probe", !.ap = @ + 1, !.failed = failed]
    ELSE [bsp EXCEPT !.at = IF bsp.round = 0 THEN "configure"
                            ELSE IF failed \/ bsp.round = ProbeRounds THEN "done"
                            ELSE "probe",
                     !.ap = 1, !.round = @ + 1, !.failed = FALSE]

\* verify_application_processors skips what is not online.
SkipProbe ==
    /\ bsp.at = "probe"
    /\ lifecycle[bsp.ap] # "Online"
    /\ bsp' = NextProbe(bsp.failed)
    /\ UNCHANGED <<lifecycle, ap_slot, mailbox, apVars, probeVars, configured>>

\* Fault: the acknowledgement of an earlier probe is not cleared.
SendProbeKeepsAck(sent) ==
    /\ bsp.at = "probe"
    /\ lifecycle[bsp.ap] = "Online"
    /\ IF sent THEN probeIpi' = [probeIpi EXCEPT ![bsp.ap] = TRUE] ELSE UNCHANGED probeIpi
    /\ bsp' = [bsp EXCEPT !.at = IF sent THEN "answer" ELSE "unanswered"]
    /\ UNCHANGED <<lifecycle, ap_slot, mailbox, apVars, probe_ack, configured>>

\* The acknowledgement is cleared and the IPI sent, if the APIC accepts it.
SendProbe(sent) ==
    /\ bsp.at = "probe"
    /\ lifecycle[bsp.ap] = "Online"
    /\ probe_ack' = [probe_ack EXCEPT ![bsp.ap] = FALSE]
    /\ IF sent THEN probeIpi' = [probeIpi EXCEPT ![bsp.ap] = TRUE] ELSE UNCHANGED probeIpi
    /\ bsp' = [bsp EXCEPT !.at = IF sent THEN "answer" ELSE "unanswered"]
    /\ UNCHANGED <<lifecycle, ap_slot, mailbox, apVars, configured>>

ProbeAnswered ==
    /\ bsp.at = "answer"
    /\ probe_ack[bsp.ap]
    /\ bsp' = NextProbe(bsp.failed)
    /\ UNCHANGED <<lifecycle, ap_slot, mailbox, apVars, probeVars, configured>>

\* AP_INTERRUPT_TIMEOUT_SPINS, or an IPI that was not sent: mark_unresponsive.
ProbeUnanswered ==
    /\ bsp.at \in {"answer", "unanswered"}
    /\ Mark(bsp.ap, "Failed")
    /\ bsp' = NextProbe(TRUE)
    /\ UNCHANGED <<ap_slot, mailbox, apVars, probeVars, configured>>

\* Phase 2: configure_multicore(online_cpu_count), the BSP being online.
ConfigureQueues ==
    /\ bsp.at = "configure"
    /\ configured' = 1 + Cardinality({a \in BootAPs : lifecycle[a] = "Online"})
    /\ bsp' = [bsp EXCEPT !.at = "probe"]
    /\ UNCHANGED <<lifecycle, ap_slot, mailbox, apVars, probeVars>>

BspStep ==
    \/ StartWide \/ WriteMailbox \/ AwaitAck \/ StartTimesOut
    \/ \E sent, received \in BOOLEAN : SendInitSipi(sent, received)
    \/ SkipProbe \/ ProbeAnswered \/ ProbeUnanswered \/ ConfigureQueues
    \/ \E sent \in BOOLEAN : SendProbe(sent)

ApStep(a) ==
    LoadStack(a) \/ LoadArguments(a) \/ InitSucceeds(a) \/ InitFails(a)
    \/ Acknowledge(a) \/ TakeProbe(a)

BringupNext == BspStep \/ \E a \in BootAPs : ApStep(a)

\* The BSP executes; of an AP nothing is assumed.
BringupSpec ==
    /\ BringupInit
    /\ [][BringupNext]_bringupVars
    /\ WF_bringupVars(BspStep)

-----------------------------------------------------------------------------
\* "The AP must not concurrently reuse cpu_slot while its GDT or TSS is
\* loaded" (gdt::init_ap): two APs that have left the trampoline never share a
\* slot or a stack.
PrivateSlots ==
    \A a, b \in BootAPs :
        /\ a # b
        /\ {ap[a].at, ap[b].at} \subseteq {"init", "acknowledge", "loop", "parked"}
        => /\ ap[a].ctx.cpu_slot # ap[b].ctx.cpu_slot
           /\ ap[a].ctx.stack # ap[b].ctx.stack

\* When the plan says Online, the AP itself has come up on the slot the BSP
\* set aside for it and can be found there by its APIC ID.
OnlineIsRegistered ==
    \A a \in BootAPs : lifecycle[a] = "Online" =>
        /\ ap[a].at = "loop"
        /\ ap[a].ctx.cpu_slot = ap_slot[a]
        /\ cpu_index[a] = ap_slot[a]

\* Slots are private, and plan, AP and APIC table agree about them.
SlotsAgree == PrivateSlots /\ OnlineIsRegistered

\* An AP stays online across a probe only if it answered that very probe.
OnlineAnswered ==
    [][bsp.at = "answer" /\ bsp'.at # "answer" /\ lifecycle'[bsp.ap] = "Online"
        => ~probeIpi[bsp.ap]]_bringupVars

\* Boot goes on whatever the APs do.
BringupEnds == <>(bsp.at = "done")
=============================================================================
