---------------------------- MODULE ContextHandoff ----------------------------
(***************************************************************************)
(* Register-context handoffs on every CPU, on top of the run queues        *)
(* (kernel/src/sched.rs prepare_context_switch_for_cpu and                 *)
(* switch_current_cpu_context, context.rs switch_context), driven by the   *)
(* AP scheduler loop and its wake-up IPIs (smp.rs), the BSP timer          *)
(* interrupt and the boot sequence (main.rs phases 2 and 7).               *)
(*                                                                         *)
(* A context is a task, or the idle continuation of a CPU.  A critical     *)
(* section under one lock is one step; other CPUs run between two of them, *)
(* and so do interrupts of the same CPU wherever its interrupt flag is on. *)
(* The task table only grows during boot and is never shrunk afterwards,   *)
(* so task_context_ptr always finds the task it is asked for.              *)
(***************************************************************************)
EXTENDS MultiCoreScheduler

CONSTANT StressRounds  \* rounds of stress_application_processors (8 in main.rs)

ASSUME StressRoundsAssumption == StressRounds \in Nat \ {0}

BSP == 0
APs == Cpus \ {BSP}

\* The tasks boot creates, in the order of add_task_with_entry.
IdleTask == 1
InitTask == 2
WorkerTask(c) == 2 + c

ASSUME BootTasksAssumption == TaskIds = 1..(MAX_CPUS + 1)

\* The saved_context slot of a CPU: its AP loop, or the boot code and shell.
IdleContext(c) == -1 - c

VARIABLES
    pc,          \* where each CPU is: in its own code or in a handoff
    exec,        \* the context each CPU executes
    iflag,       \* interrupt flag of each CPU
    resume_if,   \* flag that without_interrupts restores when it ends
    pair,        \* [old, new] context pointers of the handoff under way
    slot_task,   \* PER_CPU_SCHEDULER[cpu].current_task
    fresh,       \* contexts whose saved frame is where they stopped
    started,     \* tasks entered at least once
    kick,        \* AP_SCHEDULER_KICK
    ipi,         \* probe IPI sent and not yet taken
    ack,         \* AP_INTERRUPT_ACK
    worker_mask, \* SMP_WORKER_CPU_MASK
    boot,        \* [at, cpu, round, failed]: the BSP's boot program
    in_tick      \* the BSP is inside its timer interrupt handler

cpuVars == <<pc, exec, iflag, resume_if, pair, slot_task, fresh, started>>
wakeVars == <<kick, ipi, ack>>
bootVars == <<worker_mask, boot>>
handoffVars == <<vars, cpuVars, wakeVars, bootVars, in_tick>>

\* Between bring-up and phase 2: the APs wait in their loop, possibly with a
\* kick left over from the bring-up probe; the BSP is in the boot code.
HandoffInit ==
    /\ Init
    /\ pc = [c \in Cpus |-> "run"]
    /\ exec = [c \in Cpus |-> IdleContext(c)]
    /\ iflag = [c \in Cpus |-> TRUE]
    /\ resume_if = [c \in Cpus |-> TRUE]
    /\ pair = [c \in Cpus |-> [old |-> IdleContext(c), new |-> IdleContext(c)]]
    /\ slot_task = [c \in Cpus |-> NoTask]
    /\ fresh = TaskIds
    /\ started = {}
    /\ kick \in [Cpus -> BOOLEAN] /\ ~kick[BSP]
    /\ ipi = [c \in Cpus |-> FALSE]
    /\ ack = [c \in Cpus |-> TRUE]
    /\ worker_mask = {}
    /\ boot = [at |-> "configure", cpu |-> 1, round |-> 0, failed |-> FALSE]
    /\ in_tick = FALSE

\* CPU c executes its own program (it is neither halted nor in a handler).
Executes(c, where) ==
    /\ pc[c] = where
    /\ c = BSP => ~in_tick

Goto(c, where) == pc' = [pc EXCEPT ![c] = where]

-----------------------------------------------------------------------------
\* yield_current, and the entry of switch_current_cpu_context: the first
\* thing prepare_context_switch_for_cpu does is mask interrupts.
EnterPrepare(c) ==
    /\ Goto(c, "handoff")
    /\ resume_if' = [resume_if EXCEPT ![c] = iflag[c]]
    /\ iflag' = [iflag EXCEPT ![c] = FALSE]
    /\ UNCHANGED <<exec, pair, slot_task, fresh, started>>

\* prepare returns None: InvalidCpu, or nothing runs and nothing is queued.
PrepareNothing(c) ==
    /\ Executes(c, "handoff")
    /\ c >= cpu_count \/ (current[c] = NoTask /\ Load(c) = 0)
    /\ Goto(c, "run")
    /\ iflag' = [iflag EXCEPT ![c] = resume_if[c]]
    /\ UNCHANGED <<vars, exec, resume_if, pair, slot_task, fresh, started,
                   wakeVars, bootVars, in_tick>>

\* Fault: the handoff may steal.
HandoffSteals(c) ==
    /\ Executes(c, "handoff")
    /\ BoundedHandoff(c, TRUE)
    /\ pair' = [pair EXCEPT ![c] =
                  [old |-> IF current[c] = NoTask THEN IdleContext(c) ELSE current[c],
                   new |-> IF current'[c] = NoTask THEN IdleContext(c) ELSE current'[c]]]
    /\ Goto(c, "publish")
    /\ UNCHANGED <<exec, iflag, resume_if, slot_task, fresh, started,
                   wakeVars, bootVars, in_tick>>

\* bounded_handoff(cpu, false) under the run-queue lock: previous and next.
Handoff(c) ==
    /\ Executes(c, "handoff")
    /\ BoundedHandoff(c, FALSE)
    /\ pair' = [pair EXCEPT ![c] =
                  [old |-> IF current[c] = NoTask THEN IdleContext(c) ELSE current[c],
                   new |-> IF current'[c] = NoTask THEN IdleContext(c) ELSE current'[c]]]
    /\ Goto(c, "publish")
    /\ UNCHANGED <<exec, iflag, resume_if, slot_task, fresh, started,
                   wakeVars, bootVars, in_tick>>

\* Under the locks of the task table and of the CPU's slot: current_task is
\* set; then prepare returns and the interrupt flag is what it was.
Publish(c) ==
    /\ Executes(c, "publish")
    /\ slot_task' = [slot_task EXCEPT ![c] =
                       IF pair[c].new \in TaskIds THEN pair[c].new ELSE NoTask]
    /\ iflag' = [iflag EXCEPT ![c] = resume_if[c]]
    /\ Goto(c, "prepared")
    /\ UNCHANGED <<vars, exec, resume_if, pair, fresh, started, wakeVars, bootVars, in_tick>>

\* switch_current_cpu_context masks interrupts before the assembly.
MaskForSwitch(c) ==
    /\ Executes(c, "prepared")
    /\ iflag' = [iflag EXCEPT ![c] = FALSE]
    /\ Goto(c, "save")
    /\ UNCHANGED <<vars, exec, resume_if, pair, slot_task, fresh, started,
                   wakeVars, bootVars, in_tick>>

\* First half of switch_context: the registers go to *old.
SaveOld(c) ==
    /\ Executes(c, "save")
    /\ fresh' = fresh \cup {pair[c].old}
    /\ Goto(c, "load")
    /\ UNCHANGED <<vars, exec, iflag, resume_if, pair, slot_task, started,
                   wakeVars, bootVars, in_tick>>

\* Second half: the registers come from *new.  A new task starts at its entry
\* point, any other context after its own call of switch_context.
LoadNew(c) ==
    /\ Executes(c, "load")
    /\ LET new == pair[c].new IN
        /\ exec' = [exec EXCEPT ![c] = new]
        /\ fresh' = fresh \ {new}
        /\ started' = started \cup ({new} \cap TaskIds)
        /\ Goto(c, IF new \in TaskIds \ started THEN "run" ELSE "resumed")
    /\ UNCHANGED <<vars, iflag, resume_if, pair, slot_task, wakeVars, bootVars, in_tick>>

\* The resumed continuation enables interrupts and returns.
Resume(c) ==
    /\ Executes(c, "resumed")
    /\ iflag' = [iflag EXCEPT ![c] = TRUE]
    /\ Goto(c, "run")
    /\ UNCHANGED <<vars, exec, resume_if, pair, slot_task, fresh, started,
                   wakeVars, bootVars, in_tick>>

SwitchStep(c) ==
    PrepareNothing(c) \/ Handoff(c) \/ Publish(c) \/ MaskForSwitch(c)
    \/ SaveOld(c) \/ LoadNew(c) \/ Resume(c)

-----------------------------------------------------------------------------
\* Every task of this kernel yields in a loop; a worker first reports the CPU
\* it was entered on.
TaskYields(c) ==
    /\ Executes(c, "run")
    /\ exec[c] \in TaskIds
    /\ worker_mask' = IF exec[c] \in {IdleTask, InitTask} THEN worker_mask
                      ELSE worker_mask \cup {c}
    /\ EnterPrepare(c)
    /\ UNCHANGED <<vars, wakeVars, boot, in_tick>>

\* The AP loop of ap_entry: mask interrupts ...
ApMasks(c) ==
    /\ Executes(c, "run")
    /\ c \in APs /\ exec[c] = IdleContext(c)
    /\ iflag' = [iflag EXCEPT ![c] = FALSE]
    /\ Goto(c, "check")
    /\ UNCHANGED <<vars, exec, resume_if, pair, slot_task, fresh, started,
                   wakeVars, bootVars, in_tick>>

\* ... then take a pending kick and hand off ...
ApTakesKick(c) ==
    /\ Executes(c, "check")
    /\ kick[c]
    /\ kick' = [kick EXCEPT ![c] = FALSE]
    /\ EnterPrepare(c)
    /\ UNCHANGED <<vars, ipi, ack, bootVars, in_tick>>

\* Fault: interrupts are enabled one instruction before the halt.
ApHaltsLate(c) ==
    /\ Executes(c, "check")
    /\ IF iflag[c] THEN Goto(c, "halted") ELSE ~kick[c] /\ UNCHANGED pc
    /\ iflag' = [iflag EXCEPT ![c] = TRUE]
    /\ UNCHANGED <<vars, exec, resume_if, pair, slot_task, fresh, started,
                   wakeVars, bootVars, in_tick>>

\* ... or enable interrupts and halt in one instruction pair.
ApHalts(c) ==
    /\ Executes(c, "check")
    /\ ~kick[c]
    /\ iflag' = [iflag EXCEPT ![c] = TRUE]
    /\ Goto(c, "halted")
    /\ UNCHANGED <<vars, exec, resume_if, pair, slot_task, fresh, started,
                   wakeVars, bootVars, in_tick>>

\* The probe interrupt: acknowledge_interrupt_probe records the kick and the
\* acknowledgement; a halted AP continues its loop.
ProbeInterrupt(c) ==
    /\ ipi[c] /\ iflag[c]
    /\ ipi' = [ipi EXCEPT ![c] = FALSE]
    /\ kick' = [kick EXCEPT ![c] = TRUE]
    /\ ack' = [ack EXCEPT ![c] = TRUE]
    /\ pc' = IF pc[c] = "halted" THEN [pc EXCEPT ![c] = "run"] ELSE pc
    /\ UNCHANGED <<vars, exec, iflag, resume_if, pair, slot_task, fresh, started,
                   bootVars, in_tick>>

-----------------------------------------------------------------------------
\* timer_tick_for_cpu(0), from the timer interrupt of the BSP: dispatch, which
\* may steal, and complete again at once.  A Busy or Idle result ends the tick
\* without a change.
TickDispatches ==
    /\ iflag[BSP] /\ ~in_tick
    /\ Dispatch(BSP)
    /\ slot_task' = [slot_task EXCEPT ![BSP] = current'[BSP]]
    /\ in_tick' = TRUE
    /\ UNCHANGED <<pc, exec, iflag, resume_if, pair, fresh, started, wakeVars, bootVars>>

TickCompletes ==
    /\ in_tick
    /\ Complete(BSP)
    /\ slot_task' = [slot_task EXCEPT ![BSP] = NoTask]
    /\ in_tick' = FALSE
    /\ UNCHANGED <<pc, exec, iflag, resume_if, pair, fresh, started, wakeVars, bootVars>>

-----------------------------------------------------------------------------
BootAt(at) ==
    /\ Executes(BSP, "run")
    /\ exec[BSP] = IdleContext(BSP)
    /\ boot.at = at

BootGoes(at) == boot' = [boot EXCEPT !.at = at]

\* configure_multicore with every AP online, init_cpu_scheduler of each slot.
BootConfigures ==
    /\ BootAt("configure")
    /\ Configure(MAX_CPUS)
    /\ slot_task' = [c \in Cpus |-> NoTask]
    /\ BootGoes("enqueue_idle")
    /\ UNCHANGED <<pc, exec, iflag, resume_if, pair, fresh, started, wakeVars,
                   worker_mask, in_tick>>

\* Fault: the last CPU gets no worker.
BootEnqueuesTooFew ==
    /\ \/ /\ BootAt("enqueue_idle")
          /\ EnqueueOnCpu(BSP, IdleTask)
          /\ BootGoes("enqueue_init")
       \/ /\ BootAt("enqueue_init")
          /\ EnqueueOnCpu(BSP, InitTask)
          /\ BootGoes("probe")
    /\ UNCHANGED <<cpuVars, wakeVars, worker_mask, in_tick>>

\* The tasks of the BSP are enqueued before any worker.
BootEnqueues ==
    /\ \/ /\ BootAt("enqueue_idle")
          /\ EnqueueOnCpu(BSP, IdleTask)
          /\ BootGoes("enqueue_init")
       \/ /\ BootAt("enqueue_init")
          /\ EnqueueOnCpu(BSP, InitTask)
          /\ BootGoes("enqueue_workers")
       \/ /\ BootAt("enqueue_workers")
          /\ EnqueueOnCpu(boot.cpu, WorkerTask(boot.cpu))
          /\ boot' = IF boot.cpu + 1 < MAX_CPUS
                     THEN [boot EXCEPT !.cpu = boot.cpu + 1]
                     ELSE [boot EXCEPT !.cpu = 1, !.at = "probe"]
    /\ UNCHANGED <<cpuVars, wakeVars, worker_mask, in_tick>>

\* stress_application_processors: clear the acknowledgement, send the IPI ...
BootProbes ==
    /\ BootAt("probe")
    /\ ack' = [ack EXCEPT ![boot.cpu] = FALSE]
    /\ ipi' = [ipi EXCEPT ![boot.cpu] = TRUE]
    /\ BootGoes("await")
    /\ UNCHANGED <<vars, cpuVars, kick, worker_mask, in_tick>>

\* ... and wait for the acknowledgement, or give up.  A round with a failure
\* is the last one.
BootProbed(timed_out) ==
    /\ BootAt("await")
    /\ ack[boot.cpu] \/ timed_out
    /\ LET failed == boot.failed \/ ~ack[boot.cpu]
           last_cpu == boot.cpu + 1 = MAX_CPUS
           last_round == failed \/ boot.round + 1 = StressRounds
       IN boot' = [at |-> IF last_cpu /\ last_round THEN "dequeue" ELSE "probe",
                   cpu |-> IF last_cpu THEN 1 ELSE boot.cpu + 1,
                   round |-> IF last_cpu THEN boot.round + 1 ELSE boot.round,
                   failed |-> failed]
    /\ UNCHANGED <<vars, cpuVars, wakeVars, worker_mask, in_tick>>

\* Phase 7: idle leaves the queue so that the handoff enters init, and comes
\* back when the boot code is resumed.
BootEntersInit ==
    /\ \/ /\ BootAt("dequeue")
          /\ Dequeue(BSP, IdleTask)
          /\ BootGoes("enter")
          /\ UNCHANGED cpuVars
       \/ /\ BootAt("enter")
          /\ BootGoes("restore")
          /\ EnterPrepare(BSP)
          /\ UNCHANGED vars
       \/ /\ BootAt("restore")
          /\ EnqueueOnCpu(BSP, IdleTask)
          /\ BootGoes("shell")
          /\ UNCHANGED cpuVars
    /\ UNCHANGED <<wakeVars, worker_mask, in_tick>>

\* The `yield` command of the shell.
ShellYields ==
    /\ BootAt("shell")
    /\ EnterPrepare(BSP)
    /\ UNCHANGED <<vars, wakeVars, bootVars, in_tick>>

BootStep ==
    BootConfigures \/ BootEnqueues \/ BootProbes \/ BootProbed(FALSE) \/ BootEntersInit

LoopStep(c) == ApMasks(c) \/ ApTakesKick(c) \/ ApHalts(c)

HandoffNext ==
    \/ \E c \in Cpus : SwitchStep(c) \/ TaskYields(c)
    \/ \E c \in APs : LoopStep(c) \/ ProbeInterrupt(c)
    \/ TickDispatches \/ TickCompletes
    \/ BootStep \/ BootProbed(TRUE) \/ ShellYields

\* A CPU keeps executing and takes the interrupts sent to it.  Between two
\* timer interrupts the BSP gets to execute, hence strong fairness for it.
HandoffSpec ==
    /\ HandoffInit
    /\ [][HandoffNext]_handoffVars
    /\ \A c \in Cpus : SF_handoffVars(SwitchStep(c) \/ TaskYields(c))
    /\ \A c \in APs : WF_handoffVars(LoopStep(c)) /\ WF_handoffVars(ProbeInterrupt(c))
    /\ WF_handoffVars(TickCompletes)
    /\ SF_handoffVars(BootStep)

-----------------------------------------------------------------------------
\* switch_context writes the registers of a CPU into the frame of the code
\* that CPU executes, and restores a frame its owner has completely saved:
\* not one another CPU still executes, nor one of a task that is back on its
\* queue but not yet written.  So no kernel stack is ever used by two CPUs.
HandoffUsesRightFrames ==
    \A c \in Cpus :
        /\ pc[c] = "save" => pair[c].old = exec[c]
        /\ pc[c] = "load" => pair[c].new \in fresh

\* Outside the scheduler the slot of a CPU names exactly the task the CPU
\* executes, and none while it executes its idle continuation: caller capture
\* of a system call (capture_caller_context) takes its identity from there.
SlotNamesRunningTask ==
    \A c \in Cpus : pc[c] = "run" /\ ~(c = BSP /\ in_tick) =>
        slot_task[c] = IF exec[c] \in TaskIds THEN exec[c] ELSE NoTask

\* "A fixed IPI can therefore never leave an AP asleep with work pending"
\* (ap_entry): every kick is consumed by the loop of its AP, however many
\* arrive and whatever the AP is doing when they do.
KickServed == \A c \in APs : kick[c] ~> ~kick[c]

\* Boot reaches the shell although probes may time out, and the worker of
\* every AP gets to run on that AP.
WorkersRun == <>(boot.at = "shell") /\ <>[](worker_mask = APs)
=============================================================================
