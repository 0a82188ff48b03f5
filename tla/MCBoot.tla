------------------------------- MODULE MCBoot -------------------------------
(***************************************************************************)
(* The two parts of boot on several processors, each over its own state:   *)
(* the bring-up of the APs, and the handoffs once they wait in their loop. *)
(* focus says which is followed.                                           *)
(***************************************************************************)
EXTENDS ContextHandoff, SmpBringup

VARIABLE focus

processorVars == <<focus, handoffVars, bringupVars>>

ProcessorsInit ==
    /\ focus \in {"handoff", "bringup"}
    /\ HandoffInit /\ BringupInit
    /\ focus = "bringup" => kick = [c \in Cpus |-> FALSE]

Follows(part, step, others) == focus = part /\ step /\ UNCHANGED <<focus, others>>

ProcessorsNext ==
    \/ Follows("handoff", HandoffNext, bringupVars)
    \/ Follows("bringup", BringupNext, handoffVars)

\* The fairness of HandoffSpec and BringupSpec.
ProcessorsSpec ==
    /\ ProcessorsInit
    /\ [][ProcessorsNext]_processorVars
    /\ \A c \in Cpus : SF_processorVars(Follows("handoff", SwitchStep(c) \/ TaskYields(c), bringupVars))
    /\ \A c \in APs : /\ WF_processorVars(Follows("handoff", LoopStep(c), bringupVars))
                      /\ WF_processorVars(Follows("handoff", ProbeInterrupt(c), bringupVars))
    /\ WF_processorVars(Follows("handoff", TickCompletes, bringupVars))
    /\ SF_processorVars(Follows("handoff", BootStep, bringupVars))
    /\ WF_processorVars(Follows("bringup", BspStep, handoffVars))

\* Boot goes on whatever the APs do: bring-up ends although APs start late,
\* never, or stop answering; and where the handoffs are followed, the shell is
\* reached although probes time out, and the worker of every AP runs there.
BootCompletes == IF focus = "handoff" THEN WorkersRun ELSE BringupEnds
=============================================================================
