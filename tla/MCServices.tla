----------------------------- MODULE MCServices -----------------------------
(***************************************************************************)
(* The kernel's services, each over its own state: the message queues, the *)
(* audit log, the system-call entry stub, the console, and the three parts *)
(* of the network of branes.  focus says which one is followed.  The       *)
(* console has a PS/2 keyboard or a USB keyboard.                          *)
(***************************************************************************)
EXTENDS Ipc, AuditLog, SyscallEntry, Console, BraneNetwork

VARIABLE focus

serviceVars == <<focus, ipcVars, auditVars, entryVars, consoleVars, braneVars>>

ServicesInit ==
    /\ focus \in {"ipc", "audit", "entry", "console", "sockets", "branes", "session"}
    /\ IpcInit /\ AuditInit /\ EntryInit /\ ConsoleInit /\ BraneInit
    /\ focus # "console" => ps2
    /\ transfer = IF ps2 THEN "idle" ELSE "armed"

\* A bound on keys and port events together: three keys and an event, or four
\* events and a report that use up the budgets of a pass and of the poll.
MaxInputs == 4

\* A step of the console, the others standing still.
AtConsole(step) ==
    /\ focus = "console" /\ step /\ typed' + ports' <= MaxInputs
    /\ UNCHANGED <<focus, ipcVars, auditVars, entryVars, braneVars>>

ServicesNext ==
    \/ focus = "ipc" /\ IpcNext /\ UNCHANGED <<focus, auditVars, entryVars, consoleVars, braneVars>>
    \/ focus = "audit" /\ AuditNext /\ UNCHANGED <<focus, ipcVars, entryVars, consoleVars, braneVars>>
    \/ focus = "entry" /\ EntryNext /\ UNCHANGED <<focus, ipcVars, auditVars, consoleVars, braneVars>>
    \/ AtConsole(ConsoleNext)
    \/ /\ \/ focus = "sockets" /\ Tables /\ UNCHANGED <<managerVars, sessionVars>>
          \/ focus = "branes" /\ Manages /\ UNCHANGED <<tableVars, sessionVars>>
          \/ focus = "session" /\ Sessions /\ UNCHANGED <<tableVars, managerVars>>
       /\ UNCHANGED <<focus, ipcVars, auditVars, entryVars, consoleVars>>

\* The fairness of ConsoleSpec.
ServicesSpec ==
    /\ ServicesInit
    /\ [][ServicesNext]_serviceVars
    /\ WF_serviceVars(AtConsole(ShellLoop))
    /\ WF_serviceVars(AtConsole(TimerInterrupt))
    /\ WF_serviceVars(AtConsole(XhciInterrupt))
    /\ WF_serviceVars(AtConsole(HandlerEchoes \/ \E key \in Keys : HandlerTypes(key)))
=============================================================================
