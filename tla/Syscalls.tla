------------------------------- MODULE Syscalls -------------------------------
(***************************************************************************)
(* System calls: dispatch and its handlers (kernel/src/syscall.rs), the    *)
(* process table (process.rs) and signals (signal.rs), over the capability *)
(* manager.                                                                *)
(*                                                                         *)
(* Every process has a task of its own and tasks run on several CPUs, so   *)
(* the calls of two processes interleave, and capabilities are granted and *)
(* revoked meanwhile.  A call runs with interrupts off: enter, authorize,  *)
(* handle, audit, deliver and return are its critical sections.  Delivery  *)
(* holds the signal manager's lock, which Kill needs, from end to end.     *)
(*                                                                         *)
(* A user context is represented by the signal handlers that are active in *)
(* it, and a return value by its kind.                                     *)
(***************************************************************************)
EXTENDS Capabilities, Sequences

CONSTANTS
    Pids,
    parent_pid,       \* pid -> pid, or 0 for None
    scheduler_task,   \* pid -> task
    Used,             \* the signals that processes send, mask and handle
    Workloads,        \* what the system is used for, by name
    Asked,            \* workload -> pid -> the calls the process may make
    Grants,           \* workload -> what the kernel may grant
    MaxCalls,         \* workload -> pid -> bound on the calls, for model checking
    MaxNesting        \* bound on handlers interrupted by handlers, likewise

DeliveryOrder ==
    <<"Kill", "Term", "Int", "Quit", "Hup", "Usr1", "Usr2", "Chld", "Cont", "Stop">>

Signals == {DeliveryOrder[i] : i \in 1..Len(DeliveryOrder)}
Rank(s) == CHOOSE i \in 1..Len(DeliveryOrder) : DeliveryOrder[i] = s

ASSUME ProcessesAssumption ==
    /\ Pids \subseteq Nat \ {0}
    /\ parent_pid \in [Pids -> Pids \cup {0}]
    /\ scheduler_task \in [Pids -> Tasks]
    /\ \A p, q \in Pids : scheduler_task[p] = scheduler_task[q] => p = q
    /\ Used \subseteq Signals /\ MaxNesting \in Nat
    /\ MaxCalls \in [Workloads -> [Pids -> Nat]]

VARIABLES
    workload,
    state, signal_pending, signal_blocked, saved_context,  \* of each process
    actions,           \* the signal tables
    pc,                \* where the process is in a call, "user" outside
    request,           \* SyscallContext
    capability_used,   \* id, 0 for none
    result,            \* what the call came to
    rax,               \* what dispatch returns, for the return register
    trail,             \* terminal audit events of the call
    effect,            \* whether the handler did what it was asked for
    handlers,          \* the signals whose handlers are active, innermost last
    owed,              \* for each of them, what the interrupted call came to
    issued,            \* every capability that was ever granted
    calls

process == <<workload, state, signal_pending, signal_blocked, saved_context, actions>>
user == <<handlers, owed>>
call == <<pc, request, capability_used, result, rax, trail, effect>>
syscallVars == <<capVars, process, call, user, issued, calls>>

-----------------------------------------------------------------------------
(* What can be asked for.                                                  *)

BadSignal == "bad"
NoPid == 0
NoRequest == [number |-> "none"]
NoContext == <<>>

Plain == {"Exit", "Yield", "GetPid", "GetTime", "GetSystemInfo", "SigReturn", "Recv"}
Unserved == {"Unknown", "Fork"}   \* no number, and the reserved numbers

Requests ==
    [number : Plain \cup Unserved]
    \cup [number : {"Write"}, fd : {1, 2}]
    \cup [number : {"Send"}, target : Pids \cup {NoPid}]
    \cup [number : {"Kill"}, target : Pids \cup {NoPid}, sig : Used \cup {BadSignal}]
    \cup [number : {"SigAction"}, sig : Used \cup {BadSignal}, action : {"Default", "Ignore", "Handler"}]
    \cup [number : {"SigProcMask"}, how : {"Block", "Unblock", "SetMask", "bad"}, set : SUBSET Used]

\* Processes make system calls, and the kernel grants capabilities.
ASSUME RequestsAssumption ==
    /\ Asked \in [Workloads -> [Pids -> SUBSET Requests]]
    /\ Grants \in [Workloads -> SUBSET [owner : Tasks, scope : CapScopes,
                                        permissions : SUBSET Permissions, revocable : BOOLEAN]]

SyscallInit ==
    /\ CapInit
    /\ workload \in Workloads
    /\ state = [p \in Pids |-> "Ready"]
    /\ signal_pending = [p \in Pids |-> {}]
    /\ signal_blocked = [p \in Pids |-> {}]
    /\ saved_context = [p \in Pids |-> NoContext]
    /\ actions = [p \in Pids |-> [s \in Signals |-> "Default"]]
    /\ pc = [p \in Pids |-> "user"]
    /\ request = [p \in Pids |-> NoRequest]
    /\ capability_used = [p \in Pids |-> 0]
    /\ result = [p \in Pids |-> "Ok"]
    /\ rax = [p \in Pids |-> "Ok"]
    /\ trail = [p \in Pids |-> <<>>]
    /\ effect = [p \in Pids |-> FALSE]
    /\ handlers = [p \in Pids |-> <<>>]
    /\ owed = [p \in Pids |-> <<>>]
    /\ issued = {}
    /\ calls = [p \in Pids |-> 0]

-----------------------------------------------------------------------------
(* The terminal event.                                                     *)

Step(p, from, to) == pc[p] = from /\ pc' = [pc EXCEPT ![p] = to]

\* log_syscall: appends one event with the result as it stands.
LogSyscall(p, r, cap) ==
    trail' = [trail EXCEPT ![p] = Append(@, [result |-> r, capability |-> cap])]

Comes(p, r) ==
    /\ result' = [result EXCEPT ![p] = r]
    /\ rax' = [rax EXCEPT ![p] = r]

-----------------------------------------------------------------------------
(* dispatch.                                                               *)

Asks(p, r) ==
    /\ r \in Asked[workload][p]
    /\ calls[p] < MaxCalls[workload][p]
    /\ calls' = [calls EXCEPT ![p] = @ + 1]

\* capture_caller_context finds the process of a task only while it lives.
Caller(p) == state[p] # "Terminated"

\* A number that no handler serves, or no trusted caller: refused and audited
\* before any policy is consulted.
Refuse(p, r) ==
    /\ Asks(p, r)
    /\ Step(p, "user", "return")
    /\ r.number \in Unserved \/ ~Caller(p)
    /\ request' = [request EXCEPT ![p] = r]
    /\ Comes(p, "Error")
    /\ LogSyscall(p, "Error", 0)
    /\ UNCHANGED <<capVars, process, capability_used, effect, user, issued>>

Enter(p, r) ==
    /\ Asks(p, r)
    /\ Step(p, "user", "authorize")
    /\ r.number \notin Unserved /\ Caller(p)
    /\ Len(handlers[p]) < MaxNesting \/ r.number = "SigReturn"
    /\ request' = [request EXCEPT ![p] = r]
    /\ UNCHANGED <<capVars, process, capability_used, result, rax, trail, effect, user, issued>>

\* Fault: a process may signal its parent as well.
IsRelative(p, target) ==
    target = p \/ (target \in Pids /\ (parent_pid[target] = p \/ parent_pid[p] = target))

IsSelfOrChild(p, target) == target = p \/ (target \in Pids /\ parent_pid[target] = p)

\* Calls of the rules Public and SelfOnly, and Kill of oneself or a child.
NeedsNoCapability(p) ==
    LET r == request[p] IN
    \/ r.number \in (Plain \ {"Recv"}) \cup {"SigAction", "SigProcMask"}
    \/ r.number = "Kill" /\ IsSelfOrChild(p, r.target)

ProcessScope(p) == <<"Process", scheduler_task[p]>>
VfsService == <<"Service", 1>>

\* The requirement of the other calls; a target that is no process has none.
Requirements(p) ==
    LET r == request[p] IN
    CASE r.number = "Write" -> {<<"WRITE", VfsService>>}
      [] r.number = "Recv" -> {<<"IPC_RECV", ProcessScope(p)>>}
      [] r.number = "Send" -> {<<"IPC_SEND", ProcessScope(q)>> : q \in Pids \cap {r.target}}
      [] r.number = "Kill" -> {<<"PROCESS_SIGNAL", ProcessScope(q)>> : q \in Pids \cap {r.target}}
      [] OTHER -> {}

AuthorizeFree(p) ==
    /\ Step(p, "authorize", "handle")
    /\ NeedsNoCapability(p)
    /\ UNCHANGED <<capVars, process, request, capability_used, result, rax, trail, effect, user, issued, calls>>

\* The manager's lock is released with the check.
AuthorizeByCapability(p) ==
    /\ Step(p, "authorize", "handle")
    /\ ~NeedsNoCapability(p)
    /\ \E need \in Requirements(p) :
        /\ Holds(scheduler_task[p], need[1], need[2])
        /\ capability_used' = [capability_used EXCEPT ![p] = FirstMatch(scheduler_task[p], need[1], need[2])]
    /\ UNCHANGED <<capVars, process, request, result, rax, trail, effect, user, issued, calls>>

Deny(p) ==
    /\ Step(p, "authorize", "return")
    /\ ~NeedsNoCapability(p)
    /\ \A need \in Requirements(p) : ~Holds(scheduler_task[p], need[1], need[2])
    /\ Comes(p, "Denied")
    /\ LogSyscall(p, "Denied", 0)
    /\ UNCHANGED <<capVars, process, request, capability_used, effect, user, issued, calls>>

-----------------------------------------------------------------------------
(* The handlers.                                                           *)

Handling(p, number) == Step(p, "handle", "audit") /\ request[p].number = number

\* The handler succeeds and has its effect.
Done(p) == Comes(p, "Ok") /\ effect' = [effect EXCEPT ![p] = TRUE]
Fails(p) == Comes(p, "Error") /\ UNCHANGED effect

\* Calls that change nothing that is modelled here.
HandlePlain(p) ==
    /\ \E number \in (Plain \ {"SigReturn", "Recv"}) \cup {"Send", "Recv", "Write"} : Handling(p, number)
    /\ IF request[p].number = "Recv" \/ (request[p].number = "Write" /\ request[p].fd # 1)
       THEN Fails(p)
       ELSE Done(p)
    /\ UNCHANGED <<capVars, process, request, capability_used, trail, user, issued, calls>>

HandleKill(p) ==
    LET r == request[p] IN
    /\ Handling(p, "Kill")
    /\ IF r.sig \in Signals /\ r.target \in Pids /\ state[r.target] # "Terminated"
       THEN /\ signal_pending' = [signal_pending EXCEPT ![r.target] = @ \cup {r.sig}]
            /\ Done(p)
       ELSE Fails(p) /\ UNCHANGED signal_pending
    /\ UNCHANGED <<capVars, workload, state, signal_blocked, saved_context, actions,
                   request, capability_used, trail, user, issued, calls>>

Unstoppable == {"Kill", "Stop"}

HandleSigAction(p) ==
    LET r == request[p] IN
    /\ Handling(p, "SigAction")
    /\ IF r.sig \in Signals \ Unstoppable
       THEN actions' = [actions EXCEPT ![p][r.sig] = r.action] /\ Done(p)
       ELSE Fails(p) /\ UNCHANGED actions
    /\ UNCHANGED <<capVars, workload, state, signal_pending, signal_blocked, saved_context,
                   request, capability_used, trail, user, issued, calls>>

\* Fault: only SIG_BLOCK guards what cannot be blocked.
MaskUnguarded(p) ==
    LET r == request[p] IN
    CASE r.how = "Block" -> signal_blocked[p] \cup (r.set \ Unstoppable)
      [] r.how = "Unblock" -> signal_blocked[p] \ r.set
      [] r.how = "SetMask" -> r.set

\* The new mask, from which what cannot be blocked is taken away again.
Mask(p) ==
    LET r == request[p] IN
    (CASE r.how = "Block" -> signal_blocked[p] \cup r.set
       [] r.how = "Unblock" -> signal_blocked[p] \ r.set
       [] r.how = "SetMask" -> r.set) \ Unstoppable

HandleSigProcMask(p) ==
    /\ Handling(p, "SigProcMask")
    /\ IF request[p].how # "bad"
       THEN signal_blocked' = [signal_blocked EXCEPT ![p] = Mask(p)] /\ Done(p)
       ELSE Fails(p) /\ UNCHANGED signal_blocked
    /\ UNCHANGED <<capVars, workload, state, signal_pending, saved_context, actions,
                   request, capability_used, trail, user, issued, calls>>

\* The user goes on where it was interrupted, with the value it was owed.
HandleSigReturn(p) ==
    /\ Handling(p, "SigReturn")
    /\ IF saved_context[p] # NoContext
       THEN LET saved == saved_context[p][1] IN
            /\ handlers' = [handlers EXCEPT ![p] = SubSeq(@, 1, saved.active)]
            /\ owed' = [owed EXCEPT ![p] = SubSeq(@, 1, saved.active)]
            /\ result' = [result EXCEPT ![p] = "Ok"]
            /\ rax' = [rax EXCEPT ![p] = saved.rax]
            /\ effect' = [effect EXCEPT ![p] = TRUE]
            /\ saved_context' = [saved_context EXCEPT ![p] = NoContext]
       ELSE Fails(p) /\ UNCHANGED <<saved_context, user>>
    /\ UNCHANGED <<capVars, workload, state, signal_pending, signal_blocked, actions,
                   request, capability_used, trail, issued, calls>>

\* Fault: the event is written for what the user will see.
AuditReturned(p) ==
    /\ Step(p, "audit", IF request[p].number \in {"Exit", "SigReturn"} THEN "return" ELSE "deliver")
    /\ LogSyscall(p, rax[p], capability_used[p])
    /\ UNCHANGED <<capVars, process, request, capability_used, result, rax, effect, user, issued, calls>>

\* The terminal event, before signals can touch the return register.
Audit(p) ==
    /\ Step(p, "audit", IF request[p].number \in {"Exit", "SigReturn"} THEN "return" ELSE "deliver")
    /\ LogSyscall(p, result[p], capability_used[p])
    /\ UNCHANGED <<capVars, process, request, capability_used, result, rax, effect, user, issued, calls>>

-----------------------------------------------------------------------------
(* deliver_pending.                                                        *)

Active(p) == signal_pending[p] \ signal_blocked[p]

\* Signals that are taken off the mask and passed over.
PassedOver(p, s) ==
    \/ actions[p][s] = "Ignore"
    \/ actions[p][s] = "Default" /\ s \in {"Chld", "Cont", "Stop"}

\* The first active signal, in the order of the scan, that ends it.
EndsScan(p, s) ==
    /\ s \in Active(p) /\ ~PassedOver(p, s)
    /\ \A t \in Active(p) : Rank(t) < Rank(s) => PassedOver(p, t)

\* Fault: the whole mask is cleared when a signal is delivered.
AfterScanEmpty(p, s) == signal_pending[p] \ Active(p)

\* What stays pending when the scan ends at s.
AfterScan(p, s) == signal_pending[p] \ {t \in Active(p) : Rank(t) <= Rank(s)}

DeliverNone(p) ==
    /\ Step(p, "deliver", "return")
    /\ \A s \in Active(p) : PassedOver(p, s)
    /\ signal_pending' = [signal_pending EXCEPT ![p] = @ \ Active(p)]
    /\ UNCHANGED <<capVars, workload, state, signal_blocked, saved_context, actions,
                   request, capability_used, result, rax, trail, effect, user, issued, calls>>

DeliverDefault(p) ==
    \E s \in Signals :
        /\ Step(p, "deliver", "return")
        /\ EndsScan(p, s) /\ actions[p][s] = "Default"
        /\ signal_pending' = [signal_pending EXCEPT ![p] = AfterScan(p, s)]
        /\ state' = [state EXCEPT ![p] = "Terminated"]
        /\ UNCHANGED <<capVars, workload, signal_blocked, saved_context, actions,
                       request, capability_used, result, rax, trail, effect, user, issued, calls>>

\* Fault: the context is saved after the return register was replaced.
DeliverSavesLate(p) ==
    \E s \in Signals :
        /\ Step(p, "deliver", "return")
        /\ EndsScan(p, s) /\ actions[p][s] = "Handler"
        /\ signal_pending' = [signal_pending EXCEPT ![p] = AfterScan(p, s)]
        /\ saved_context' = [saved_context EXCEPT ![p] = <<[active |-> Len(handlers[p]), rax |-> "Ok"]>>]
        /\ handlers' = [handlers EXCEPT ![p] = Append(@, s)]
        /\ owed' = [owed EXCEPT ![p] = Append(@, result[p])]
        /\ rax' = [rax EXCEPT ![p] = "Ok"]
        /\ UNCHANGED <<capVars, workload, state, signal_blocked, actions,
                       request, capability_used, result, trail, effect, issued, calls>>

\* The interrupted context is saved with the result it is owed, and the user
\* continues in the handler.
DeliverHandler(p) ==
    \E s \in Signals :
        /\ Step(p, "deliver", "return")
        /\ EndsScan(p, s) /\ actions[p][s] = "Handler"
        /\ signal_pending' = [signal_pending EXCEPT ![p] = AfterScan(p, s)]
        /\ saved_context' = [saved_context EXCEPT ![p] = <<[active |-> Len(handlers[p]), rax |-> rax[p]]>>]
        /\ handlers' = [handlers EXCEPT ![p] = Append(@, s)]
        /\ owed' = [owed EXCEPT ![p] = Append(@, result[p])]
        /\ rax' = [rax EXCEPT ![p] = "Ok"]
        /\ UNCHANGED <<capVars, workload, state, signal_blocked, actions,
                       request, capability_used, result, trail, effect, issued, calls>>

\* Back in ring 3.
Return(p) ==
    /\ Step(p, "return", "user")
    /\ request' = [request EXCEPT ![p] = NoRequest]
    /\ capability_used' = [capability_used EXCEPT ![p] = 0]
    /\ result' = [result EXCEPT ![p] = "Ok"]
    /\ rax' = [rax EXCEPT ![p] = "Ok"]
    /\ trail' = [trail EXCEPT ![p] = <<>>]
    /\ effect' = [effect EXCEPT ![p] = FALSE]
    /\ UNCHANGED <<capVars, process, user, issued, calls>>

-----------------------------------------------------------------------------
(* grant_capability and revoke_capability, from any CPU.                   *)

KernelGrants ==
    /\ \E g \in Grants[workload] : Grant(g.owner, g.scope, g.permissions, g.revocable)
    /\ issued' = issued \cup {capabilities'[s] : s \in {t \in CapSlots : ~Free(t)'}}
    /\ UNCHANGED <<process, call, user, calls>>

KernelRevokes ==
    /\ \E id \in 1..MaxGrants : Revoke(id)
    /\ UNCHANGED <<process, call, user, issued, calls>>

SyscallNext ==
    \/ KernelGrants \/ KernelRevokes
    \/ \E p \in Pids :
        \/ \E r \in Asked[workload][p] : Refuse(p, r) \/ Enter(p, r)
        \/ AuthorizeFree(p) \/ AuthorizeByCapability(p) \/ Deny(p)
        \/ HandlePlain(p) \/ HandleKill(p) \/ HandleSigAction(p)
        \/ HandleSigProcMask(p) \/ HandleSigReturn(p)
        \/ Audit(p)
        \/ DeliverNone(p) \/ DeliverDefault(p) \/ DeliverHandler(p)
        \/ Return(p)

SyscallSpec == SyscallInit /\ [][SyscallNext]_syscallVars

-----------------------------------------------------------------------------
\* No sequence of masks and handlers holds off a kill where signals are
\* delivered: a process that goes through deliver_pending with Kill pending is
\* terminated there.  Calls that return without delivery (SigReturn, refused
\* and unknown ones) are not spoken of; the process lives on after them.
KillTerminates ==
    [][\A p \in Pids :
           pc[p] = "deliver" /\ pc'[p] = "return" /\ "Kill" \in signal_pending[p]
               => state'[p] = "Terminated"]_syscallVars

\* A signal leaves the pending mask only in the owner's own delivery, unblocked,
\* and then it is ignored, ends the process or its handler is what the user
\* executes next; a signal is never dropped because another one is delivered.
SignalNotLost ==
    [][\A p \in Pids : \A s \in signal_pending[p] \ signal_pending'[p] :
           /\ pc[p] = "deliver" /\ s \notin signal_blocked[p]
           /\ \/ PassedOver(p, s)
              \/ actions[p][s] = "Default" /\ state'[p] = "Terminated"
              \/ actions[p][s] = "Handler" /\ handlers'[p] = Append(handlers[p], s)]_syscallVars

\* A signal is only raised by the process itself, its parent, or a process that
\* was given PROCESS_SIGNAL over exactly that target ("no caller supplied
\* capability ID is accepted", syscall.rs).
SignalsAuthorized ==
    [][\A q \in Pids : \A s \in signal_pending'[q] \ signal_pending[q] :
           \E p \in Pids :
               /\ pc[p] = "handle" /\ pc'[p] = "audit"
               /\ \/ p = q \/ parent_pid[q] = p
                  \/ \E c \in issued : /\ c.id = capability_used[p]
                                       /\ c.owner = scheduler_task[p]
                                       /\ c.scope = ProcessScope(q)
                                       /\ "PROCESS_SIGNAL" \in c.permissions]_syscallVars

\* Every call ends with exactly one terminal event, which says what the call
\* came to: "a signal may replace the return register, but cannot turn a
\* denied/failed operation into an audited success" (syscall.rs).
AuditTruthful ==
    \A p \in Pids : pc[p] = "return" =>
        /\ Len(trail[p]) = 1
        /\ (trail[p][1].result = "Ok") <=> effect[p]

\* "SigReturn restores the original UserContext (including rax = original
\* syscall return value)" (tests.rs): the frame that SigReturn would take is
\* the one of the context that the innermost handler interrupted.  (After a
\* handler was itself interrupted there is none left for the outer one.)
SigReturnRestores ==
    \A p \in Pids : pc[p] = "user" /\ saved_context[p] # NoContext =>
        LET n == Len(handlers[p]) IN
        saved_context[p] = <<[active |-> n - 1, rax |-> owed[p][n]]>>

=============================================================================
