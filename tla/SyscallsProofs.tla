---------------------------- MODULE SyscallsProofs ----------------------------
(***************************************************************************)
(* The capability manager for every table size, every set of tasks and     *)
(* scopes and any number of grants: ids name one capability for ever, and  *)
(* only revocable capabilities can go.  Then system calls, signals and     *)
(* capability checks, for any set of processes, any mix of calls and any   *)
(* interleaving of them with grants and revocations.                       *)
(***************************************************************************)
EXTENDS Syscalls, SequenceTheorems, WellFoundedInduction, TLAPS

-----------------------------------------------------------------------------
(* The capability manager.                                                 *)

\* What a granted capability looks like: never the empty slot.
LEMMA RecordNotEmpty ==
    ASSUME NEW maxId \in Nat, NEW c \in CapabilityRecords(maxId)
    PROVE  /\ c # NoCap
           /\ c.id \in 1..maxId
           /\ c.revocable \in BOOLEAN
BY DEF CapabilityRecords, NoCap

\* The record that grant stores is a capability.
LEMMA GrantedIsRecord ==
    ASSUME NEW maxId \in Nat, NEW i \in 1..maxId, NEW owner \in Tasks, NEW scope \in CapScopes,
           NEW permissions \in SUBSET Permissions, NEW revocable \in BOOLEAN
    PROVE  [id |-> i, owner |-> owner, scope |-> scope, permissions |-> permissions,
            revocable |-> revocable] \in CapabilityRecords(maxId)
BY DEF CapabilityRecords

-----------------------------------------------------------------------------
(* Types.                                                                  *)

\* The empty table and the first id that CapabilityBroker::new sets up.
LEMMA CapTypeInit == CapInit => CapTypeOK
BY CapabilitiesAssumption DEF CapInit, CapTypeOK

\* Grant and revoke, the only operations that write the table, keep the types.
LEMMA CapTypeNext == CapTypeOK /\ [CapNext]_capVars => CapTypeOK'
<1> SUFFICES ASSUME CapTypeOK, [CapNext]_capVars
             PROVE  CapTypeOK'
    OBVIOUS
<1> USE CapabilitiesAssumption
<1>1. ASSUME NEW owner \in Tasks, NEW scope \in CapScopes, NEW permissions \in SUBSET Permissions,
             NEW revocable \in BOOLEAN, Grant(owner, scope, permissions, revocable)
      PROVE  CapTypeOK'
    <2> DEFINE c == [id |-> next_id, owner |-> owner, scope |-> scope,
                     permissions |-> permissions, revocable |-> revocable]
    <2>1. next_id \in 1..MaxGrants
        BY <1>1 DEF Grant, CapTypeOK
    <2>2. c \in CapabilityRecords(MaxGrants)
        BY <2>1, GrantedIsRecord
    <2>3. PICK s \in CapSlots : capabilities' = [capabilities EXCEPT ![s] = c]
        BY <1>1 DEF Grant
    <2> HIDE DEF c
    <2>4. capabilities' \in [CapSlots -> CapabilityRecords(MaxGrants) \cup {NoCap}]
        BY <2>2, <2>3 DEF CapTypeOK
    <2>5. next_id' \in 1..(MaxGrants + 1)
        BY <1>1, <2>1 DEF Grant
    <2> QED BY <2>4, <2>5 DEF CapTypeOK
<1>2. ASSUME NEW id \in 1..MaxGrants, Revoke(id)
      PROVE  CapTypeOK'
    BY <1>2 DEF Revoke, CapTypeOK
<1>3. CASE UNCHANGED capVars
    BY <1>3 DEF capVars, CapTypeOK
<1> QED BY <1>1, <1>2, <1>3 DEF CapNext

\* Table and counter have their types in every state.
THEOREM CapTypeCorrect == CapSpec => []CapTypeOK
BY CapTypeInit, CapTypeNext, PTL DEF CapSpec

-----------------------------------------------------------------------------
(* Ids.                                                                    *)

\* Grant stamps the counter, which is above every id handed out so far, and
\* revoke only empties a slot: no step makes two slots share an id.
LEMMA IdsUniqueNext == CapTypeOK /\ CapTypeOK' /\ IdsUnique /\ [CapNext]_capVars => IdsUnique'
<1> SUFFICES ASSUME CapTypeOK, CapTypeOK', IdsUnique, [CapNext]_capVars
             PROVE  IdsUnique'
    OBVIOUS
<1> USE CapabilitiesAssumption
<1>1. ASSUME NEW owner \in Tasks, NEW scope \in CapScopes, NEW permissions \in SUBSET Permissions,
             NEW revocable \in BOOLEAN, Grant(owner, scope, permissions, revocable)
      PROVE  IdsUnique'
    <2> DEFINE c == [id |-> next_id, owner |-> owner, scope |-> scope,
                     permissions |-> permissions, revocable |-> revocable]
    <2>1. PICK s \in CapSlots : capabilities' = [capabilities EXCEPT ![s] = c]
        BY <1>1 DEF Grant
    <2>2. c.id = next_id /\ next_id' = next_id + 1 /\ next_id \in Nat
        BY <1>1 DEF Grant, CapTypeOK
    <2> HIDE DEF c
    <2>3. /\ capabilities'[s].id = next_id
          /\ \A t \in CapSlots \ {s} : capabilities'[t] = capabilities[t]
        BY <2>1, <2>2 DEF CapTypeOK
    <2>4. \A t \in CapSlots \ {s} : ~Free(t)' => capabilities'[t].id < next_id /\ capabilities'[t].id \in Nat
        BY <2>3, RecordNotEmpty DEF IdsUnique, Free, CapTypeOK
    <2>5. ASSUME NEW t \in CapSlots, ~Free(t)'
          PROVE  capabilities'[t].id < next_id'
        BY <2>2, <2>3, <2>4, <2>5
    <2>6. ASSUME NEW t \in CapSlots, NEW u \in CapSlots, ~Free(t)', ~Free(u)',
                 capabilities'[t].id = capabilities'[u].id
          PROVE  t = u
        <3>1. CASE t # s /\ u # s
            BY <2>3, <2>6, <3>1 DEF IdsUnique, Free
        <3>2. CASE t = s \/ u = s
            BY <2>2, <2>3, <2>4, <2>6, <3>2
        <3> QED BY <3>1, <3>2
    <2> QED BY <2>5, <2>6 DEF IdsUnique
<1>2. ASSUME NEW id \in 1..MaxGrants, Revoke(id)
      PROVE  IdsUnique'
    BY <1>2 DEF Revoke, IdsUnique, Free, CapTypeOK
<1>3. CASE UNCHANGED capVars
    BY <1>3 DEF capVars, IdsUnique, Free
<1> QED BY <1>1, <1>2, <1>3 DEF CapNext

\* An id names at most one capability, in every state.
THEOREM IdsAlwaysUnique == CapSpec => []IdsUnique
<1>1. CapInit => IdsUnique
    BY DEF CapInit, IdsUnique, Free
<1> QED BY <1>1, CapTypeCorrect, IdsUniqueNext, PTL DEF CapSpec

-----------------------------------------------------------------------------
(* Revocation.                                                             *)

\* One step of the broker brings no id below the counter back into the table.
LEMMA RevokedStep ==
    ASSUME CapTypeOK, CapNext, NEW id \in 1..MaxGrants, id < next_id, id \notin Ids
    PROVE  id \notin Ids'
<1> USE CapabilitiesAssumption
<1>1. ASSUME NEW owner \in Tasks, NEW scope \in CapScopes, NEW permissions \in SUBSET Permissions,
             NEW revocable \in BOOLEAN, Grant(owner, scope, permissions, revocable)
      PROVE  id \notin Ids'
    <2> DEFINE c == [id |-> next_id, owner |-> owner, scope |-> scope,
                     permissions |-> permissions, revocable |-> revocable]
    <2>1. PICK s \in CapSlots : capabilities' = [capabilities EXCEPT ![s] = c]
        BY <1>1 DEF Grant
    <2>2. c.id = next_id /\ next_id \in Nat
        BY DEF CapTypeOK
    <2> HIDE DEF c
    <2>3. ASSUME NEW t \in CapSlots, ~Free(t)', capabilities'[t].id = id
          PROVE  FALSE
        <3>1. t # s
            BY <2>1, <2>2, <2>3 DEF CapTypeOK
        <3>2. capabilities'[t] = capabilities[t]
            BY <2>1, <3>1 DEF CapTypeOK
        <3> QED BY <2>3, <3>2 DEF Ids, Free
    <2> QED BY <2>3 DEF Ids
<1>2. ASSUME NEW i \in 1..MaxGrants, Revoke(i)
      PROVE  id \notin Ids'
    BY <1>2 DEF Revoke, Ids, Free, CapTypeOK
<1> QED BY <1>1, <1>2 DEF CapNext

\* A revoked id is dead: grant never gives it out again, whatever slot it uses.
THEOREM RevokedForEver == CapSpec => RevokedStaysRevoked
<1>1. CapTypeOK /\ [CapNext]_capVars =>
          [\A id \in 1..MaxGrants : id < next_id /\ id \notin Ids => id \notin Ids']_capVars
    BY RevokedStep
<1> QED BY <1>1, CapTypeCorrect, PTL DEF CapSpec, RevokedStaysRevoked

\* One step of the broker leaves a capability granted as permanent where it is.
LEMMA PermanentStep ==
    ASSUME CapTypeOK, IdsUnique, CapNext, NEW s \in CapSlots, ~Free(s), ~capabilities[s].revocable
    PROVE  capabilities'[s] = capabilities[s]
<1>1. ASSUME NEW owner \in Tasks, NEW scope \in CapScopes, NEW permissions \in SUBSET Permissions,
             NEW revocable \in BOOLEAN, Grant(owner, scope, permissions, revocable)
      PROVE  capabilities'[s] = capabilities[s]
    <2> DEFINE c == [id |-> next_id, owner |-> owner, scope |-> scope,
                     permissions |-> permissions, revocable |-> revocable]
    <2>1. PICK t \in CapSlots : FirstFree(t) /\ capabilities' = [capabilities EXCEPT ![t] = c]
        BY <1>1 DEF Grant
    <2> HIDE DEF c
    <2>2. s # t
        BY <2>1 DEF FirstFree
    <2> QED BY <2>1, <2>2 DEF CapTypeOK
<1>2. ASSUME NEW i \in 1..MaxGrants, Revoke(i)
      PROVE  capabilities'[s] = capabilities[s]
    BY <1>2 DEF Revoke, CapTypeOK
<1> QED BY <1>1, <1>2 DEF CapNext

\* What was granted for good stays: grant takes free slots only and revoke
\* leaves a permanent capability alone.
THEOREM PermanentForEver == CapSpec => PermanentStays
<1>1. CapTypeOK /\ IdsUnique /\ [CapNext]_capVars =>
          [\A s \in CapSlots :
              ~Free(s) /\ ~capabilities[s].revocable => capabilities'[s] = capabilities[s]]_capVars
    BY PermanentStep
<1> QED BY <1>1, CapTypeCorrect, IdsAlwaysUnique, PTL DEF CapSpec, PermanentStays

-----------------------------------------------------------------------------
(* System calls.                                                           *)

Results == {"Ok", "Error", "Denied"}
SavedContexts == {<<c>> : c \in [active : Nat, rax : Results]}
TerminalEvents == [result : Results, capability : Nat]
Points == {"user", "authorize", "handle", "audit", "deliver", "return"}

ProcessTypeOK ==
    /\ workload \in Workloads
    /\ state \in [Pids -> {"Ready", "Terminated"}]
    /\ signal_pending \in [Pids -> SUBSET Signals]
    /\ signal_blocked \in [Pids -> SUBSET Signals]
    /\ saved_context \in [Pids -> SavedContexts \cup {NoContext}]
    /\ actions \in [Pids -> [Signals -> {"Default", "Ignore", "Handler"}]]

CallTypeOK ==
    /\ pc \in [Pids -> Points]
    /\ request \in [Pids -> Requests \cup {NoRequest}]
    /\ capability_used \in [Pids -> Nat]
    /\ result \in [Pids -> Results]
    /\ rax \in [Pids -> Results]
    /\ trail \in [Pids -> Seq(TerminalEvents)]
    /\ effect \in [Pids -> BOOLEAN]

UserTypeOK ==
    /\ handlers \in [Pids -> Seq(Signals)]
    /\ owed \in [Pids -> Seq(Results)]

\* A process has a request exactly while it is in a call.
RequestHeld == \A p \in Pids : pc[p] # "user" => request[p] \in Requests

\* The variables of the processes, their calls and their user side have their
\* types, and so has the capability table.
SyscallTypeOK == CapTypeOK /\ ProcessTypeOK /\ CallTypeOK /\ UserTypeOK /\ RequestHeld

\* The saved frame is the one of the context that the innermost handler
\* interrupted, with the value that the interrupted call came to.
FrameInv ==
    \A p \in Pids :
        /\ Len(owed[p]) = Len(handlers[p])
        /\ saved_context[p] # NoContext =>
              LET n == Len(handlers[p]) IN
              n > 0 /\ saved_context[p] = <<[active |-> n - 1, rax |-> owed[p][n]]>>

\* The terminal event is written once, after the handler, and says whether the
\* handler had its effect; until a signal is delivered the return register
\* holds the result, unless SigReturn replaced it.
AuditInv ==
    \A p \in Pids :
        /\ pc[p] \in {"user", "authorize", "handle"} => trail[p] = <<>> /\ ~effect[p]
        /\ pc[p] = "audit" => /\ trail[p] = <<>> /\ (effect[p] <=> result[p] = "Ok")
                              /\ rax[p] = result[p] \/ request[p].number = "SigReturn"
        /\ pc[p] = "deliver" => rax[p] = result[p]
        /\ pc[p] \in {"deliver", "return"} =>
              Len(trail[p]) = 1 /\ ((trail[p][1].result = "Ok") <=> effect[p])

\* Kill and Stop are never blocked and keep their default actions.
UnstoppableInv ==
    \A p \in Pids : /\ signal_blocked[p] \cap Unstoppable = {}
                    /\ \A s \in Unstoppable : actions[p][s] = "Default"

\* Everything in the table was issued, and a process that is about to send a
\* signal may: to itself, to a child, or by a capability that it was issued.
MaySignal(p, q) ==
    \/ p = q \/ parent_pid[q] = p
    \/ \E c \in issued : /\ c.id = capability_used[p]
                         /\ c.owner = scheduler_task[p]
                         /\ c.scope = ProcessScope(q)
                         /\ "PROCESS_SIGNAL" \in c.permissions

AuthorityInv ==
    /\ \A s \in CapSlots : ~Free(s) => capabilities[s] \in issued
    /\ \A p \in Pids :
          pc[p] = "handle" /\ request[p].number = "Kill" /\ request[p].target \in Pids
              => MaySignal(p, request[p].target)

\* The inductive invariant.
SyscallInv == SyscallTypeOK /\ FrameInv /\ AuditInv /\ UnstoppableInv /\ AuthorityInv

-----------------------------------------------------------------------------
(* The operators.                                                          *)

\* The fields of each kind of request, as dispatch decodes them.
LEMMA RequestFields ==
    ASSUME NEW r \in Requests
    PROVE  /\ r.number = "Kill" => r.target \in Pids \cup {NoPid} /\ r.sig \in Used \cup {BadSignal}
           /\ r.number = "SigAction" => /\ r.sig \in Used \cup {BadSignal}
                                        /\ r.action \in {"Default", "Ignore", "Handler"}
           /\ r.number = "SigProcMask" => /\ r.how \in {"Block", "Unblock", "SetMask", "bad"}
                                          /\ r.set \in SUBSET Used
BY DEF Requests, Plain, Unserved

\* A bad signal number is no signal.
LEMMA BadSignalIsNone == BadSignal \notin Signals
BY DEF BadSignal, Signals, DeliveryOrder

\* deliver_pending scans a list without repetitions that starts with Kill: a
\* signal is known by its place.
LEMMA RankOrders ==
    /\ \A s \in Signals : Rank(s) \in 1..10 /\ DeliveryOrder[Rank(s)] = s
    /\ Rank("Kill") = 1
    /\ {"Kill", "Stop", "Chld", "Cont"} \subseteq Signals
<1>1. Len(DeliveryOrder) = 10
    BY DEF DeliveryOrder
<1>2. ASSUME NEW s \in Signals
      PROVE  Rank(s) \in 1..10 /\ DeliveryOrder[Rank(s)] = s
    <2>1. \E i \in 1..10 : DeliveryOrder[i] = s
        BY <1>1 DEF Signals
    <2> QED BY <1>1, <2>1 DEF Rank
<1>3. {"Kill", "Stop", "Chld", "Cont"} \subseteq Signals
    <2>1. /\ DeliveryOrder[1] = "Kill" /\ DeliveryOrder[8] = "Chld"
          /\ DeliveryOrder[9] = "Cont" /\ DeliveryOrder[10] = "Stop"
        BY DEF DeliveryOrder
    <2> QED BY <1>1, <2>1 DEF Signals
<1>4. \A i \in 1..10 : DeliveryOrder[i] = "Kill" => i = 1
    BY DEF DeliveryOrder
<1> QED BY <1>2, <1>3, <1>4

\* The new mask is a set of signals that can be blocked.
LEMMA MaskBlocks ==
    ASSUME SyscallTypeOK, NEW p \in Pids, request[p] \in Requests,
           request[p].number = "SigProcMask", request[p].how # "bad"
    PROVE  Mask(p) \in SUBSET Signals /\ Mask(p) \cap Unstoppable = {}
BY RequestFields, ProcessesAssumption DEF Mask, Unstoppable, SyscallTypeOK, ProcessTypeOK

\* check returns the id of a capability in the table that matches.
LEMMA FirstMatchMatches ==
    ASSUME CapTypeOK, NEW task, NEW required, NEW scope, Holds(task, required, scope)
    PROVE  \E s \in CapSlots :
               Matches(s, task, required, scope) /\ FirstMatch(task, required, scope) = capabilities[s].id
<1> DEFINE T == {s \in CapSlots : Matches(s, task, required, scope)}
<1>1. T # {} /\ T \subseteq Nat
    BY CapabilitiesAssumption DEF Holds, CapSlots
<1>2. PICK s \in T : \A t \in T : ~(<<t, s>> \in OpToRel(<, Nat))
    BY <1>1, NatLessThanWellFounded, WFMin
<1>3. \A t \in CapSlots : t < s => ~Matches(t, task, required, scope)
    BY <1>1, <1>2 DEF OpToRel
<1>4. \E x \in CapSlots : /\ Matches(x, task, required, scope)
                          /\ \A t \in CapSlots : t < x => ~Matches(t, task, required, scope)
    BY <1>2, <1>3
<1> QED BY <1>4 DEF FirstMatch

\* What a grant or a revocation does to the table, whoever is in a call.
LEMMA KernelIsBroker ==
    ASSUME workload \in Workloads, KernelGrants \/ KernelRevokes
    PROVE  CapNext
<1>1. ASSUME KernelGrants
      PROVE  CapNext
    <2>1. PICK g \in Grants[workload] : Grant(g.owner, g.scope, g.permissions, g.revocable)
        BY <1>1 DEF KernelGrants
    <2>2. g \in [owner : Tasks, scope : CapScopes, permissions : SUBSET Permissions, revocable : BOOLEAN]
        BY <2>1, RequestsAssumption
    <2> QED BY <2>1, <2>2 DEF CapNext
<1>2. ASSUME KernelRevokes
      PROVE  CapNext
    BY <1>2 DEF KernelRevokes, CapNext
<1> QED BY <1>1, <1>2

-----------------------------------------------------------------------------
(* Types.                                                                  *)

\* Processes start in user mode, ready, with no signal and no handler.
LEMMA SyscallTypeInit == SyscallInit => SyscallTypeOK
<1> SUFFICES ASSUME SyscallInit
             PROVE  SyscallTypeOK
    OBVIOUS
<1>1. CapTypeOK
    BY CapTypeInit DEF SyscallInit
<1>2. ProcessTypeOK
    BY DEF SyscallInit, ProcessTypeOK
<1>3. CallTypeOK /\ RequestHeld
    BY DEF SyscallInit, CallTypeOK, RequestHeld, Points, Results
<1>4. UserTypeOK
    BY DEF SyscallInit, UserTypeOK
<1> QED BY <1>1, <1>2, <1>3, <1>4 DEF SyscallTypeOK

\* A call that is refused or denied is one event in the trail.
LEMMA EventAppended ==
    ASSUME CallTypeOK, NEW p \in Pids, NEW r \in Results, NEW c \in Nat, LogSyscall(p, r, c)
    PROVE  trail' \in [Pids -> Seq(TerminalEvents)]
<1> DEFINE e == [result |-> r, capability |-> c]
<1>1. e \in TerminalEvents
    BY DEF TerminalEvents
<1>2. trail' = [trail EXCEPT ![p] = Append(trail[p], e)]
    BY DEF LogSyscall
<1> HIDE DEF e
<1> QED BY <1>1, <1>2 DEF CallTypeOK

\* Grants and revocations, dispatch up to the handler, and the return keep the
\* types.
LEMMA DispatchTypes ==
    ASSUME SyscallTypeOK, NEW p \in Pids,
           \/ \E r \in Asked[workload][p] : Refuse(p, r) \/ Enter(p, r)
           \/ AuthorizeFree(p) \/ AuthorizeByCapability(p) \/ Deny(p) \/ Return(p)
    PROVE  SyscallTypeOK'
<1> USE DEF SyscallTypeOK, CallTypeOK, RequestHeld, Step, Points
<1>0. CapTypeOK' /\ ProcessTypeOK' /\ UserTypeOK'
    BY DEF Refuse, Enter, AuthorizeFree, AuthorizeByCapability, Deny, Return, capVars, process, user,
           CapTypeOK, ProcessTypeOK, UserTypeOK
<1>1. ASSUME NEW r \in Asked[workload][p], Refuse(p, r)
      PROVE  SyscallTypeOK'
    <2>1. r \in Requests
        BY RequestsAssumption DEF ProcessTypeOK
    <2>2. trail' \in [Pids -> Seq(TerminalEvents)]
        BY <1>1, EventAppended DEF Refuse, Results
    <2> QED BY <1>0, <1>1, <2>1, <2>2 DEF Refuse, Comes, Results
<1>2. ASSUME NEW r \in Asked[workload][p], Enter(p, r)
      PROVE  SyscallTypeOK'
    <2>1. r \in Requests
        BY RequestsAssumption DEF ProcessTypeOK
    <2> QED BY <1>0, <1>2, <2>1 DEF Enter
<1>3. CASE AuthorizeFree(p)
    BY <1>0, <1>3 DEF AuthorizeFree
<1>4. CASE AuthorizeByCapability(p)
    <2>1. PICK need \in Requirements(p) :
              /\ Holds(scheduler_task[p], need[1], need[2])
              /\ capability_used' = [capability_used EXCEPT ![p] = FirstMatch(scheduler_task[p], need[1], need[2])]
        BY <1>4 DEF AuthorizeByCapability
    <2>2. PICK s \in CapSlots : /\ Matches(s, scheduler_task[p], need[1], need[2])
                                /\ FirstMatch(scheduler_task[p], need[1], need[2]) = capabilities[s].id
        <3>1. CapTypeOK
            OBVIOUS
        <3> QED BY ONLY <2>1, <3>1, FirstMatchMatches
    <2>3. capabilities[s].id \in Nat
        BY <2>2, RecordNotEmpty, CapabilitiesAssumption DEF Matches, Free, CapTypeOK
    <2>4. capability_used' \in [Pids -> Nat]
        BY <2>1, <2>2, <2>3
    <2> QED BY <1>0, <1>4, <2>4 DEF AuthorizeByCapability
<1>5. CASE Deny(p)
    <2>1. trail' \in [Pids -> Seq(TerminalEvents)]
        BY <1>5, EventAppended DEF Deny, Results
    <2> QED BY <1>0, <1>5, <2>1 DEF Deny, Comes, Results
<1>6. CASE Return(p)
    BY <1>0, <1>6 DEF Return, Results
<1> QED BY <1>1, <1>2, <1>3, <1>4, <1>5, <1>6

\* What the saved frame of a process says about its handlers.
LEMMA FrameFacts ==
    ASSUME SyscallTypeOK, FrameInv, NEW p \in Pids
    PROVE  LET n == Len(handlers[p]) IN
           /\ n \in Nat /\ Len(owed[p]) = n
           /\ saved_context[p] # NoContext =>
                 n > 0 /\ saved_context[p][1].active = n - 1 /\ saved_context[p][1].rax = owed[p][n]
<1>1. Len(handlers[p]) \in Nat
    BY DEF SyscallTypeOK, UserTypeOK
<1>2. Len(owed[p]) = Len(handlers[p])
    BY DEF FrameInv
<1>3. ASSUME saved_context[p] # NoContext
      PROVE  /\ Len(handlers[p]) > 0
             /\ saved_context[p] = <<[active |-> Len(handlers[p]) - 1, rax |-> owed[p][Len(handlers[p])]]>>
    BY <1>3 DEF FrameInv
<1> QED BY <1>1, <1>2, <1>3

\* The handlers keep the types.
LEMMA HandlerTypes ==
    ASSUME SyscallTypeOK, FrameInv, NEW p \in Pids,
           \/ HandlePlain(p) \/ HandleKill(p) \/ HandleSigAction(p)
           \/ HandleSigProcMask(p) \/ HandleSigReturn(p)
    PROVE  SyscallTypeOK'
<1> USE DEF SyscallTypeOK, CallTypeOK, RequestHeld, Handling, Step, Points
<1>1. CASE HandlePlain(p)
    <2>1. CapTypeOK' /\ ProcessTypeOK' /\ UserTypeOK'
        BY <1>1 DEF HandlePlain, capVars, process, user, CapTypeOK, ProcessTypeOK, UserTypeOK
    <2>2. Done(p) \/ Fails(p)
        BY <1>1 DEF HandlePlain
    <2>3. pc[p] = "handle" /\ pc' = [pc EXCEPT ![p] = "audit"]
        BY <1>1 DEF HandlePlain
    <2> QED BY <1>1, <2>1, <2>2, <2>3 DEF HandlePlain, Done, Fails, Comes, Results
<1>2. CASE HandleKill(p)
    <2>1. CapTypeOK' /\ UserTypeOK'
        BY <1>2 DEF HandleKill, capVars, user, CapTypeOK, UserTypeOK
    <2>2. ProcessTypeOK'
        <3>1. \/ UNCHANGED signal_pending
              \/ \E s \in Signals, t \in Pids :
                     signal_pending' = [signal_pending EXCEPT ![t] = signal_pending[t] \cup {s}]
            BY <1>2 DEF HandleKill
        <3>2. signal_pending' \in [Pids -> SUBSET Signals]
            <4>1. signal_pending \in [Pids -> SUBSET Signals]
                BY DEF ProcessTypeOK
            <4> QED BY ONLY <3>1, <4>1
        <3>3. UNCHANGED <<workload, state, signal_blocked, saved_context, actions>>
            BY <1>2 DEF HandleKill
        <3> QED BY <3>2, <3>3 DEF ProcessTypeOK
    <2>3. Done(p) \/ Fails(p)
        BY <1>2 DEF HandleKill
    <2> QED BY <1>2, <2>1, <2>2, <2>3 DEF HandleKill, Done, Fails, Comes, Results
<1>3. CASE HandleSigAction(p)
    <2>1. CapTypeOK' /\ UserTypeOK'
        BY <1>3 DEF HandleSigAction, capVars, user, CapTypeOK, UserTypeOK
    <2>2. request[p].action \in {"Default", "Ignore", "Handler"}
        BY <1>3, RequestFields DEF HandleSigAction
    <2>3. ProcessTypeOK'
        <3>1. \/ UNCHANGED actions
              \/ \E s \in Signals, a \in {"Default", "Ignore", "Handler"} :
                     actions' = [actions EXCEPT ![p] = [actions[p] EXCEPT ![s] = a]]
            BY <1>3, <2>2 DEF HandleSigAction
        <3>2. actions' \in [Pids -> [Signals -> {"Default", "Ignore", "Handler"}]]
            <4>1. actions \in [Pids -> [Signals -> {"Default", "Ignore", "Handler"}]]
                BY DEF ProcessTypeOK
            <4> QED BY ONLY <3>1, <4>1
        <3>3. UNCHANGED <<workload, state, signal_pending, signal_blocked, saved_context>>
            BY <1>3 DEF HandleSigAction
        <3> QED BY <3>2, <3>3 DEF ProcessTypeOK
    <2>4. Done(p) \/ Fails(p)
        BY <1>3 DEF HandleSigAction
    <2> QED BY <1>3, <2>1, <2>3, <2>4 DEF HandleSigAction, Done, Fails, Comes, Results
<1>4. CASE HandleSigProcMask(p)
    <2>1. CapTypeOK' /\ UserTypeOK'
        BY <1>4 DEF HandleSigProcMask, capVars, user, CapTypeOK, UserTypeOK
    <2>2. request[p].how # "bad" => Mask(p) \in SUBSET Signals
        BY <1>4, MaskBlocks DEF HandleSigProcMask
    <2>3. ProcessTypeOK'
        BY <1>4, <2>2 DEF HandleSigProcMask, ProcessTypeOK
    <2>4. Done(p) \/ Fails(p)
        BY <1>4 DEF HandleSigProcMask
    <2> QED BY <1>4, <2>1, <2>3, <2>4 DEF HandleSigProcMask, Done, Fails, Comes, Results
<1>5. CASE HandleSigReturn(p)
    <2>1. CASE saved_context[p] = NoContext
        <3>1. CapTypeOK' /\ ProcessTypeOK' /\ UserTypeOK'
            BY <1>5, <2>1 DEF HandleSigReturn, capVars, user, CapTypeOK, ProcessTypeOK, UserTypeOK
        <3>2. Fails(p)
            BY <1>5, <2>1 DEF HandleSigReturn
        <3> QED BY <1>5, <3>1, <3>2 DEF HandleSigReturn, Fails, Comes, Results
    <2>2. CASE saved_context[p] # NoContext
        <3>1. PICK saved \in [active : Nat, rax : Results] : saved_context[p] = <<saved>>
            BY <2>2 DEF ProcessTypeOK, SavedContexts
        <3>2. saved_context[p][1] = saved
            BY <3>1
        <3>3. /\ handlers' = [handlers EXCEPT ![p] = SubSeq(handlers[p], 1, saved.active)]
              /\ owed' = [owed EXCEPT ![p] = SubSeq(owed[p], 1, saved.active)]
              /\ result' = [result EXCEPT ![p] = "Ok"]
              /\ rax' = [rax EXCEPT ![p] = saved.rax]
              /\ effect' = [effect EXCEPT ![p] = TRUE]
              /\ saved_context' = [saved_context EXCEPT ![p] = NoContext]
            BY <1>5, <2>2, <3>2 DEF HandleSigReturn
        <3>4. CapTypeOK' /\ ProcessTypeOK'
            BY <1>5, <3>3 DEF HandleSigReturn, capVars, CapTypeOK, ProcessTypeOK
        <3>5. saved.active \in 0..Len(handlers[p]) /\ saved.active \in 0..Len(owed[p])
            BY <2>2, <3>2, FrameFacts
        <3>6. /\ SubSeq(handlers[p], 1, saved.active) \in Seq(Signals)
              /\ SubSeq(owed[p], 1, saved.active) \in Seq(Results)
            <4>1. /\ \A i \in 1..saved.active : handlers[p][i] \in Signals
                  /\ \A i \in 1..saved.active : owed[p][i] \in Results
                BY <3>5 DEF UserTypeOK
            <4>2. saved.active \in Int /\ 1 \in Int
                BY <3>5
            <4> QED BY ONLY <4>1, <4>2, SubSeqProperties
        <3>7. UserTypeOK'
            BY <3>3, <3>6 DEF UserTypeOK
        <3> QED BY <1>5, <3>1, <3>3, <3>4, <3>7 DEF HandleSigReturn, Results
    <2> QED BY <2>1, <2>2
<1> QED BY <1>1, <1>2, <1>3, <1>4, <1>5

\* The audit event and the delivery of signals keep the types.
LEMMA DeliveryTypes ==
    ASSUME SyscallTypeOK, NEW p \in Pids,
           Audit(p) \/ DeliverNone(p) \/ DeliverDefault(p) \/ DeliverHandler(p)
    PROVE  SyscallTypeOK'
<1> USE DEF SyscallTypeOK, CallTypeOK, RequestHeld, Step, Points
<1>1. CASE Audit(p)
    <2>1. CapTypeOK' /\ ProcessTypeOK' /\ UserTypeOK'
        BY <1>1 DEF Audit, capVars, process, user, CapTypeOK, ProcessTypeOK, UserTypeOK
    <2>2. trail' \in [Pids -> Seq(TerminalEvents)]
        BY <1>1, EventAppended DEF Audit
    <2> QED BY <1>1, <2>1, <2>2 DEF Audit
<1>2. CASE DeliverNone(p)
    <2>1. CapTypeOK' /\ UserTypeOK'
        BY <1>2 DEF DeliverNone, capVars, user, CapTypeOK, UserTypeOK
    <2>2. ProcessTypeOK'
        BY <1>2 DEF DeliverNone, ProcessTypeOK
    <2> QED BY <1>2, <2>1, <2>2 DEF DeliverNone
<1>3. CASE DeliverDefault(p)
    <2>1. CapTypeOK' /\ UserTypeOK'
        BY <1>3 DEF DeliverDefault, capVars, user, CapTypeOK, UserTypeOK
    <2>2. ProcessTypeOK'
        BY <1>3 DEF DeliverDefault, ProcessTypeOK, AfterScan
    <2> QED BY <1>3, <2>1, <2>2 DEF DeliverDefault
<1>4. CASE DeliverHandler(p)
    <2> DEFINE saved == [active |-> Len(handlers[p]), rax |-> rax[p]]
    <2>1. PICK s \in Signals :
              /\ signal_pending' = [signal_pending EXCEPT ![p] = AfterScan(p, s)]
              /\ saved_context' = [saved_context EXCEPT ![p] = <<saved>>]
              /\ handlers' = [handlers EXCEPT ![p] = Append(handlers[p], s)]
              /\ owed' = [owed EXCEPT ![p] = Append(owed[p], result[p])]
        BY <1>4 DEF DeliverHandler
    <2>2. CapTypeOK'
        BY <1>4 DEF DeliverHandler, capVars, CapTypeOK
    <2>3. saved \in [active : Nat, rax : Results]
        BY DEF UserTypeOK
    <2> HIDE DEF saved
    <2>4. saved_context' \in [Pids -> SavedContexts \cup {NoContext}]
        BY <2>1, <2>3 DEF ProcessTypeOK, SavedContexts
    <2>5. signal_pending' \in [Pids -> SUBSET Signals]
        BY <2>1 DEF ProcessTypeOK, AfterScan
    <2>6. ProcessTypeOK'
        BY <1>4, <2>4, <2>5 DEF DeliverHandler, ProcessTypeOK
    <2>7. UserTypeOK'
        BY <2>1 DEF UserTypeOK
    <2> QED BY <1>4, <2>2, <2>6, <2>7 DEF DeliverHandler, Results
<1> QED BY <1>1, <1>2, <1>3, <1>4

\* Every step keeps the types, given that a saved frame fits its handlers.
LEMMA SyscallTypeNext ==
    ASSUME SyscallTypeOK, FrameInv, [SyscallNext]_syscallVars
    PROVE  SyscallTypeOK'
<1>1. CASE KernelGrants \/ KernelRevokes
    <2>1. CapTypeOK'
        BY <1>1, KernelIsBroker, CapTypeNext DEF SyscallTypeOK, ProcessTypeOK
    <2>2. UNCHANGED <<process, call, user>>
        BY <1>1 DEF KernelGrants, KernelRevokes
    <2> QED BY <2>1, <2>2 DEF SyscallTypeOK, ProcessTypeOK, CallTypeOK, UserTypeOK, RequestHeld,
                              process, call, user
<1>2. CASE UNCHANGED syscallVars
    BY <1>2 DEF SyscallTypeOK, CapTypeOK, ProcessTypeOK, CallTypeOK, UserTypeOK, RequestHeld,
                syscallVars, capVars, process, call, user
<1> QED BY <1>1, <1>2, DispatchTypes, HandlerTypes, DeliveryTypes DEF SyscallNext

-----------------------------------------------------------------------------
(* The frame that SigReturn takes.                                         *)

\* Only a delivered handler pushes a frame and only SigReturn takes it off; the
\* frame holds what the interrupted call came to because nothing has replaced
\* the return register yet.
LEMMA FrameNext ==
    ASSUME SyscallTypeOK, FrameInv, AuditInv, [SyscallNext]_syscallVars
    PROVE  FrameInv'
<1>1. ASSUME NEW p \in Pids, HandleSigReturn(p), saved_context[p] # NoContext
      PROVE  FrameInv'
    <2> DEFINE n == Len(handlers[p])
    <2>1. n \in Nat /\ n > 0 /\ Len(owed[p]) = n /\ saved_context[p][1].active = n - 1
        BY <1>1, FrameFacts
    <2>2. /\ handlers' = [handlers EXCEPT ![p] = SubSeq(handlers[p], 1, n - 1)]
          /\ owed' = [owed EXCEPT ![p] = SubSeq(owed[p], 1, n - 1)]
          /\ saved_context' = [saved_context EXCEPT ![p] = NoContext]
        BY <1>1, <2>1 DEF HandleSigReturn
    <2>3. Len(SubSeq(handlers[p], 1, n - 1)) = Len(SubSeq(owed[p], 1, n - 1))
        BY <2>1 DEF SyscallTypeOK, UserTypeOK
    <2> QED BY <2>2, <2>3 DEF FrameInv, SyscallTypeOK, UserTypeOK, ProcessTypeOK
<1>2. ASSUME NEW p \in Pids, DeliverHandler(p)
      PROVE  FrameInv'
    <2> DEFINE n == Len(handlers[p])
    <2>1. PICK s \in Signals :
              /\ saved_context' = [saved_context EXCEPT ![p] = <<[active |-> n, rax |-> rax[p]]>>]
              /\ handlers' = [handlers EXCEPT ![p] = Append(handlers[p], s)]
              /\ owed' = [owed EXCEPT ![p] = Append(owed[p], result[p])]
        BY <1>2 DEF DeliverHandler
    <2>2. rax[p] = result[p]
        BY <1>2 DEF DeliverHandler, Step, AuditInv
    <2>3. n \in Nat /\ Len(owed[p]) = n
        BY FrameFacts
    <2>4. /\ Len(Append(handlers[p], s)) = n + 1
          /\ Len(Append(owed[p], result[p])) = n + 1
          /\ Append(owed[p], result[p])[n + 1] = result[p]
        BY <2>3 DEF SyscallTypeOK, UserTypeOK
    <2> QED BY <2>1, <2>2, <2>3, <2>4 DEF FrameInv, SyscallTypeOK, UserTypeOK, ProcessTypeOK
<1>3. ASSUME UNCHANGED <<handlers, owed, saved_context>>
      PROVE  FrameInv'
    BY <1>3 DEF FrameInv
<1>4. ASSUME NEW p \in Pids, NEW r, Refuse(p, r) \/ Enter(p, r)
      PROVE  UNCHANGED <<handlers, owed, saved_context>>
    BY <1>4 DEF Refuse, Enter, process, user
<1>5. ASSUME NEW p \in Pids, \/ AuthorizeFree(p) \/ AuthorizeByCapability(p) \/ Deny(p) \/ Return(p)
                             \/ Audit(p) \/ DeliverNone(p) \/ DeliverDefault(p)
      PROVE  UNCHANGED <<handlers, owed, saved_context>>
    BY <1>5 DEF AuthorizeFree, AuthorizeByCapability, Deny, Return, Audit, DeliverNone, DeliverDefault,
                process, user
<1>6. ASSUME NEW p \in Pids, \/ HandlePlain(p) \/ HandleKill(p) \/ HandleSigAction(p) \/ HandleSigProcMask(p)
                             \/ HandleSigReturn(p) /\ saved_context[p] = NoContext
      PROVE  UNCHANGED <<handlers, owed, saved_context>>
    BY <1>6 DEF HandlePlain, HandleKill, HandleSigAction, HandleSigProcMask, HandleSigReturn, process, user
<1>7. ASSUME KernelGrants \/ KernelRevokes \/ UNCHANGED syscallVars
      PROVE  UNCHANGED <<handlers, owed, saved_context>>
    BY <1>7 DEF KernelGrants, KernelRevokes, syscallVars, process, user
<1> QED BY <1>1, <1>2, <1>3, <1>4, <1>5, <1>6, <1>7 DEF SyscallNext

-----------------------------------------------------------------------------
(* The terminal event.                                                     *)

\* A handler leaves the trail alone, and its effect and its result agree.
LEMMA HandlersAgree ==
    ASSUME SyscallTypeOK, AuditInv, NEW p \in Pids,
           \/ HandlePlain(p) \/ HandleKill(p) \/ HandleSigAction(p)
           \/ HandleSigProcMask(p) \/ HandleSigReturn(p)
    PROVE  AuditInv'
<1> USE DEF SyscallTypeOK, CallTypeOK, AuditInv
<1>1. /\ pc[p] = "handle" /\ pc' = [pc EXCEPT ![p] = "audit"]
      /\ UNCHANGED <<trail, request>>
    BY DEF HandlePlain, HandleKill, HandleSigAction, HandleSigProcMask, HandleSigReturn, Handling, Step
<1>2. ASSUME Done(p) \/ Fails(p)
      PROVE  AuditInv'
    BY <1>1, <1>2 DEF Done, Fails, Comes
<1>3. ASSUME HandleSigReturn(p), saved_context[p] # NoContext
      PROVE  AuditInv'
    <2>1. PICK v : /\ rax' = [rax EXCEPT ![p] = v]
                   /\ result' = [result EXCEPT ![p] = "Ok"]
                   /\ effect' = [effect EXCEPT ![p] = TRUE]
                   /\ request[p].number = "SigReturn"
        BY <1>3 DEF HandleSigReturn, Handling
    <2> QED BY <1>1, <2>1
<1>4. Done(p) \/ Fails(p) \/ (HandleSigReturn(p) /\ saved_context[p] # NoContext)
    BY DEF HandlePlain, HandleKill, HandleSigAction, HandleSigProcMask, HandleSigReturn
<1> QED BY <1>2, <1>3, <1>4

\* One event is appended to an empty trail.
LEMMA FirstEvent ==
    ASSUME SyscallTypeOK, NEW p \in Pids, NEW r \in Results, NEW c \in Nat, trail[p] = <<>>,
           LogSyscall(p, r, c)
    PROVE  /\ Len(trail'[p]) = 1 /\ trail'[p][1].result = r
           /\ \A q \in Pids \ {p} : trail'[q] = trail[q]
<1> DEFINE e == [result |-> r, capability |-> c]
<1>1. trail' = [trail EXCEPT ![p] = Append(<<>>, e)]
    BY DEF LogSyscall
<1>2. e.result = r
    OBVIOUS
<1> HIDE DEF e
<1>3. trail'[p] = Append(<<>>, e) /\ \A q \in Pids \ {p} : trail'[q] = trail[q]
    BY <1>1 DEF SyscallTypeOK, CallTypeOK
<1>4. Len(Append(<<>>, e)) = 1 /\ Append(<<>>, e)[1] = e
    OBVIOUS
<1> QED BY <1>2, <1>3, <1>4

\* No step writes a second event, or one that disagrees with what was done.
LEMMA AuditNext ==
    ASSUME SyscallTypeOK, AuditInv, [SyscallNext]_syscallVars
    PROVE  AuditInv'
<1> USE DEF SyscallTypeOK, CallTypeOK, Step
<1>1. ASSUME NEW p \in Pids, NEW r, Refuse(p, r)
      PROVE  AuditInv'
    <2>1. Len(trail'[p]) = 1 /\ trail'[p][1].result = "Error" /\ \A q \in Pids \ {p} : trail'[q] = trail[q]
        BY <1>1, FirstEvent DEF Refuse, Results, AuditInv
    <2> QED BY <1>1, <2>1 DEF Refuse, Comes, AuditInv
<1>2. ASSUME NEW p \in Pids, NEW r, Enter(p, r)
      PROVE  AuditInv'
    BY <1>2 DEF Enter, AuditInv
<1>3. ASSUME NEW p \in Pids, AuthorizeFree(p) \/ AuthorizeByCapability(p)
      PROVE  AuditInv'
    BY <1>3 DEF AuthorizeFree, AuthorizeByCapability, AuditInv
<1>4. ASSUME NEW p \in Pids, Deny(p)
      PROVE  AuditInv'
    <2>1. Len(trail'[p]) = 1 /\ trail'[p][1].result = "Denied" /\ \A q \in Pids \ {p} : trail'[q] = trail[q]
        BY <1>4, FirstEvent DEF Deny, Results, AuditInv
    <2> QED BY <1>4, <2>1 DEF Deny, Comes, AuditInv
<1>5. ASSUME NEW p \in Pids, Audit(p)
      PROVE  AuditInv'
    <2> DEFINE to == IF request[p].number \in {"Exit", "SigReturn"} THEN "return" ELSE "deliver"
    <2>1. /\ pc[p] = "audit" /\ pc' = [pc EXCEPT ![p] = to]
          /\ LogSyscall(p, result[p], capability_used[p])
          /\ UNCHANGED <<request, result, rax, effect>>
        BY <1>5 DEF Audit
    <2>2. to \in {"deliver", "return"} /\ (to = "deliver" => request[p].number # "SigReturn")
        OBVIOUS
    <2> HIDE DEF to
    <2>3. /\ trail[p] = <<>> /\ (effect[p] <=> result[p] = "Ok")
          /\ rax[p] = result[p] \/ request[p].number = "SigReturn"
        BY <2>1 DEF AuditInv
    <2>4. Len(trail'[p]) = 1 /\ trail'[p][1].result = result[p] /\ \A q \in Pids \ {p} : trail'[q] = trail[q]
        BY <2>1, <2>3, FirstEvent
    <2> QED BY <2>1, <2>2, <2>3, <2>4 DEF AuditInv
<1>6. ASSUME NEW p \in Pids, DeliverNone(p) \/ DeliverDefault(p) \/ DeliverHandler(p)
      PROVE  AuditInv'
    <2>1. /\ pc[p] = "deliver" /\ pc' = [pc EXCEPT ![p] = "return"]
          /\ UNCHANGED <<request, result, trail, effect>>
          /\ \A q \in Pids \ {p} : rax'[q] = rax[q]
        BY <1>6 DEF DeliverNone, DeliverDefault, DeliverHandler
    <2> QED BY <2>1 DEF AuditInv
<1>7. ASSUME NEW p \in Pids, Return(p)
      PROVE  AuditInv'
    BY <1>7 DEF Return, AuditInv
<1>8. CASE KernelGrants \/ KernelRevokes \/ UNCHANGED syscallVars
    BY <1>8 DEF KernelGrants, KernelRevokes, syscallVars, call, AuditInv
<1> QED BY <1>1, <1>2, <1>3, <1>4, <1>5, <1>6, <1>7, <1>8, HandlersAgree DEF SyscallNext

-----------------------------------------------------------------------------
(* What cannot be stopped.                                                 *)

\* SigProcMask takes Kill and Stop out of every mask and SigAction refuses
\* them; nothing else writes masks or actions.
LEMMA UnstoppableNext ==
    ASSUME SyscallTypeOK, UnstoppableInv, [SyscallNext]_syscallVars
    PROVE  UnstoppableInv'
<1>1. ASSUME NEW p \in Pids, HandleSigProcMask(p)
      PROVE  UnstoppableInv'
    <2>1. UNCHANGED actions
        BY <1>1 DEF HandleSigProcMask
    <2>2. \/ UNCHANGED signal_blocked
          \/ /\ request[p].how # "bad"
             /\ signal_blocked' = [signal_blocked EXCEPT ![p] = Mask(p)]
        BY <1>1 DEF HandleSigProcMask
    <2>3. request[p].how # "bad" => Mask(p) \cap Unstoppable = {}
        BY <1>1, MaskBlocks DEF HandleSigProcMask, Handling, Step, SyscallTypeOK, RequestHeld
    <2> HIDE DEF Mask
    <2> QED BY <2>1, <2>2, <2>3 DEF UnstoppableInv, SyscallTypeOK, ProcessTypeOK
<1>2. ASSUME NEW p \in Pids, HandleSigAction(p)
      PROVE  UnstoppableInv'
    <2>1. UNCHANGED signal_blocked
        BY <1>2 DEF HandleSigAction
    <2>2. \/ UNCHANGED actions
          \/ \E s \in Signals \ Unstoppable, a \in {"Default", "Ignore", "Handler"} :
                 actions' = [actions EXCEPT ![p] = [actions[p] EXCEPT ![s] = a]]
        <3>1. request[p].action \in {"Default", "Ignore", "Handler"}
            BY <1>2, RequestFields DEF HandleSigAction, Handling, Step, SyscallTypeOK, RequestHeld
        <3> QED BY <1>2, <3>1 DEF HandleSigAction
    <2>3. \A q \in Pids, u \in Unstoppable : actions'[q][u] = actions[q][u]
        <3>1. Unstoppable \subseteq Signals
            BY RankOrders DEF Unstoppable
        <3>2. actions \in [Pids -> [Signals -> {"Default", "Ignore", "Handler"}]]
            BY DEF SyscallTypeOK, ProcessTypeOK
        <3> QED BY ONLY <2>2, <3>1, <3>2
    <2> QED BY <2>1, <2>3 DEF UnstoppableInv
<1>3. ASSUME UNCHANGED <<signal_blocked, actions>>
      PROVE  UnstoppableInv'
    BY <1>3 DEF UnstoppableInv
<1>4. ASSUME NEW p \in Pids, NEW r, Refuse(p, r) \/ Enter(p, r)
      PROVE  UNCHANGED <<signal_blocked, actions>>
    BY <1>4 DEF Refuse, Enter, process
<1>5. ASSUME NEW p \in Pids, \/ AuthorizeFree(p) \/ AuthorizeByCapability(p) \/ Deny(p) \/ Return(p)
                             \/ Audit(p) \/ DeliverNone(p) \/ DeliverDefault(p) \/ DeliverHandler(p)
                             \/ HandlePlain(p) \/ HandleKill(p) \/ HandleSigReturn(p)
      PROVE  UNCHANGED <<signal_blocked, actions>>
    BY <1>5 DEF AuthorizeFree, AuthorizeByCapability, Deny, Return, Audit, DeliverNone, DeliverDefault,
                DeliverHandler, HandlePlain, HandleKill, HandleSigReturn, process
<1>6. ASSUME KernelGrants \/ KernelRevokes \/ UNCHANGED syscallVars
      PROVE  UNCHANGED <<signal_blocked, actions>>
    BY <1>6 DEF KernelGrants, KernelRevokes, syscallVars, process
<1> QED BY <1>1, <1>2, <1>3, <1>4, <1>5, <1>6 DEF SyscallNext

-----------------------------------------------------------------------------
(* Who may signal whom.                                                    *)

\* What dispatch requires of a Kill of another process.
LEMMA KillRequirement ==
    ASSUME NEW p \in Pids, request[p].number = "Kill", NEW need \in Requirements(p)
    PROVE  \E q \in Pids \cap {request[p].target} : need = <<"PROCESS_SIGNAL", ProcessScope(q)>>
<1>1. Requirements(p) = {<<"PROCESS_SIGNAL", ProcessScope(q)>> : q \in Pids \cap {request[p].target}}
    <2>1. /\ ~(request[p].number = "Write") /\ ~(request[p].number = "Recv")
          /\ ~(request[p].number = "Send")
        OBVIOUS
    <2> QED BY <2>1, Zenon DEF Requirements
<1> QED BY <1>1

\* A signal is on its way only with authority: the check of dispatch leaves a
\* capability that was issued to the caller over exactly the target, and
\* revocation meanwhile does not make it another one.
LEMMA AuthorityNext ==
    ASSUME SyscallTypeOK, AuthorityInv, [SyscallNext]_syscallVars
    PROVE  AuthorityInv'
<1>1. CASE KernelGrants
    <2>1. /\ issued' = issued \cup {capabilities'[s] : s \in {t \in CapSlots : ~Free(t)'}}
          /\ UNCHANGED <<pc, request, capability_used>>
        BY <1>1 DEF KernelGrants, call
    <2>2. issued \subseteq issued'
        BY <2>1
    <2>3. \A s \in CapSlots : ~Free(s)' => capabilities'[s] \in issued'
        BY <2>1
    <2>4. \A p, q \in Pids : MaySignal(p, q) => MaySignal(p, q)'
        BY <2>1, <2>2 DEF MaySignal, ProcessScope
    <2> QED BY <2>1, <2>3, <2>4 DEF AuthorityInv
<1>2. CASE KernelRevokes
    <2>1. UNCHANGED <<issued, pc, request, capability_used>>
        BY <1>2 DEF KernelRevokes, call
    <2>2. PICK id \in 1..MaxGrants : Revoke(id)
        BY <1>2 DEF KernelRevokes
    <2>3. PICK u \in CapSlots : capabilities' = [capabilities EXCEPT ![u] = NoCap]
        BY <2>2 DEF Revoke
    <2>4. \A s \in CapSlots : ~Free(s)' => ~Free(s) /\ capabilities'[s] = capabilities[s]
        BY <2>3 DEF Free, SyscallTypeOK, CapTypeOK
    <2>5. \A p, q \in Pids : MaySignal(p, q) => MaySignal(p, q)'
        BY <2>1 DEF MaySignal, ProcessScope
    <2> QED BY <2>1, <2>4, <2>5 DEF AuthorityInv
<1>3. ASSUME NEW p \in Pids, AuthorizeFree(p) \/ AuthorizeByCapability(p),
             request[p].number = "Kill", request[p].target \in Pids
      PROVE  MaySignal(p, request[p].target)'
    <2>1. CASE AuthorizeFree(p)
        <3>1. IsSelfOrChild(p, request[p].target)
            BY <1>3, <2>1 DEF AuthorizeFree, NeedsNoCapability, Plain
        <3> QED BY <2>1, <3>1 DEF AuthorizeFree, IsSelfOrChild, MaySignal
    <2>2. CASE AuthorizeByCapability(p)
        <3> DEFINE t == request[p].target
        <3>1. PICK need \in Requirements(p) :
                  /\ Holds(scheduler_task[p], need[1], need[2])
                  /\ capability_used' = [capability_used EXCEPT ![p] = FirstMatch(scheduler_task[p], need[1], need[2])]
            BY <2>2 DEF AuthorizeByCapability
        <3>2. need = <<"PROCESS_SIGNAL", ProcessScope(t)>>
            BY <1>3, KillRequirement
        <3>3. need[1] = "PROCESS_SIGNAL" /\ need[2] = ProcessScope(t)
            BY <3>2
        <3>4. PICK s \in CapSlots : /\ Matches(s, scheduler_task[p], need[1], need[2])
                                    /\ FirstMatch(scheduler_task[p], need[1], need[2]) = capabilities[s].id
            <4>1. CapTypeOK
                BY DEF SyscallTypeOK
            <4> QED BY ONLY <3>1, <4>1, FirstMatchMatches
        <3>5. capabilities[s] \in issued
            BY <3>4 DEF Matches, AuthorityInv
        <3>6. capability_used'[p] = capabilities[s].id
            BY <3>1, <3>4 DEF SyscallTypeOK, CallTypeOK
        <3>7. /\ capabilities[s].owner = scheduler_task[p]
              /\ capabilities[s].scope = ProcessScope(t)
              /\ "PROCESS_SIGNAL" \in capabilities[s].permissions
            BY <3>3, <3>4 DEF Matches
        <3>8. UNCHANGED <<issued, request>>
            BY <2>2 DEF AuthorizeByCapability
        <3> HIDE DEF t
        <3>9. MaySignal(p, t)'
            BY <3>5, <3>6, <3>7, <3>8 DEF MaySignal, ProcessScope, t
        <3> QED BY <3>9 DEF t
    <2> QED BY <1>3, <2>1, <2>2
<1>4. ASSUME UNCHANGED <<capabilities, issued>>,
             \A q \in Pids : pc'[q] = "handle" =>
                 pc[q] = "handle" /\ request'[q] = request[q] /\ capability_used'[q] = capability_used[q]
      PROVE  AuthorityInv'
    <2>1. \A s \in CapSlots : ~Free(s)' => capabilities'[s] \in issued'
        BY <1>4 DEF Free, AuthorityInv
    <2>2. ASSUME NEW q \in Pids, pc'[q] = "handle", request'[q].number = "Kill", request'[q].target \in Pids
          PROVE  MaySignal(q, request[q].target)'
        <3>1. MaySignal(q, request[q].target)
            BY <1>4, <2>2 DEF AuthorityInv
        <3>2. request'[q] = request[q] /\ capability_used'[q] = capability_used[q]
            BY <1>4, <2>2
        <3> QED BY <1>4, <3>1, <3>2 DEF MaySignal, ProcessScope
    <2> QED BY <2>1, <2>2 DEF AuthorityInv
<1>5. ASSUME NEW p \in Pids, AuthorizeFree(p) \/ AuthorizeByCapability(p)
      PROVE  AuthorityInv'
    <2>1. /\ UNCHANGED <<capabilities, issued, request>>
          /\ pc' = [pc EXCEPT ![p] = "handle"]
          /\ \A q \in Pids \ {p} : capability_used'[q] = capability_used[q]
        BY <1>5 DEF AuthorizeFree, AuthorizeByCapability, Step, capVars, SyscallTypeOK, CallTypeOK
    <2>2. \A s \in CapSlots : ~Free(s)' => capabilities'[s] \in issued'
        BY <2>1 DEF Free, AuthorityInv
    <2>3. ASSUME NEW q \in Pids, pc'[q] = "handle", request'[q].number = "Kill", request'[q].target \in Pids
          PROVE  MaySignal(q, request[q].target)'
        <3>1. CASE q = p
            BY <1>3, <1>5, <2>1, <2>3, <3>1
        <3>2. CASE q # p
            <4>1. pc[q] = "handle"
                BY <2>1, <2>3, <3>2 DEF SyscallTypeOK, CallTypeOK
            <4>2. MaySignal(q, request[q].target)
                BY <2>1, <2>3, <4>1 DEF AuthorityInv
            <4> QED BY <2>1, <3>2, <4>2 DEF MaySignal, ProcessScope
        <3> QED BY <3>1, <3>2
    <2> QED BY <2>2, <2>3 DEF AuthorityInv
<1>6. ASSUME NEW p \in Pids, \/ \E r \in Asked[workload][p] : Refuse(p, r) \/ Enter(p, r)
                             \/ Deny(p) \/ Audit(p) \/ DeliverNone(p) \/ DeliverDefault(p)
                             \/ DeliverHandler(p) \/ Return(p)
                             \/ HandlePlain(p) \/ HandleKill(p) \/ HandleSigAction(p)
                             \/ HandleSigProcMask(p) \/ HandleSigReturn(p)
      PROVE  AuthorityInv'
    <2>1. /\ UNCHANGED <<capabilities, issued>>
          /\ \E to \in Points \ {"handle"} : pc' = [pc EXCEPT ![p] = to]
          /\ \A q \in Pids \ {p} : request'[q] = request[q] /\ capability_used'[q] = capability_used[q]
        BY <1>6 DEF Refuse, Enter, Deny, Audit, DeliverNone, DeliverDefault, DeliverHandler, Return,
                    HandlePlain, HandleKill, HandleSigAction, HandleSigProcMask, HandleSigReturn,
                    Handling, Step, Points, capVars, SyscallTypeOK, CallTypeOK
    <2> QED BY <1>4, <2>1 DEF SyscallTypeOK, CallTypeOK
<1>7. CASE UNCHANGED syscallVars
    BY <1>4, <1>7 DEF syscallVars, capVars, call
<1> QED BY <1>1, <1>2, <1>5, <1>6, <1>7 DEF SyscallNext

-----------------------------------------------------------------------------
(* The theorems.                                                           *)

\* The inductive invariant holds in every state.
LEMMA SyscallInvariant == SyscallSpec => []SyscallInv
<1>1. SyscallInit => SyscallInv
    <2> SUFFICES ASSUME SyscallInit
                 PROVE  SyscallInv
        OBVIOUS
    <2>1. FrameInv /\ AuditInv
        BY DEF SyscallInit, FrameInv, AuditInv
    <2>2. UnstoppableInv
        BY RankOrders DEF SyscallInit, UnstoppableInv, Unstoppable
    <2>3. AuthorityInv
        BY DEF SyscallInit, CapInit, Free, AuthorityInv
    <2> QED BY <2>1, <2>2, <2>3, SyscallTypeInit DEF SyscallInv
<1>2. SyscallInv /\ [SyscallNext]_syscallVars => SyscallInv'
    BY SyscallTypeNext, FrameNext, AuditNext, UnstoppableNext, AuthorityNext DEF SyscallInv
<1> QED BY <1>1, <1>2, PTL DEF SyscallSpec

\* Processes, calls and the capability table have their types in every state.
THEOREM SyscallTypeCorrect == SyscallSpec => []SyscallTypeOK
<1>1. SyscallInv => SyscallTypeOK
    BY DEF SyscallInv
<1> QED BY <1>1, SyscallInvariant, PTL

\* Every call that dispatch returns from has exactly one terminal event, which
\* is Ok exactly when the handler did what it was asked for, whatever signals
\* were delivered on the way out.
THEOREM AuditAlwaysTruthful == SyscallSpec => []AuditTruthful
<1>1. SyscallInv => AuditTruthful
    BY DEF SyscallInv, AuditInv, AuditTruthful
<1> QED BY <1>1, SyscallInvariant, PTL

\* In user mode, the frame that SigReturn would restore is the one of the
\* context the innermost handler interrupted, with the value it is owed.
THEOREM SigReturnAlwaysRestores == SyscallSpec => []SigReturnRestores
<1>1. SyscallInv => SigReturnRestores
    BY DEF SyscallInv, FrameInv, SigReturnRestores
<1> QED BY <1>1, SyscallInvariant, PTL

\* The only step from "deliver" to "return" is a delivery of the process itself.
LEMMA LeavesDelivery ==
    ASSUME SyscallInv, SyscallNext, NEW p \in Pids, pc[p] = "deliver", pc'[p] = "return"
    PROVE  DeliverNone(p) \/ DeliverDefault(p) \/ DeliverHandler(p)
<1> USE DEF SyscallInv, SyscallTypeOK, CallTypeOK
<1>1. ~KernelGrants /\ ~KernelRevokes
    BY DEF KernelGrants, KernelRevokes, call
<1>2. PICK q \in Pids :
          \/ \E r \in Asked[workload][q] : Refuse(q, r) \/ Enter(q, r)
          \/ AuthorizeFree(q) \/ AuthorizeByCapability(q) \/ Deny(q)
          \/ HandlePlain(q) \/ HandleKill(q) \/ HandleSigAction(q)
          \/ HandleSigProcMask(q) \/ HandleSigReturn(q)
          \/ Audit(q)
          \/ DeliverNone(q) \/ DeliverDefault(q) \/ DeliverHandler(q)
          \/ Return(q)
    BY <1>1 DEF SyscallNext
<1>3. \E to \in Points : pc' = [pc EXCEPT ![q] = to]
    BY <1>2 DEF Refuse, Enter, AuthorizeFree, AuthorizeByCapability, Deny, Audit,
                DeliverNone, DeliverDefault, DeliverHandler, Return, HandlePlain, HandleKill,
                HandleSigAction, HandleSigProcMask, HandleSigReturn, Handling, Step, Points
<1>4. q = p
    BY <1>3
<1> QED BY <1>2, <1>4 DEF Refuse, Enter, AuthorizeFree, AuthorizeByCapability, Deny, Audit, Return,
                HandlePlain, HandleKill, HandleSigAction, HandleSigProcMask, HandleSigReturn,
                Handling, Step

\* The scan passes every signal that comes before the one that ends it.
LEMMA ScanPasses ==
    ASSUME SyscallInv, NEW p \in Pids, NEW s \in Signals, EndsScan(p, s),
           NEW t \in signal_pending[p] \ AfterScan(p, s)
    PROVE  t \in Active(p) /\ (t = s \/ PassedOver(p, t))
<1>1. t \in Active(p) /\ Rank(t) <= Rank(s) /\ t \in Signals
    BY DEF AfterScan, SyscallInv, SyscallTypeOK, ProcessTypeOK
<1>2. Rank(t) \in 1..10 /\ Rank(s) \in 1..10
    BY <1>1, RankOrders
<1>3. CASE Rank(t) < Rank(s)
    BY <1>1, <1>3 DEF EndsScan
<1>4. CASE Rank(t) = Rank(s)
    BY <1>1, <1>4, RankOrders
<1> QED BY <1>1, <1>2, <1>3, <1>4

\* One delivery with Kill pending ends the process.
LEMMA KillStep ==
    ASSUME SyscallInv, SyscallNext, NEW p \in Pids, pc[p] = "deliver", pc'[p] = "return",
           "Kill" \in signal_pending[p]
    PROVE  state'[p] = "Terminated"
<1>1. "Kill" \in Active(p) /\ actions[p]["Kill"] = "Default" /\ ~PassedOver(p, "Kill")
    BY DEF SyscallInv, UnstoppableInv, Unstoppable, Active, PassedOver
<1>2. DeliverDefault(p) \/ DeliverHandler(p)
    BY <1>1, LeavesDelivery DEF DeliverNone
<1>3. ASSUME NEW s \in Signals, EndsScan(p, s)
      PROVE  s = "Kill"
    <2>1. ~(Rank("Kill") < Rank(s))
        BY <1>1, <1>3 DEF EndsScan
    <2> QED BY <2>1, RankOrders
<1>4. ~DeliverHandler(p)
    BY <1>1, <1>3 DEF DeliverHandler
<1> QED BY <1>2, <1>4 DEF DeliverDefault, SyscallInv, SyscallTypeOK, ProcessTypeOK

\* No sequence of masks, actions and handlers holds off a kill: a process with
\* Kill pending does not come back from its next delivery.
THEOREM KillAlwaysTerminates == SyscallSpec => KillTerminates
<1>1. SyscallInv /\ [SyscallNext]_syscallVars =>
          [\A p \in Pids :
              pc[p] = "deliver" /\ pc'[p] = "return" /\ "Kill" \in signal_pending[p]
                  => state'[p] = "Terminated"]_syscallVars
    BY KillStep
<1> QED BY <1>1, SyscallInvariant, PTL DEF SyscallSpec, KillTerminates

\* Only Kill and the delivery of signals write the pending masks.
LEMMA PendingWriters ==
    ASSUME SyscallNext
    PROVE  \/ UNCHANGED signal_pending
           \/ \E p \in Pids : HandleKill(p) \/ DeliverNone(p) \/ DeliverDefault(p) \/ DeliverHandler(p)
BY DEF SyscallNext, KernelGrants, KernelRevokes, Refuse, Enter, AuthorizeFree, AuthorizeByCapability,
       Deny, HandlePlain, HandleSigAction, HandleSigProcMask, HandleSigReturn, Audit, Return, process

\* What one step takes off a pending mask.
LEMMA SignalStep ==
    ASSUME SyscallInv, SyscallNext, NEW p \in Pids, NEW s \in signal_pending[p] \ signal_pending'[p]
    PROVE  /\ pc[p] = "deliver" /\ s \notin signal_blocked[p]
           /\ \/ PassedOver(p, s)
              \/ actions[p][s] = "Default" /\ state'[p] = "Terminated"
              \/ actions[p][s] = "Handler" /\ handlers'[p] = Append(handlers[p], s)
<1> USE DEF SyscallInv, SyscallTypeOK, ProcessTypeOK
<1>1. ASSUME NEW q \in Pids, HandleKill(q)
      PROVE  FALSE
    <2>1. \/ UNCHANGED signal_pending
          \/ \E u \in Signals, t \in Pids :
                 signal_pending' = [signal_pending EXCEPT ![t] = signal_pending[t] \cup {u}]
        BY <1>1 DEF HandleKill
    <2> QED BY <2>1
<1>2. ASSUME NEW q \in Pids, DeliverNone(q)
      PROVE  pc[p] = "deliver" /\ s \in Active(p) /\ PassedOver(p, s)
    <2>1. q = p
        BY <1>2 DEF DeliverNone
    <2>2. s \in Active(p)
        BY <1>2, <2>1 DEF DeliverNone
    <2> QED BY <1>2, <2>1, <2>2 DEF DeliverNone, Step
<1>3. ASSUME NEW q \in Pids, DeliverDefault(q)
      PROVE  /\ pc[p] = "deliver" /\ s \in Active(p)
             /\ PassedOver(p, s) \/ (actions[p][s] = "Default" /\ state'[p] = "Terminated")
    <2>1. PICK u \in Signals :
              /\ pc[q] = "deliver"
              /\ EndsScan(q, u) /\ actions[q][u] = "Default"
              /\ signal_pending' = [signal_pending EXCEPT ![q] = AfterScan(q, u)]
              /\ state' = [state EXCEPT ![q] = "Terminated"]
        BY <1>3 DEF DeliverDefault, Step
    <2>2. q = p
        BY <2>1
    <2>3. s \in signal_pending[p] \ AfterScan(p, u)
        BY <2>1, <2>2
    <2>4. s \in Active(p) /\ (s = u \/ PassedOver(p, s))
        BY <2>1, <2>2, <2>3, ScanPasses
    <2> QED BY <2>1, <2>2, <2>4
<1>4. ASSUME NEW q \in Pids, DeliverHandler(q)
      PROVE  /\ pc[p] = "deliver" /\ s \in Active(p)
             /\ PassedOver(p, s) \/ (actions[p][s] = "Handler" /\ handlers'[p] = Append(handlers[p], s))
    <2>1. PICK u \in Signals :
              /\ pc[q] = "deliver"
              /\ EndsScan(q, u) /\ actions[q][u] = "Handler"
              /\ signal_pending' = [signal_pending EXCEPT ![q] = AfterScan(q, u)]
              /\ handlers' = [handlers EXCEPT ![q] = Append(handlers[q], u)]
        BY <1>4 DEF DeliverHandler, Step
    <2>2. q = p
        BY <2>1
    <2>3. s \in signal_pending[p] \ AfterScan(p, u)
        BY <2>1, <2>2
    <2>4. s \in Active(p) /\ (s = u \/ PassedOver(p, s))
        BY <2>1, <2>2, <2>3, ScanPasses
    <2> QED BY <2>1, <2>2, <2>4 DEF UserTypeOK
<1> QED BY <1>1, <1>2, <1>3, <1>4, PendingWriters DEF Active

\* A signal is never dropped: it leaves the mask in the owner's own delivery and
\* unblocked, and is ignored, ends the process, or its handler runs next.
THEOREM SignalsNeverLost == SyscallSpec => SignalNotLost
<1>1. SyscallInv /\ [SyscallNext]_syscallVars =>
          [\A p \in Pids : \A s \in signal_pending[p] \ signal_pending'[p] :
              /\ pc[p] = "deliver" /\ s \notin signal_blocked[p]
              /\ \/ PassedOver(p, s)
                 \/ actions[p][s] = "Default" /\ state'[p] = "Terminated"
                 \/ actions[p][s] = "Handler" /\ handlers'[p] = Append(handlers[p], s)]_syscallVars
    BY SignalStep
<1> QED BY <1>1, SyscallInvariant, PTL DEF SyscallSpec, SignalNotLost

\* What one step raises was raised by a process with authority over the target.
LEMMA RaiseStep ==
    ASSUME SyscallInv, SyscallNext, NEW q \in Pids, NEW s \in signal_pending'[q] \ signal_pending[q]
    PROVE  \E p \in Pids : pc[p] = "handle" /\ pc'[p] = "audit" /\ MaySignal(p, q)
<1> USE DEF SyscallInv, SyscallTypeOK, ProcessTypeOK, CallTypeOK
<1>1. \A p \in Pids : ~DeliverNone(p) /\ ~DeliverDefault(p) /\ ~DeliverHandler(p)
    <2> SUFFICES ASSUME NEW p \in Pids, DeliverNone(p) \/ DeliverDefault(p) \/ DeliverHandler(p)
                 PROVE  FALSE
        OBVIOUS
    <2>1. \E left : signal_pending' = [signal_pending EXCEPT ![p] = signal_pending[p] \ left]
        BY DEF DeliverNone, DeliverDefault, DeliverHandler, AfterScan
    <2> QED BY <2>1
<1>2. PICK p \in Pids : HandleKill(p)
    BY <1>1, PendingWriters
<1>3. /\ pc[p] = "handle" /\ pc'[p] = "audit" /\ request[p].number = "Kill"
    BY <1>2 DEF HandleKill, Handling, Step
<1>4. request[p].target = q
    BY <1>2 DEF HandleKill
<1> QED BY <1>3, <1>4 DEF AuthorityInv

\* A signal is raised only by the process itself, its parent, or a process that
\* was issued PROCESS_SIGNAL over exactly the target and is audited with the id
\* of that capability.
THEOREM SignalsAlwaysAuthorized == SyscallSpec => SignalsAuthorized
<1>1. SyscallInv /\ [SyscallNext]_syscallVars =>
          [\A q \in Pids : \A s \in signal_pending'[q] \ signal_pending[q] :
              \E p \in Pids :
                  /\ pc[p] = "handle" /\ pc'[p] = "audit"
                  /\ \/ p = q \/ parent_pid[q] = p
                     \/ \E c \in issued : /\ c.id = capability_used[p]
                                          /\ c.owner = scheduler_task[p]
                                          /\ c.scope = ProcessScope(q)
                                          /\ "PROCESS_SIGNAL" \in c.permissions]_syscallVars
    BY RaiseStep DEF MaySignal
<1> QED BY <1>1, SyscallInvariant, PTL DEF SyscallSpec, SignalsAuthorized

\* Whatever the processes do, the capability table sees only grants and
\* revocations.
THEOREM SyscallsImplementBroker == SyscallSpec => CapSpec
<1>1. SyscallInit => CapInit
    BY DEF SyscallInit
<1>2. SyscallInv /\ [SyscallNext]_syscallVars => [CapNext]_capVars
    <2> SUFFICES ASSUME SyscallInv, [SyscallNext]_syscallVars
                 PROVE  CapNext \/ UNCHANGED capVars
        OBVIOUS
    <2>1. KernelGrants \/ KernelRevokes \/ UNCHANGED capVars
        BY DEF SyscallNext, Refuse, Enter, AuthorizeFree, AuthorizeByCapability, Deny, HandlePlain,
               HandleKill, HandleSigAction, HandleSigProcMask, HandleSigReturn, Audit, DeliverNone,
               DeliverDefault, DeliverHandler, Return, syscallVars
    <2> QED BY <2>1, KernelIsBroker DEF SyscallInv, SyscallTypeOK, ProcessTypeOK
<1> QED BY <1>1, <1>2, SyscallInvariant, PTL DEF SyscallSpec, CapSpec

\* A revoked id stays dead while calls are authorized against the table.
THEOREM RevokedForEverInCalls == SyscallSpec => RevokedStaysRevoked
BY SyscallsImplementBroker, RevokedForEver, PTL
=============================================================================
