------------------------------- MODULE MCTasks -------------------------------
(***************************************************************************)
(* Tasks, in one run: which CPU runs them and what they may ask of the     *)
(* kernel, each over its own state.  focus says what is followed: the      *)
(* coordinator of the run queues, driven by every operation in any order,  *)
(* or as after boot by enqueue and handoffs alone while it is counted who  *)
(* overtakes whom; or the system calls.                                    *)
(***************************************************************************)
EXTENDS RunQueueFairness, Syscalls

VARIABLE focus

taskVars == <<focus, fairVars, syscallVars>>

TasksInit ==
    /\ focus \in {"operations", "handoffs", "calls"}
    /\ FairInit /\ SyscallInit
    /\ focus # "calls" => workload = CHOOSE w \in Workloads : TRUE

TasksNext ==
    /\ \/ focus = "operations" /\ Next /\ UNCHANGED <<overtaken, syscallVars>>
       \/ focus = "handoffs" /\ FairNext /\ UNCHANGED syscallVars
       \/ focus = "calls" /\ SyscallNext /\ UNCHANGED fairVars
    /\ UNCHANGED focus

TasksSpec == TasksInit /\ [][TasksNext]_taskVars

-----------------------------------------------------------------------------
(* Init and one service: pid 1 is the parent of pid 2, tasks are numbered  *)
(* from 2 since the idle task is the first, and the service may be given   *)
(* the right to signal init and to write.                                  *)

MCPids == {1, 2}
MCParent == [p \in MCPids |-> p - 1]
MCTask == [p \in MCPids |-> p + 1]
MCScopes == {<<"Process", 2>>, <<"Process", 3>>, <<"Service", 1>>}

\* "mixed": calls of every kind, so that grants and revocations meet them.
\* "signals": the service masks and handles what init and it itself raise.
MCWorkloads == {"mixed", "signals"}

MCSignals == [mixed |-> {"Term", BadSignal}, signals |-> {"Kill", "Usr1"}]
MCNumbers ==
    [mixed |-> [p \in MCPids |->
         IF p = 1 THEN {"Kill"}
         ELSE {"Unknown", "Exit", "GetPid", "Write", "Send", "Recv", "Kill", "SigReturn"}],
     signals |-> [p \in MCPids |->
         IF p = 1 THEN {"Kill"} ELSE {"Kill", "SigAction", "SigProcMask", "SigReturn"}]]

MCAsked ==
    [w \in MCWorkloads |-> [p \in MCPids |->
        {r \in Requests :
            /\ r.number \in MCNumbers[w][p]
            /\ "sig" \in DOMAIN r => r.sig \in MCSignals[w]
            /\ "set" \in DOMAIN r => r.set \subseteq MCSignals[w]}]]

MCGrants ==
    [mixed |->
        {[owner |-> 3, scope |-> <<"Process", 2>>, permissions |-> {"PROCESS_SIGNAL", "IPC_SEND"},
          revocable |-> TRUE],
         [owner |-> 3, scope |-> <<"Service", 1>>, permissions |-> {"WRITE"}, revocable |-> FALSE],
         [owner |-> 3, scope |-> <<"Process", 3>>, permissions |-> {"IPC_RECV"}, revocable |-> TRUE]},
     signals |-> {}]

MCCalls ==
    [mixed |-> [p \in MCPids |-> p],
     signals |-> [p \in MCPids |-> IF p = 1 THEN 1 ELSE 4]]
=============================================================================
