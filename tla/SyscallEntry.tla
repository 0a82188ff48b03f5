----------------------------- MODULE SyscallEntry -----------------------------
(***************************************************************************)
(* The system-call entry stub (syscall_entry, kernel/src/usermode.rs): it  *)
(* pushes the user's registers on the kernel stack of the CPU, builds the  *)
(* SyscallContext below them, calls dispatch, and pops what it pushed.     *)
(* dispatch finds the saved registers as a UserContext 48 bytes above its  *)
(* argument and edits them: a signal redirects the user to a handler, and  *)
(* SigReturn replaces all of them (syscall.rs).                            *)
(*                                                                         *)
(* The stack is a sequence of words, the top first.  Interrupts are masked *)
(* and dispatch does not switch stacks, so the steps of a CPU are alone.   *)
(* A register's contents are symbolic: where they come from, and when.     *)
(***************************************************************************)
EXTENDS Integers, Sequences

CONSTANT MaxEntries   \* bound on the calls, for model checking

ASSUME EntriesAssumption == MaxEntries \in Nat

\* The order of the pushes and of the pops, and the fields of UserContext.
Pushed == <<"rax", "rcx", "rdx", "rsi", "rdi", "r8", "r9", "r10", "r11",
            "rbp", "rbx", "r12", "r13", "r14", "r15">>
Popped == <<"r15", "r14", "r13", "r12", "rbx", "rbp", "r11", "r10", "r9",
            "r8", "rdi", "rsi", "rdx", "rcx", "rax">>
UserContext == <<"r15", "r14", "r13", "r12", "rbx", "rbp", "r11", "r10", "r9",
                 "r8", "rdi", "rsi", "rdx", "rcx", "rax">>

FrameWords == Len(Pushed)
ContextWords == 6   \* SyscallContext: number, arg1..arg5
Regs == {Pushed[i] : i \in 1..FrameWords}
Index(r, list) == CHOOSE i \in 1..Len(list) : list[i] = r

VARIABLES
    stub_pc,    \* where the stub is
    entries,    \* number of calls made
    regs,       \* register -> contents
    stack,      \* of the kernel
    gs,         \* which GS base is active
    saved,      \* saved_context of the process, as <<registers>>, or <<>>
    interrupted, \* the call that the last signal interrupted
    outcome     \* what dispatch did to the frame

entryVars == <<stub_pc, entries, regs, stack, gs, saved, interrupted, outcome>>

\* What the user has in its registers at its n-th call; rcx and r11 are the
\* return address and the flags, put there by the instruction.
UserRegs(n) == [r \in Regs |-> <<r, n>>]
Junk == <<"junk", 0>>

EntryInit ==
    /\ stub_pc = "user" /\ entries = 0
    /\ regs = UserRegs(0)
    /\ stack = <<>> /\ gs = "user"
    /\ saved = <<>> /\ interrupted = 0 /\ outcome = "plain"

\* The syscall instruction, swapgs and the switch to the kernel stack.
SyscallInstruction ==
    /\ stub_pc = "user" /\ entries < MaxEntries
    /\ entries' = entries + 1
    /\ regs' = UserRegs(entries')
    /\ stub_pc' = "push" /\ gs' = "kernel"
    /\ UNCHANGED <<stack, saved, interrupted, outcome>>

PushAll ==
    /\ stub_pc = "push"
    /\ stack' = [i \in 1..FrameWords |-> regs[Pushed[FrameWords + 1 - i]]] \o stack
    /\ stub_pc' = "load"
    /\ UNCHANGED <<entries, regs, gs, saved, interrupted, outcome>>

\* The word at [rsp + k*8].
Word(k) == stack[k + 1]

\* The registers of the SyscallContext are loaded from the stack ...
LoadArguments ==
    /\ stub_pc = "load"
    /\ regs' = [regs EXCEPT !["rax"] = Word(14), !["rdi"] = Word(6), !["rsi"] = Word(5),
                            !["rdx"] = Word(2), !["r10"] = Word(3), !["r8"] = Word(4)]
    /\ stub_pc' = "build"
    /\ UNCHANGED <<entries, stack, gs, saved, interrupted, outcome>>

\* ... and stored below the frame.
BuildContext ==
    /\ stub_pc = "build"
    /\ stack' = <<regs["rax"], regs["rdi"], regs["rsi"], regs["rdx"], regs["r10"], regs["r8"]>> \o stack
    /\ stub_pc' = "dispatch"
    /\ UNCHANGED <<entries, regs, gs, saved, interrupted, outcome>>

-----------------------------------------------------------------------------
(* dispatch: user_context_ptr is the address of its argument plus 48.      *)

UserContextPtr == ContextWords

\* Fault: the context is taken to start one word early.
FieldShort(f) == UserContextPtr - 1 + Index(f, UserContext)

\* The word of the stack that a field of the UserContext names.
Field(f) == UserContextPtr + Index(f, UserContext)

\* dispatch has the Rust ABI and returns SyscallResult, a tag and a value; the
\* stub is not Rust and reads rax.  Which of the two is there is up to the
\* build.  Scratch registers are lost.
Tag == <<"tag", 0>>

Called(value) ==
    \E word \in {value, Tag} :
        regs' = [r \in Regs |->
            IF r = "rax" THEN word
            ELSE IF r \in {"rbx", "rbp", "r12", "r13", "r14", "r15"} THEN regs[r] ELSE Junk]

DispatchPlain ==
    /\ stub_pc = "dispatch"
    /\ Called(<<"ret", entries>>)
    /\ outcome' = "plain"
    /\ stub_pc' = "unwind"
    /\ UNCHANGED <<entries, stack, gs, saved, interrupted>>

\* A handler is entered: the context is saved with the result of the call.
DispatchSignal ==
    /\ stub_pc = "dispatch"
    /\ Called(<<"zero", 0>>)
    /\ saved' = <<[f \in Regs |-> IF f = "rax" THEN <<"ret", entries>> ELSE stack[Field(f)]]>>
    /\ stack' = [stack EXCEPT ![Field("rcx")] = <<"handler", entries>>,
                              ![Field("rdi")] = <<"signal", entries>>]
    /\ outcome' = "signal"
    /\ stub_pc' = "unwind"
    /\ interrupted' = entries
    /\ UNCHANGED <<entries, gs>>

DispatchSigReturn ==
    /\ stub_pc = "dispatch" /\ saved # <<>>
    /\ Called(saved[1]["rax"])
    /\ stack' = [i \in 1..Len(stack) |->
           IF i > UserContextPtr /\ i <= UserContextPtr + FrameWords
           THEN saved[1][UserContext[i - UserContextPtr]] ELSE stack[i]]
    /\ saved' = <<>>
    /\ outcome' = "sigreturn"
    /\ stub_pc' = "unwind"
    /\ UNCHANGED <<entries, gs, interrupted>>

-----------------------------------------------------------------------------
\* The context is dropped and the result takes the place of the saved rax.
DropContext ==
    /\ stub_pc = "unwind"
    /\ stack' = [SubSeq(stack, ContextWords + 1, Len(stack)) EXCEPT ![15] = regs["rax"]]
    /\ stub_pc' = "pop"
    /\ UNCHANGED <<entries, regs, gs, saved, interrupted, outcome>>

\* The pops, swapgs and sysretq.
PopAll ==
    /\ stub_pc = "pop"
    /\ regs' = [r \in Regs |-> stack[Index(r, Popped)]]
    /\ stack' = SubSeq(stack, FrameWords + 1, Len(stack))
    /\ gs' = "user"
    /\ stub_pc' = "user"
    /\ UNCHANGED <<entries, saved, interrupted, outcome>>

EntryNext ==
    \/ SyscallInstruction \/ PushAll \/ LoadArguments \/ BuildContext
    \/ DispatchPlain \/ DispatchSignal \/ DispatchSigReturn
    \/ DropContext \/ PopAll

EntrySpec == EntryInit /\ [][EntryNext]_entryVars

-----------------------------------------------------------------------------
\* The call that the user returns from: SigReturn takes it back to the one the
\* signal interrupted.
Origin == IF outcome = "sigreturn" THEN interrupted ELSE entries

\* A call changes rax only.  A signal also puts the handler's address into rcx
\* (the return address) and the signal into rdi, and SigReturn gives back every
\* register of the interrupted call: the stub's frame and the fields of
\* UserContext are the same words.
RegistersPreserved ==
    stub_pc = "user" =>
        \A r \in Regs \ {"rax"} :
            regs[r] = IF outcome = "signal" /\ r = "rcx" THEN <<"handler", entries>>
                      ELSE IF outcome = "signal" /\ r = "rdi" THEN <<"signal", entries>>
                      ELSE <<r, Origin>>

\* "SyscallContext layout: number(rax), arg1(rdi), arg2(rsi), arg3(rdx),
\* arg4(r10), arg5(r8)" (usermode.rs): dispatch sees the user's arguments.
ArgumentsPassed ==
    stub_pc = "dispatch" =>
        \A k \in 1..ContextWords :
            stack[k] = <<(<<"rax", "rdi", "rsi", "rdx", "r10", "r8">>)[k], entries>>
=============================================================================
