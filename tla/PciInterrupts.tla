---------------------------- MODULE PciInterrupts ----------------------------
(***************************************************************************)
(* Routing a PCI function's interrupt (arm_interrupts_for_device in        *)
(* kernel/src/pci.rs over the register transaction of                      *)
(* kernel/src/pci/interrupts.rs).  MSI-X is tried first, then MSI; the     *)
(* vector is reserved before any register is written, every write is read  *)
(* back, and a write that does not stick rolls the transaction back.       *)
(*                                                                         *)
(* The configuration and registry locks are held for the whole call, so    *)
(* one call runs at a time; but the function itself can raise its          *)
(* interrupt between any two writes.  Registers hold the firmware's value  *)
(* or the driver's.  A write may be dropped or read back wrong; wellFormed  *)
(* is what the walk over the capability list says.                         *)
(***************************************************************************)
EXTENDS Naturals, Sequences

CONSTANTS Functions, \* PCI functions whose drivers ask for the same vector
          MaxFaults  \* bound on the writes that go wrong

ASSUME FaultsAssumption == MaxFaults \in Nat

VARIABLES caps,      \* the capabilities of each function
          regs,      \* regs[f][mode]: the registers of the capability, and its table entry
          owner,     \* PCI_VECTOR_OWNERS for the vector
          call,      \* the running arm_interrupts_for_device
          answer,    \* what the call of each function returned
          faults     \* writes that went wrong so far

pciVars == <<caps, regs, owner, call, answer, faults>>

Modes == {"msix", "msi"}
Unowned == [function |-> "none", mode |-> "none", state |-> "Free"]
NoCall == [function |-> "none", mode |-> "none", phase |-> "idle", at |-> 0, restored |-> TRUE]

\* A layout as decode_msi and decode_msix find it; firmware is the mechanism
\* that the firmware left enabled, if any.
Layout(f, mode) ==
    IF mode = "msix" THEN [high |-> TRUE, masking |-> TRUE]
                     ELSE [high |-> caps[f].high, masking |-> caps[f].masking]

Capabilities ==
    {c \in [has : SUBSET Modes, high : BOOLEAN, masking : BOOLEAN, table : BOOLEAN,
            firmware : Modes \cup {"none"}] :
        /\ c.firmware \in c.has \cup {"none"}
        /\ "msi" \notin c.has => ~c.high /\ ~c.masking
        /\ "msix" \notin c.has => ~c.table}

Registers(c, mode) ==
    [enable |-> c.firmware = mode, fmask |-> FALSE, mask |-> FALSE,
     low |-> "firmware", high |-> "firmware", data |-> "firmware"]

PciInit ==
    /\ caps \in [Functions -> Capabilities]
    /\ regs = [f \in Functions |-> [mode \in Modes |-> Registers(caps[f], mode)]]
    /\ owner = Unowned
    /\ call = NoCall
    /\ answer = [f \in Functions |-> "none"]
    /\ faults = 0

-----------------------------------------------------------------------------
(* The transaction: what is written, in order.                             *)

Write(register, value) == [register |-> register, value |-> value]

\* Layout::disabled and Layout::enabled; MSI-X has a function mask as well.
Disabled(mode) == Write("control", [enable |-> FALSE, fmask |-> mode = "msix"])
Enabled(mode) == Write("control", [enable |-> TRUE, fmask |-> mode = "msix"])
Unmasked == Write("control", [enable |-> TRUE, fmask |-> FALSE])

When(condition, write) == IF condition THEN <<write>> ELSE <<>>

\* Fault: the message data follow the enable bit.
PublishesEarly(f, mode) ==
    LET layout == Layout(f, mode)
    IN  <<Disabled(mode)>> \o When(layout.masking, Write("mask", TRUE)) \o
        <<Write("low", "ours")>> \o When(layout.high, Write("high", "ours")) \o
        <<Enabled(mode)>> \o When(layout.masking, Write("mask", FALSE)) \o
        When(mode = "msix", Unmasked) \o <<Write("data", "ours")>>

\* program: the message is complete before the capability is enabled, and
\* masked until the end where there is a mask.
Publishes(f, mode) ==
    LET layout == Layout(f, mode)
    IN  <<Disabled(mode)>> \o When(layout.masking, Write("mask", TRUE)) \o
        <<Write("low", "ours")>> \o When(layout.high, Write("high", "ours")) \o
        <<Write("data", "ours"), Enabled(mode)>> \o When(layout.masking, Write("mask", FALSE)) \o
        When(mode = "msix", Unmasked)

\* The rollback: these writes must stick ...
Disables(f, mode) == <<Disabled(mode)>> \o When(Layout(f, mode).masking, Write("mask", TRUE))

\* ... and these are all tried.
Restores(f, mode) ==
    <<Write("low", "firmware")>> \o When(Layout(f, mode).high, Write("high", "firmware")) \o
    <<Write("data", "firmware")>>

Held(r, write) ==
    IF write.register = "control" THEN [enable |-> r.enable, fmask |-> r.fmask] ELSE r[write.register]

Stored(r, write) ==
    IF write.register = "control"
    THEN [r EXCEPT !.enable = write.value.enable, !.fmask = write.value.fmask]
    ELSE [r EXCEPT ![write.register] = write.value]

\* checked_write with the given fault: the registers afterwards, and whether
\* the value read back is the one written.
Registered(fault, write) ==
    IF fault = "dropped" THEN regs[call.function][call.mode]
                         ELSE Stored(regs[call.function][call.mode], write)

Sticks(fault, write) == fault # "misread" /\ Held(Registered(fault, write), write) = write.value

-----------------------------------------------------------------------------
(* arm_interrupts_for_device.                                              *)

Return(f, what) ==
    /\ call' = NoCall
    /\ answer' = [answer EXCEPT ![f] = what]

\* A route that is already enabled is never taken over.
LeftEnabled(f) == \E mode \in caps[f].has : regs[f][mode].enable

\* interrupts::entry_address accepts the table, or there is no table.
Supports(f, mode) == mode \in caps[f].has /\ (mode = "msix" => caps[f].table)

\* The next mechanism of the loop: reserve the vector for it unless held has
\* it, or return the last error.
Try(f, modes, last, held) ==
    LET usable == {mode \in modes : Supports(f, mode)}
        mode == IF "msix" \in usable THEN "msix" ELSE "msi"
    IN  IF usable = {} \/ held # Unowned
        THEN /\ owner' = held
             /\ Return(f, IF usable = {} THEN last ELSE "InvalidCapability")
        ELSE /\ owner' = [function |-> f, mode |-> mode, state |-> "Reserved"]
             /\ call' = [function |-> f, mode |-> mode, phase |-> "publish", at |-> 1, restored |-> TRUE]
             /\ UNCHANGED answer

Arm(f, wellFormed) ==
    /\ call = NoCall /\ answer[f] = "none"
    /\ IF ~wellFormed
       THEN Return(f, "InvalidCapability") /\ UNCHANGED owner
       ELSE IF LeftEnabled(f)
       THEN Return(f, "AlreadyEnabled") /\ UNCHANGED owner
       ELSE Try(f, Modes, "InvalidCapability", owner)
    /\ UNCHANGED <<caps, regs, faults>>

\* The transaction succeeded: the vector is armed.
Commit(f) ==
    /\ owner' = [owner EXCEPT !.state = "Armed"]
    /\ Return(f, call.mode)

\* Fault: the vector is released whatever became of the rollback.
KeepReleases(f) ==
    /\ owner' = Unowned
    /\ Return(f, "RollbackFailed")

\* RollbackFailed: the vector stays owned, and no other mechanism is tried.
Keep(f) ==
    /\ owner' = [owner EXCEPT !.state = "Failed"]
    /\ Return(f, "RollbackFailed")

\* ReadbackFailed: release_failed, and the next mechanism.
ReleaseAndTryNext(f) == Try(f, IF call.mode = "msix" THEN {"msi"} ELSE {}, "ReadbackFailed", Unowned)

\* One checked_write of the running transaction.
WriteRegister(fault) ==
    LET f == call.function
        mode == call.mode
        writes == CASE call.phase = "publish" -> Publishes(f, mode)
                    [] call.phase = "disable" -> Disables(f, mode)
                    [] OTHER -> Restores(f, mode)
        ok == Sticks(fault, writes[call.at])
        last == call.at = Len(writes)
        restored == call.restored /\ ok
    IN  /\ call.phase # "idle"
        /\ fault = "none" \/ faults < MaxFaults
        /\ faults' = IF fault = "none" THEN faults ELSE faults + 1
        /\ regs' = [regs EXCEPT ![f][mode] = Registered(fault, writes[call.at])]
        /\ CASE call.phase = "publish" /\ ok /\ last -> Commit(f)
             [] call.phase = "publish" /\ ~ok ->
                    call' = [call EXCEPT !.phase = "disable", !.at = 1] /\ UNCHANGED <<owner, answer>>
             [] call.phase = "disable" /\ ~ok -> Keep(f)
             [] call.phase = "disable" /\ ok /\ last ->
                    call' = [call EXCEPT !.phase = "restore", !.at = 1] /\ UNCHANGED <<owner, answer>>
             [] call.phase = "restore" /\ last /\ ~restored -> Keep(f)
             [] call.phase = "restore" /\ last /\ restored -> ReleaseAndTryNext(f)
             [] OTHER -> /\ call' = [call EXCEPT !.at = @ + 1, !.restored = restored]
                         /\ UNCHANGED <<owner, answer>>
        /\ UNCHANGED caps

PciNext ==
    \/ \E f \in Functions, wellFormed \in BOOLEAN : Arm(f, wellFormed)
    \/ \E fault \in {"none", "dropped", "misread"} : WriteRegister(fault)

PciSpec == PciInit /\ [][PciNext]_pciVars

-----------------------------------------------------------------------------
(* Properties.                                                             *)

\* The function may send its message now.
Live(f, mode) == regs[f][mode].enable /\ ~regs[f][mode].fmask /\ ~regs[f][mode].mask

Message(f, mode) ==
    {regs[f][mode].low, regs[f][mode].data} \cup
    (IF Layout(f, mode).high THEN {regs[f][mode].high} ELSE {})

\* Whatever writes are lost, a function never sends a message that is half
\* the firmware's and half the driver's: it would interrupt a foreign vector.
MessageWhole ==
    \A f \in Functions, mode \in Modes :
        Live(f, mode) => Message(f, mode) = IF caps[f].firmware = mode THEN {"firmware"} ELSE {"ours"}

\* A mechanism that the driver enabled, or failed to disable again, owns the
\* vector: neither a second mechanism of the function nor another function
\* can get it.
VectorHeld ==
    \A f \in Functions, mode \in Modes :
        regs[f][mode].enable /\ caps[f].firmware # mode =>
            owner.function = f /\ owner.mode = mode
=============================================================================
