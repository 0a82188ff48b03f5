-------------------------------- MODULE Console --------------------------------
(***************************************************************************)
(* The console of the boot CPU: the shell loop (main.rs), the terminal     *)
(* (tty.rs), its two keyboards and the locks they meet at.                 *)
(*                                                                         *)
(* A PS/2 key is decoded and echoed in its interrupt handler (keyboard.rs, *)
(* idt.rs).  A USB key is a report of the xHCI controller: the controller  *)
(* posts an event and sends a message, the top half only sets a pending    *)
(* bit (pci.rs), and the shell loop drains the event ring, delivers the    *)
(* keys and goes to sleep when nothing is pending (xhci.rs).               *)
(*                                                                         *)
(* One CPU runs all of it: while a handler runs the shell stands still.    *)
(* Serial output is printed with interrupts off and is left out; the       *)
(* terminal's input ring is written and drained but never read.            *)
(***************************************************************************)
EXTENDS Integers, Sequences

CONSTANTS
    MAX_LINE,               \* bytes of the line buffer
    RUNTIME_EVENT_BUDGET,   \* events dispatched in one pass
    Letters,                \* the characters that can be typed
    Ps2,                    \* the machines: with a PS/2 keyboard, without
    ReportKeys,             \* how many keys one USB report can bring
    MaxKeys,                \* bound on the keys typed, for model checking
    MaxPortEvents           \* bound on port status changes, for model checking

ASSUME ConsoleAssumption ==
    /\ MAX_LINE \in Nat \ {0} /\ RUNTIME_EVENT_BUDGET \in Nat \ {0}
    /\ Ps2 \subseteq BOOLEAN /\ ReportKeys \in Nat /\ MaxKeys \in Nat /\ MaxPortEvents \in Nat

VARIABLES
    ps2,           \* whether a PS/2 keyboard is there
    pc,            \* where the shell loop is
    irq,           \* where the keyboard handler is, "none" when it does not run
    tty, fb,       \* holders of the locks TTY and FB_WRITER
    line,          \* line_buf up to line_len
    ready,         \* line_ready
    command,       \* cmd_buf of the shell loop
    pending,       \* the xHCI vector's bit of PCI_PENDING_VECTORS
    handled,       \* events dispatched in this pass
    transfer,      \* the HID transfer: "idle", "armed", "posted" or "completed"
    report,        \* its report_buffer, as the new keys in it
    keys,          \* keys of the decoded report that are still to be delivered
    evring,        \* events posted and not dispatched
    busy,          \* the event handler busy bit of the controller
    msi,           \* a message sent and not yet delivered
    typed, ports,  \* number of keys typed and of port changes
    sent,          \* keys typed at the USB keyboard and not yet at the terminal
    keyed,         \* keys typed that the terminal got since a line was last read
    taken          \* the keys typed for the command that is executed

tty_state == <<tty, line, ready>>
usb == <<pending, handled, transfer, report, keys, evring, busy, msi>>
user == <<typed, ports, sent, keyed, taken>>
consoleVars == <<ps2, pc, irq, tty_state, fb, command, usb, user>>

NL == "newline"
BS == "backspace"
Keys == Letters \cup {NL, BS}

Reports == UNION {[1..n -> Keys] : n \in 0..ReportKeys}
HidEvent == "hid"
PortEvent == "port"

\* Without a USB keyboard the HID transfer is never armed.
ConsoleInit ==
    /\ ps2 \in Ps2
    /\ pc = "service" /\ irq = "none"
    /\ tty = "free" /\ fb = "free"
    /\ line = <<>> /\ ready = FALSE /\ command = <<>>
    /\ pending = FALSE /\ handled = 0 /\ keys = <<>>
    /\ transfer \in {"armed", "idle"} /\ report = <<>> /\ evring = <<>> /\ busy = FALSE /\ msi = FALSE
    /\ typed = 0 /\ ports = 0 /\ sent = <<>> /\ keyed = <<>> /\ taken = <<>>

-----------------------------------------------------------------------------
(* The terminal.                                                           *)

\* What a key does to a line that is being edited.
Edited(text, key) ==
    IF key = BS THEN SubSeq(text, 1, Len(text) - 1)
    ELSE IF key # NL /\ Len(text) < MAX_LINE - 1 THEN Append(text, key)
    ELSE text

\* on_char: a newline completes the line but does not close it.
OnChar(key) ==
    /\ line' = Edited(line, key)
    /\ ready' = (ready \/ key = NL)

-----------------------------------------------------------------------------
(* Interrupts.  Only between cli and sti does the shell loop mask them.    *)

Interruptible == irq = "none" /\ pc # "check"

\* An interrupt ends the halt.
Woken == IF pc = "asleep" THEN "lock" ELSE pc

\* Fault: the timer is stopped while the CPU halts.
TimerStopped ==
    /\ Interruptible /\ pc # "asleep"
    /\ UNCHANGED <<ps2, pc, irq, tty_state, fb, command, usb, user>>

\* The timer's handler takes no lock of the console by spinning.
TimerInterrupt ==
    /\ Interruptible /\ pc = "asleep"
    /\ pc' = Woken
    /\ UNCHANGED <<ps2, irq, tty_state, fb, command, usb, user>>

\* interrupt_top_half.
XhciInterrupt ==
    /\ Interruptible /\ msi
    /\ pc' = Woken
    /\ pending' = TRUE
    /\ msi' = FALSE
    /\ UNCHANGED <<ps2, irq, tty_state, fb, command, handled, transfer, report, keys, evring, busy, user>>

\* keyboard_interrupt_handler begins: handle_scancode wants the terminal.
KeyboardInterrupt ==
    /\ ps2 /\ Interruptible /\ typed < MaxKeys
    /\ pc' = Woken
    /\ irq' = "tty"
    /\ typed' = typed + 1
    /\ UNCHANGED <<ps2, tty_state, fb, command, usb, ports, sent, keyed, taken>>

HandlerTypes(key) ==
    /\ irq = "tty" /\ tty = "free"
    /\ tty' = "irq"
    /\ irq' = "fb"
    /\ OnChar(key)
    /\ keyed' = Append(keyed, key)
    /\ UNCHANGED <<ps2, pc, fb, command, usb, typed, ports, sent, taken>>

\* The echo on the screen, and both locks are released again.
HandlerEchoes ==
    /\ irq = "fb" /\ fb = "free"
    /\ tty' = "free"
    /\ irq' = "none"
    /\ UNCHANGED <<ps2, pc, fb, line, ready, command, usb, user>>

-----------------------------------------------------------------------------
(* The controller: it posts an event, and sends a message unless the       *)
(* handler is still known to be busy.                                      *)

Post(event) ==
    /\ evring' = Append(evring, event)
    /\ busy' = TRUE
    /\ msi' = (msi \/ ~busy)

\* Keys go down or up and the armed transfer completes with their report.
UsbReport(new) ==
    /\ typed + Len(new) <= MaxKeys /\ transfer = "armed"
    /\ typed' = typed + Len(new)
    /\ sent' = sent \o new
    /\ transfer' = "posted"
    /\ report' = new
    /\ Post(HidEvent)
    /\ UNCHANGED <<ps2, pc, irq, tty_state, fb, command, pending, handled, keys, ports, keyed, taken>>

PortChanges ==
    /\ ports < MaxPortEvents
    /\ ports' = ports + 1
    /\ Post(PortEvent)
    /\ UNCHANGED <<ps2, pc, irq, tty_state, fb, command, pending, handled, transfer, report, keys, typed, sent, keyed, taken>>

-----------------------------------------------------------------------------
(* The shell loop.                                                         *)

Shell(from, to) == irq = "none" /\ pc = from /\ pc' = to

\* dispatch_one_event: match the event and advance the dequeue pointer,
\* which also tells the controller that the handler is no longer busy.
DispatchOneEvent ==
    /\ evring # <<>> /\ handled < RUNTIME_EVENT_BUDGET
    /\ transfer' = IF Head(evring) = HidEvent THEN "completed" ELSE transfer
    /\ evring' = Tail(evring)
    /\ busy' = FALSE
    /\ handled' = handled + 1

\* The end of a pass: nothing is left, or the budget is used up.
PassEnds == evring = <<>> \/ handled = RUNTIME_EVENT_BUDGET

ServiceTakes ==
    /\ Shell("service", "drain")
    /\ pending' = FALSE
    /\ handled' = 0
    /\ UNCHANGED <<ps2, irq, tty_state, fb, command, transfer, report, keys, evring, busy, msi, user>>

ServiceDrains ==
    /\ Shell("drain", "drain")
    /\ DispatchOneEvent
    /\ UNCHANGED <<ps2, irq, tty_state, fb, command, pending, report, keys, msi, user>>

\* acknowledge_interrupt touches summary bits that the message does not need.
ServiceAcknowledges ==
    /\ Shell("drain", "final")
    /\ PassEnds
    /\ UNCHANGED <<ps2, irq, tty_state, fb, command, usb, user>>

\* Fault: an exhausted budget is not remembered.
ServiceForgets ==
    /\ Shell("final", "poll")
    /\ \/ DispatchOneEvent
       \/ PassEnds /\ UNCHANGED <<handled, transfer, evring, busy>>
    /\ UNCHANGED <<ps2, irq, tty_state, fb, command, pending, report, keys, msi, user>>

\* The last look at the ring, and the vector is requeued when the budget is
\* used up.
ServiceEnds ==
    /\ Shell("final", "poll")
    /\ \/ DispatchOneEvent
       \/ PassEnds /\ UNCHANGED <<handled, transfer, evring, busy>>
    /\ pending' = (pending \/ handled' = RUNTIME_EVENT_BUDGET)
    /\ UNCHANGED <<ps2, irq, tty_state, fb, command, report, keys, msi, user>>

PollBegins ==
    /\ Shell("poll", "polling")
    /\ handled' = 0
    /\ UNCHANGED <<ps2, irq, tty_state, fb, command, pending, transfer, report, keys, evring, busy, msi, user>>

PollDispatches ==
    /\ Shell("polling", "polling")
    /\ DispatchOneEvent
    /\ UNCHANGED <<ps2, irq, tty_state, fb, command, pending, report, keys, msi, user>>

PollFindsNothing ==
    /\ Shell("polling", "cli")
    /\ PassEnds /\ transfer # "completed"
    /\ handled' = 0
    /\ UNCHANGED <<ps2, irq, tty_state, fb, command, pending, transfer, report, keys, evring, busy, msi, user>>

\* To the next of the keys, or on.
NextKey(rest) == IF rest = <<>> THEN "cli" ELSE "deliver"

\* The report is copied out and the transfer armed again.
PollTakesReport ==
    /\ Shell("polling", NextKey(report))
    /\ PassEnds /\ transfer = "completed"
    /\ keys' = report
    /\ report' = <<>>
    /\ transfer' = "armed"
    /\ handled' = 0
    /\ UNCHANGED <<ps2, irq, tty_state, fb, command, pending, evring, busy, msi, user>>

\* The transfer failed or the keyboard is gone: it is not armed again.
PollDisablesKeyboard ==
    /\ Shell("polling", "cli")
    /\ PassEnds /\ transfer = "completed"
    /\ transfer' = "idle"
    /\ handled' = 0
    /\ UNCHANGED <<ps2, irq, tty_state, fb, command, pending, report, keys, evring, busy, msi, user>>

DeliverKey ==
    /\ Shell("deliver", "echo")
    /\ tty = "free"
    /\ tty' = "shell"
    /\ OnChar(Head(keys))
    /\ keys' = Tail(keys)
    /\ keyed' = Append(keyed, Head(sent)) /\ sent' = Tail(sent)
    /\ UNCHANGED <<ps2, irq, fb, command, pending, handled, transfer, report, evring, busy, msi, typed, ports, taken>>

EchoLocks ==
    /\ Shell("echo", "echoing")
    /\ fb = "free"
    /\ fb' = "shell"
    /\ UNCHANGED <<ps2, irq, tty_state, command, usb, user>>

EchoUnlocks ==
    /\ Shell("echoing", NextKey(keys))
    /\ fb' = "free"
    /\ tty' = "free"
    /\ UNCHANGED <<ps2, irq, line, ready, command, usb, user>>

MasksInterrupts ==
    /\ Shell("cli", "check")
    /\ UNCHANGED <<ps2, irq, tty_state, fb, command, usb, user>>

\* sti when the vector is pending, otherwise sti; hlt.
Sleeps ==
    /\ Shell("check", IF pending THEN "lock" ELSE "asleep")
    /\ UNCHANGED <<ps2, irq, tty_state, fb, command, usb, user>>

LocksTerminal ==
    /\ Shell("lock", "read")
    /\ tty = "free"
    /\ tty' = "shell"
    /\ UNCHANGED <<ps2, irq, line, ready, fb, command, usb, user>>

NoLine ==
    /\ Shell("read", "service")
    /\ ~ready
    /\ tty' = "free"
    /\ UNCHANGED <<ps2, irq, line, ready, fb, command, usb, user>>

\* Fault: the text of the line stays in the buffer.
ReadsWithoutClear ==
    /\ Shell("read", "run")
    /\ ready
    /\ command' = line
    /\ taken' = keyed /\ keyed' = <<>>
    /\ ready' = FALSE
    /\ tty' = "free"
    /\ UNCHANGED <<ps2, irq, line, fb, usb, typed, ports, sent>>

\* read_line, clear_line, and the lock is dropped before the command runs.
ReadsLine ==
    /\ Shell("read", "run")
    /\ ready
    /\ command' = line
    /\ taken' = keyed /\ keyed' = <<>>
    /\ line' = <<>>
    /\ ready' = FALSE
    /\ tty' = "free"
    /\ UNCHANGED <<ps2, irq, fb, usb, typed, ports, sent>>

\* execute and prompt print to the screen.
CommandPrints ==
    /\ Shell("run", "printing")
    /\ fb = "free"
    /\ fb' = "shell"
    /\ UNCHANGED <<ps2, irq, tty_state, command, usb, user>>

CommandEnds ==
    /\ Shell("printing", "service")
    /\ fb' = "free"
    /\ command' = <<>> /\ taken' = <<>>
    /\ UNCHANGED <<ps2, irq, tty_state, usb, typed, ports, sent, keyed>>

ShellLoop ==
    \/ ServiceTakes \/ ServiceDrains \/ ServiceAcknowledges \/ ServiceEnds
    \/ PollBegins \/ PollDispatches \/ PollFindsNothing \/ PollTakesReport \/ PollDisablesKeyboard
    \/ DeliverKey \/ EchoLocks \/ EchoUnlocks
    \/ MasksInterrupts \/ Sleeps
    \/ LocksTerminal \/ NoLine \/ ReadsLine \/ CommandPrints \/ CommandEnds

ConsoleNext ==
    \/ ShellLoop
    \/ TimerInterrupt \/ XhciInterrupt
    \/ PortChanges \/ \E new \in Reports : UsbReport(new)
    \/ KeyboardInterrupt \/ HandlerEchoes \/ \E key \in Keys : HandlerTypes(key)

\* The CPU executes, and its timer keeps ticking.
ConsoleSpec ==
    /\ ConsoleInit /\ [][ConsoleNext]_consoleVars
    /\ WF_consoleVars(ShellLoop)
    /\ WF_consoleVars(TimerInterrupt)
    /\ WF_consoleVars(XhciInterrupt)
    /\ WF_consoleVars(HandlerEchoes \/ \E key \in Keys : HandlerTypes(key))

-----------------------------------------------------------------------------
\* "Close the check-to-sleep race" (main.rs): the shell never sleeps on events
\* of the controller unless a message that will wake it is on its way -
\* whichever of the two passes over the ring, the budget or the top half the
\* events arrive next to.
NoLostWakeup ==
    pc = "asleep" => ~pending /\ (evring # <<>> => msi)

\* The lines that fit in line_buf.
Texts == UNION {[1..n -> Letters] : n \in 0..(MAX_LINE - 1)}

\* Typing the keys on an empty line makes it the text: there are the texts in
\* between, each made from the one before by the next key.
Makes(typing, text) ==
    \E t \in [0..Len(typing) -> Texts] :
        /\ t[0] = <<>> /\ t[Len(typing)] = text
        /\ \A i \in 1..Len(typing) : t[i] = Edited(t[i - 1], typing[i])

\* The command that the shell executes is made by every key that was typed and
\* reached the terminal since the line before was read, in the order they were
\* typed: no key is lost, repeated, reordered or left to a second command,
\* through backspaces, full lines, reports of several keys, and keys that the
\* PS/2 handler or the next report brings while the shell is between the
\* newline and its read_line, or executes (tty.rs, main.rs).
CommandHasAllKeys == pc \in {"run", "printing"} => Makes(taken, command)

\* "Line complete" (tty.rs, on_char) and "Returns the line contents (without
\* newline)" (read_line): the command that the shell executes is what was
\* typed up to the newline.
CommandIsTyped ==
    pc \in {"run", "printing"} =>
        \E n \in DOMAIN taken :
            /\ taken[n] = NL /\ \A i \in 1..(n - 1) : taken[i] # NL
            /\ Makes(SubSeq(taken, 1, n - 1), command)

\* A newline that is typed reaches the terminal, unless the keyboard fails on
\* the way, and a completed line is executed, although the loop may go to
\* sleep with the line complete.  (With a PS/2 keyboard the loop may stop in
\* its handler, see HandlerNeverSpins.)
LineServed ==
    /\ ~ps2 /\ (\E i \in DOMAIN sent : sent[i] = NL) ~> ready \/ transfer = "idle"
    /\ ~ps2 /\ ready ~> pc = "run"

\* "Interrupt handlers must never spin on a lock held by the interrupted
\* context" (sched.rs): the keyboard handler never waits for the shell.
HandlerNeverSpins ==
    /\ irq = "tty" => tty # "shell"
    /\ irq = "fb" => fb # "shell"
=============================================================================
